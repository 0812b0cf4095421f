--------------------------- MODULE SharingProofs ---------------------------
(***************************************************************************)
(* Proofs about Sharing, for any number of processes, files and            *)
(* configurations.                                                         *)
(*                                                                         *)
(* Parts 1 to 5: as long as opens keep away from a cache at work and       *)
(* callbacks do not call it, the lock in the file does what it is for,     *)
(* whatever dies and whatever file the path names.                         *)
(*                                                                         *)
(* Parts 6 to 11: what the rules of use buy of the cache file itself,      *)
(* which file a process has and what is in it.  All rests on one fact:     *)
(* while a process opens, either it joins a cache of its size with init=0, *)
(* and changes nothing in it but the lock and the descriptor, or no other  *)
(* process has the cache.                                                  *)
(***************************************************************************)
EXTENDS Sharing, FiniteSetTheorems, TLAPS

-----------------------------------------------------------------------------
(* Part 1: types.                                                          *)

CallPc == {"wlock", "rlock", "itself", "find", "store", "nested", "visit", "see", "unlock"}
Calm   == {"idle", "ready"} \cup Opening
Pc     == Calm \cup CallPc

FileType ==
  [size : Nat, made : {"raw", "clear", "head", "whole"},
   bases : SUBSET Base, fd : Nat, value : 0 .. ItemValues - 1,
   writer : Proc \cup {NULL, DEAD}, readers : SUBSET (Proc \cup {DEAD}),
   unfinished : SUBSET (Proc \cup {DEAD})]

ProcType ==
  [pc : Pc, config : [size : Nat, init : BOOLEAN, fits : BOOLEAN], init : BOOLEAN,
   file : File \cup {NULL}, place : [base : Base \cup {NULL}, fd : Nat], read : Nat]

(* A process that is not idle has a file and a place.                      *)
Placed(r) == IF r.pc = "idle" THEN r.file = NULL ELSE r.file \in File /\ r.place \in Place

Types ==
  /\ name \in File \cup {NULL}
  /\ file \in [File -> FileType]
  /\ proc \in [Proc -> ProcType]
  /\ \A p \in Proc : Placed(proc[p])
  /\ broken \subseteq Rule

LEMMA EmptyTyped ==
  /\ Empty \in FileType /\ Empty.writer = NULL /\ Empty.readers = {}
  /\ Outside \in ProcType /\ Placed(Outside) /\ Outside.pc = "idle"
  BY MapFileAssumption, SMT
  DEF Empty, FileType, Outside, State, NoConfig, NoPlace, ProcType, Pc, Calm, Placed

(* Places are where processes can be.                                      *)
LEMMA PlaceTyped ==
  ASSUME NEW pl \in Place
  PROVE  pl \in [base : Base \cup {NULL}, fd : Nat] /\ pl.base \in Base
  BY MapFileAssumption DEF Base

LEMMA StateTyped ==
  ASSUME NEW pc \in Pc \ {"idle"}, NEW c \in [size : Nat, init : BOOLEAN, fits : BOOLEAN],
         NEW init \in BOOLEAN, NEW i \in File, NEW pl \in Place
  PROVE  /\ State(pc, c, init, i, pl) \in ProcType /\ Placed(State(pc, c, init, i, pl))
         /\ State(pc, c, init, i, pl).pc = pc
  BY PlaceTyped, SMT DEF State, ProcType, Placed

(* There is a file for who creates one.                                    *)
LEMMA FreshIsFile ==
  ASSUME Types, name = NULL
  PROVE  Fresh \in File
<1>1. IsFiniteSet(File) /\ Cardinality(Proc) < Cardinality(File) /\ NULL \notin File
  <2>1. MaxFile \in Int /\ 1 \in Int /\ Cardinality(Proc) \in Nat
    BY MapFileAssumption, FS_CardinalityType
  <2>2. IsFiniteSet(1 .. MaxFile) /\ Cardinality(1 .. MaxFile) = IF 1 > MaxFile THEN 0 ELSE MaxFile - 1 + 1
    BY <2>1, FS_Interval
  <2>3. Cardinality(Proc) < Cardinality(1 .. MaxFile)
    BY <2>1, <2>2, MapFileAssumption
  <2> QED  BY <2>2, <2>3, MapFileAssumption DEF File
<1>2. Unused # {}
  <2> SUFFICES ASSUME Unused = {} PROVE FALSE
    OBVIOUS
  <2> DEFINE f == [i \in File |-> CHOOSE p \in Proc : Mine(p) = i]
  <2>1. \A i \in File : \E p \in Proc : Mine(p) = i
    BY <1>1 DEF Unused
  <2>2. \A i \in File : f[i] \in Proc /\ Mine(f[i]) = i
    BY <2>1
  <2>3. f \in [File -> Proc]
    BY <2>2
  <2> HIDE DEF f
  <2>4. \E x, y \in File : x # y /\ f[x] = f[y]
    BY <1>1, <2>3, FS_PigeonHole, MapFileAssumption
  <2> QED  BY <2>2, <2>4
<1>3. Fresh \in Unused
  BY <1>2 DEF Fresh
<1> QED  BY <1>3 DEF Unused

(* What Step leaves: files in use are as the step made them.               *)
LEMMA StepTyped ==
  ASSUME Types, NEW p \in Proc, NEW r \in ProcType, Placed(r), NEW files \in [File -> FileType],
         Step(p, r, files), name' \in File \cup {NULL}, broken' \subseteq Rule
  PROVE  /\ Types'
         /\ \A q \in Proc : proc'[q] = IF q = p THEN r ELSE proc[q]
         /\ \A i \in File : file'[i] = files[i] \/ file'[i] = Empty
         /\ \A q \in Proc : proc'[q].file # NULL => file'[proc'[q].file] = files[proc'[q].file]
<1>1. proc' = [proc EXCEPT ![p] = r]
  BY DEF Step
<1>2. proc' \in [Proc -> ProcType] /\ \A q \in Proc : proc'[q] = IF q = p THEN r ELSE proc[q]
  BY <1>1 DEF Types
<1>3. file' = [i \in File |-> IF i = name' \/ \E q \in Proc : proc'[q].file = i
                              THEN files[i] ELSE Empty]
  BY DEF Step, Reclaimed
<1>4. /\ file' \in [File -> FileType]
      /\ \A i \in File : file'[i] = files[i] \/ file'[i] = Empty
  BY <1>3, EmptyTyped
<1>5. \A q \in Proc : proc'[q].file \in File \cup {NULL}
  BY <1>2 DEF ProcType
<1>6. \A q \in Proc : proc'[q].file # NULL => file'[proc'[q].file] = files[proc'[q].file]
  BY <1>3, <1>5
<1> QED  BY <1>2, <1>4, <1>6 DEF Types

(* A process that goes on keeps its file and its place.                    *)
LEMMA GoesTyped ==
  ASSUME Types, NEW p \in Proc, ~Idle(p), NEW pc \in Pc \ {"idle"}
  PROVE  /\ Goes(p, pc) \in ProcType /\ Placed(Goes(p, pc))
         /\ Goes(p, pc).pc = pc /\ Goes(p, pc).file = Mine(p)
         /\ Mine(p) \in File /\ proc[p].place \in Place /\ file[Mine(p)] \in FileType
<1>1. proc[p] \in ProcType /\ Mine(p) \in File /\ proc[p].place \in Place
  BY DEF Types, Placed, Idle, At, Mine
<1> QED  BY <1>1, SMT DEF Goes, ProcType, Placed, Mine, Types

-----------------------------------------------------------------------------
(* Part 2: the inductive invariant.                                        *)

QuietFlat == Kept({"quiet", "flat"})

(* While a process opens, no other one calls.                              *)
Alone ==
  Kept({"quiet"}) =>
    \A p, q \in Proc : p # q /\ proc[p].pc \in Opening => proc[q].pc \in Calm

OneOwner(f) == f.writer = NULL \/ f.readers = {}

Has(f, p) == f.writer = p \/ p \in f.readers

(* Who is inside has the lock in its way, and what it has read is true.    *)
LockedBy(r, f, p) ==
  /\ r.pc \in {"find", "store"} => f.writer = p
  /\ r.pc \in {"visit", "see"} => p \in f.readers
  /\ r.pc = "unlock" => Has(f, p)
  /\ r.pc # "nested"
  /\ r.pc \in {"store", "see"} => f.value = r.read

Locked ==
  QuietFlat => /\ \A i \in File : OneOwner(file[i])
               /\ \A p \in Proc : LockedBy(proc[p], file[Mine(p)], p)

IInv == Types /\ Alone /\ Locked

(* A rule once broken is never kept again.                                 *)
LEMMA KeptBefore ==
  ASSUME broken \subseteq broken'
  PROVE  /\ Kept({"quiet"})' => Kept({"quiet"})
         /\ QuietFlat' => QuietFlat /\ Kept({"quiet"}) /\ Kept({"quiet"})'
  BY DEF Kept, QuietFlat

LEMMA InitIInv == Init => IInv
<1> SUFFICES ASSUME Init PROVE IInv
  OBVIOUS
<1>1. /\ name = NULL /\ broken = {}
      /\ file = [i \in File |-> Empty] /\ proc = [p \in Proc |-> Outside]
  BY DEF Init
<1>2. /\ \A i \in File : file[i] \in FileType /\ OneOwner(file[i])
      /\ \A p \in Proc : proc[p] \in ProcType /\ Placed(proc[p]) /\ proc[p].pc = "idle"
  BY <1>1, EmptyTyped DEF OneOwner
<1>3. Types
  BY <1>1, <1>2, EmptyTyped DEF Types
<1>4. Alone /\ Locked
  BY <1>2 DEF Alone, Locked, LockedBy, Calm, Opening
<1> QED  BY <1>3, <1>4 DEF IInv

(* A process that opens, when no other one is in a call.                   *)
LEMMA OpenerIInv ==
  ASSUME IInv, NEW p \in Proc, NEW r \in ProcType, Placed(r), NEW files \in [File -> FileType],
         Step(p, r, files), name' \in File \cup {NULL},
         broken \subseteq broken', broken' \subseteq Rule,
         r.pc \in Calm,
         QuietFlat => \A i \in File : OneOwner(files[i]),
         Kept({"quiet"})' => \A q \in Proc \ {p} : proc[q].pc \in Calm
  PROVE  IInv'
<1>1. /\ Types'
      /\ \A q \in Proc : proc'[q] = IF q = p THEN r ELSE proc[q]
      /\ \A i \in File : file'[i] = files[i] \/ file'[i] = Empty
  BY StepTyped DEF IInv
<1>2. Alone'
  BY <1>1 DEF Alone, Calm, Opening
<1>3. ASSUME QuietFlat'
      PROVE  /\ \A i \in File : OneOwner(file'[i])
             /\ \A q \in Proc : LockedBy(proc'[q], file'[Mine(q)'], q)
  <2>1. QuietFlat /\ Kept({"quiet"})'
    BY <1>3, KeptBefore
  <2>2. \A i \in File : OneOwner(file'[i])
    BY <1>1, <2>1, EmptyTyped DEF OneOwner
  <2>3. \A q \in Proc : proc'[q].pc \in Calm
    BY <1>1, <2>1
  <2>4. \A q \in Proc : LockedBy(proc'[q], file'[Mine(q)'], q)
    BY <2>3 DEF LockedBy, Calm, Opening
  <2> QED  BY <2>2, <2>4
<1>4. Locked'
  BY <1>3 DEF Locked
<1> QED  BY <1>1, <1>2, <1>4 DEF IInv

(* A process that comes, by fork, or goes, while others may be in calls.   *)
LEMMA ComerIInv ==
  ASSUME IInv, NEW p \in Proc, NEW r \in ProcType, Placed(r), NEW files \in [File -> FileType],
         Step(p, r, files), name' \in File \cup {NULL},
         broken \subseteq broken', broken' \subseteq Rule,
         r.pc \in {"idle", "ready"},
         \A i \in File : /\ OneOwner(file[i]) => OneOwner(files[i])
                         /\ files[i].value = file[i].value
                         /\ \A q \in Proc \ {p} :
                              /\ file[i].writer = q => files[i].writer = q
                              /\ q \in file[i].readers => q \in files[i].readers
  PROVE  IInv'
<1>1. /\ Types'
      /\ \A q \in Proc : proc'[q] = IF q = p THEN r ELSE proc[q]
      /\ \A i \in File : file'[i] = files[i] \/ file'[i] = Empty
      /\ \A q \in Proc : proc'[q].file # NULL => file'[proc'[q].file] = files[proc'[q].file]
  BY StepTyped DEF IInv
<1>2. Alone'
  BY <1>1, KeptBefore DEF Alone, Calm, Opening, IInv
<1>3. ASSUME QuietFlat'
      PROVE  /\ \A i \in File : OneOwner(file'[i])
             /\ \A q \in Proc : LockedBy(proc'[q], file'[Mine(q)'], q)
  <2>1. /\ \A i \in File : OneOwner(file[i])
        /\ \A q \in Proc : LockedBy(proc[q], file[Mine(q)], q)
    BY <1>3, KeptBefore DEF IInv, Locked
  <2>2. \A i \in File : OneOwner(file'[i])
    BY <1>1, <2>1, EmptyTyped DEF OneOwner
  <2>3. ASSUME NEW q \in Proc \ {p}, proc[q].pc # "idle"
        PROVE  LockedBy(proc'[q], file'[Mine(q)'], q)
    <3>1. proc'[q] = proc[q] /\ Mine(q) \in File /\ Mine(q)' = Mine(q) /\ Mine(q) # NULL
      BY <1>1, <2>3, MapFileAssumption DEF IInv, Types, Placed, Mine, File
    <3>2. file'[Mine(q)] = files[Mine(q)]
      BY <1>1, <3>1 DEF Mine
    <3>3. LockedBy(proc[q], file[Mine(q)], q)
      BY <2>1
    <3> QED  BY <3>1, <3>2, <3>3 DEF LockedBy, Has
  <2>4. ASSUME NEW q \in Proc, proc'[q].pc \in {"idle", "ready"}
        PROVE  LockedBy(proc'[q], file'[Mine(q)'], q)
    BY <2>4 DEF LockedBy
  <2> QED  BY <1>1, <2>2, <2>3, <2>4
<1>4. Locked'
  BY <1>3 DEF Locked
<1> QED  BY <1>1, <1>2, <1>4 DEF IInv

(* A process in a call.                                                    *)
LEMMA CallerIInv ==
  ASSUME IInv, NEW p \in Proc, NEW r \in ProcType, ~Idle(p),
         proc' = [proc EXCEPT ![p] = r], name' = name,
         file' \in [File -> FileType], \A i \in File \ {Mine(p)} : file'[i] = file[i],
         r.file = Mine(p), r.place = proc[p].place, r.pc \in CallPc \cup {"ready"},
         broken \subseteq broken', broken' \subseteq Rule,
         Kept({"quiet"})' => \A q \in Proc \ {p} : proc[q].pc \notin Opening,
         QuietFlat' =>
           /\ OneOwner(file'[Mine(p)]) /\ LockedBy(r, file'[Mine(p)], p)
           /\ \A q \in Proc \ {p} :
                /\ file[Mine(p)].writer = q => file'[Mine(p)].writer = q
                /\ q \in file[Mine(p)].readers => q \in file'[Mine(p)].readers
                /\ Has(file[Mine(p)], q) => file'[Mine(p)].value = file[Mine(p)].value
  PROVE  IInv'
<1>1. proc' \in [Proc -> ProcType] /\ \A q \in Proc : proc'[q] = IF q = p THEN r ELSE proc[q]
  BY DEF IInv, Types
<1>2. Placed(r) /\ Mine(p) \in File
  BY DEF IInv, Types, Placed, Idle, At, Mine, CallPc
<1>3. Types'
  BY <1>1, <1>2 DEF IInv, Types
<1>4. Alone'
  BY <1>1, KeptBefore DEF IInv, Alone, CallPc, Calm, Opening
<1>5. ASSUME QuietFlat'
      PROVE  /\ \A i \in File : OneOwner(file'[i])
             /\ \A q \in Proc : LockedBy(proc'[q], file'[Mine(q)'], q)
  <2>1. /\ \A i \in File : OneOwner(file[i])
        /\ \A q \in Proc : LockedBy(proc[q], file[Mine(q)], q)
    BY <1>5, KeptBefore DEF IInv, Locked
  <2>2. \A i \in File : OneOwner(file'[i])
    BY <1>5, <2>1
  <2>3. ASSUME NEW q \in Proc \ {p}, proc[q].pc # "idle"
        PROVE  LockedBy(proc'[q], file'[Mine(q)'], q)
    <3>1. proc'[q] = proc[q] /\ Mine(q) \in File /\ Mine(q)' = Mine(q)
      BY <1>1, <2>3 DEF IInv, Types, Placed, Mine
    <3>2. LockedBy(proc[q], file[Mine(q)], q)
      BY <2>1
    <3>3. CASE Mine(q) # Mine(p)
      BY <3>1, <3>2, <3>3
    <3>4. CASE Mine(q) = Mine(p)
      <4>1. /\ file[Mine(q)].writer = q => file'[Mine(q)].writer = q
            /\ q \in file[Mine(q)].readers => q \in file'[Mine(q)].readers
            /\ Has(file[Mine(q)], q) => file'[Mine(q)].value = file[Mine(q)].value
        BY <1>5, <3>4
      <4> QED  BY <3>1, <3>2, <4>1 DEF LockedBy, Has
    <3> QED  BY <3>3, <3>4
  <2>4. ASSUME NEW q \in Proc \ {p}, proc[q].pc = "idle"
        PROVE  LockedBy(proc'[q], file'[Mine(q)'], q)
    BY <1>1, <2>4 DEF LockedBy
  <2>5. LockedBy(proc'[p], file'[Mine(p)'], p)
    BY <1>1, <1>5 DEF Mine
  <2> QED  BY <2>2, <2>3, <2>4, <2>5
<1>6. Locked'
  BY <1>5 DEF Locked
<1> QED  BY <1>3, <1>4, <1>6 DEF IInv

-----------------------------------------------------------------------------
(* Part 3: opens, closes, forks and deaths.                                *)

LEMMA OpenPathIInv ==
  ASSUME IInv, NEW p \in Proc, NEW c \in Config, NEW pl \in Place, OpenPath(p, c, pl)
  PROVE  IInv'
<1> DEFINE i == IF name = NULL THEN Fresh ELSE name
           r == State("stat", c, c.init, i, pl)
<1>1. name' = i /\ Step(p, r, file)
  BY DEF OpenPath
<1>2. i \in File
  BY FreshIsFile DEF IInv, Types
<1>3. c \in ConfigType /\ c.init \in BOOLEAN /\ c \in [size : Nat, init : BOOLEAN, fits : BOOLEAN]
  BY MapFileAssumption DEF ConfigType
<1> HIDE DEF i
<1>4. r \in ProcType /\ Placed(r) /\ r.pc = "stat"
  BY <1>2, <1>3, PlaceTyped, StateTyped DEF Pc, Calm, Opening
<1>5. /\ broken \subseteq broken' /\ broken' \subseteq Rule
      /\ Kept({"quiet"})' => \A q \in Proc \ {p} : proc[q].pc \in Calm
  <2>1. /\ broken \subseteq broken' /\ broken' \subseteq broken \cup Rule
        /\ When("quiet", \E q \in Others(p) : HasOpen(q) /\ ~At(q, "ready")) \subseteq broken'
    BY DEF OpenPath, OpenBreaks, Breaks, When, Rule
  <2>2. ASSUME Kept({"quiet"})', NEW q \in Proc \ {p}
        PROVE  proc[q].pc \in Calm
    <3>1. ~(HasOpen(q) /\ ~At(q, "ready"))
      BY <2>1, <2>2 DEF When, Kept, Others
    <3> QED  BY <3>1 DEF HasOpen, At, Calm
  <2> QED  BY <2>1, <2>2 DEF IInv, Types
<1>6. QuietFlat => \A j \in File : OneOwner(file[j])
  BY DEF IInv, Locked
<1> HIDE DEF r
<1>7. file \in [File -> FileType] /\ r.pc \in Calm /\ name' \in File \cup {NULL}
  BY <1>1, <1>2, <1>4 DEF Calm, Opening, IInv, Types
<1> QED  BY <1>1, <1>4, <1>5, <1>6, <1>7, OpenerIInv

(* A step of an open that leaves name and broken to the caller.            *)
LEMMA GoingIInv ==
  ASSUME IInv, NEW p \in Proc, proc[p].pc \in Opening,
         NEW r \in ProcType, Placed(r), NEW files \in [File -> FileType],
         Step(p, r, files), name' \in File \cup {NULL},
         broken \subseteq broken', broken' \subseteq Rule,
         r.pc \in Calm,
         QuietFlat => \A i \in File : OneOwner(files[i])
  PROVE  IInv'
<1>1. Kept({"quiet"})' => \A q \in Proc \ {p} : proc[q].pc \in Calm
  BY KeptBefore DEF IInv, Alone
<1> QED  BY <1>1, OpenerIInv

(* Those that leave the files alone.                                       *)
LEMMA PlainOpenIInv ==
  ASSUME IInv, NEW p \in Proc,
         Stat(p) \/ Unlink(p) \/ UnlinkFails(p) \/ Map(p) \/ LayAreasFails(p)
  PROVE  IInv'
<1>1. /\ proc[p].pc \in Opening /\ ~Idle(p)
      /\ name' \in File \cup {NULL} /\ file \in [File -> FileType]
      /\ QuietFlat => \A i \in File : OneOwner(file[i])
      /\ broken \subseteq broken' /\ broken' \subseteq Rule
  BY DEF Stat, Unlink, UnlinkFails, Map, LayAreasFails, MapBreaks, Breaks, When, Rule, At, Idle, Calm,
         Opening, IInv, Types, Locked
<1>2. PICK r \in ProcType : /\ Placed(r) /\ Step(p, r, file)
                            /\ r.pc \in Calm
  <2>1. CASE UnlinkFails(p) \/ LayAreasFails(p)
    BY <2>1, EmptyTyped DEF UnlinkFails, LayAreasFails, Calm
  <2>2. CASE ~(UnlinkFails(p) \/ LayAreasFails(p))
    <3>1. \E pc \in Opening : Step(p, Goes(p, pc), file)
      BY <2>2 DEF Stat, Unlink, Map, Calm, Opening
    <3> QED  BY <1>1, <3>1, GoesTyped DEF IInv, Pc, Calm, Opening
  <2> QED  BY <2>1, <2>2
<1> QED  BY <1>1, <1>2, GoingIInv

LEMMA CreateIInv ==
  ASSUME IInv, NEW p \in Proc, Create(p)
  PROVE  IInv'
<1> DEFINE i == IF name = NULL THEN Fresh ELSE name
           r == State("extend", proc[p].config, TRUE, i, proc[p].place)
           files == [file EXCEPT ![i] = Empty]
<1>1. /\ name' = i /\ Step(p, r, files) /\ broken' = broken
      /\ proc[p].pc \in Opening /\ ~Idle(p)
  BY DEF Create, At, Idle, Calm, Opening
<1>2. i \in File
  BY FreshIsFile DEF IInv, Types
<1> HIDE DEF i
<1>3. /\ proc[p].config \in [size : Nat, init : BOOLEAN, fits : BOOLEAN]
      /\ proc[p].place \in Place
  BY <1>1 DEF IInv, Types, ProcType, Placed, Idle, At
<1>4. r \in ProcType /\ Placed(r) /\ r.pc = "extend"
  <2>1. PICK init \in BOOLEAN : init = TRUE
    OBVIOUS
  <2>2. "extend" \in Pc \ {"idle"}
    BY DEF Pc, Calm, Opening
  <2>3. r = State("extend", proc[p].config, init, i, proc[p].place)
    BY <2>1
  <2> HIDE DEF r
  <2> QED  BY <1>2, <1>3, <2>2, <2>3, StateTyped
<1>5. files \in [File -> FileType] /\ \A j \in File : files[j] = file[j] \/ files[j] = Empty
  BY <1>2, EmptyTyped DEF IInv, Types
<1>6. QuietFlat => \A j \in File : OneOwner(files[j])
  BY <1>5, EmptyTyped DEF IInv, Locked, OneOwner
<1> HIDE DEF r, files
<1>7. /\ r.pc \in Calm /\ name' \in File \cup {NULL}
      /\ broken \subseteq broken' /\ broken' \subseteq Rule
  BY <1>1, <1>2, <1>4 DEF Calm, Opening, IInv, Types
<1> QED  BY <1>1, <1>4, <1>5, <1>6, <1>7, GoingIInv

(* Those that work on the file of the process.                             *)
LEMMA LayingIInv ==
  ASSUME IInv, NEW p \in Proc, proc[p].pc \in Opening,
         NEW r \in ProcType, Placed(r), NEW f \in FileType,
         Step(p, r, [file EXCEPT ![Mine(p)] = f]), name' = name, broken' = broken,
         r.pc \in Opening \cup {"ready"},
         OneOwner(f) \/ (f.writer = file[Mine(p)].writer /\ f.readers = file[Mine(p)].readers)
  PROVE  IInv'
<1> DEFINE files == [file EXCEPT ![Mine(p)] = f]
<1>1. Mine(p) \in File /\ file \in [File -> FileType] /\ name \in File \cup {NULL} /\ broken \subseteq Rule
  BY DEF IInv, Types, Placed, Mine, Calm, Opening
<1>2. files \in [File -> FileType] /\ \A j \in File : files[j] = IF j = Mine(p) THEN f ELSE file[j]
  BY <1>1
<1>3. QuietFlat => \A j \in File : OneOwner(files[j])
  BY <1>1, <1>2 DEF IInv, Locked, OneOwner
<1>4. r.pc \in Calm
  BY DEF Calm
<1> HIDE DEF files
<1> QED  BY <1>1, <1>2, <1>3, <1>4, GoingIInv DEF files

LEMMA ExtendIInv ==
  ASSUME IInv, NEW p \in Proc, Extend(p)
  PROVE  IInv'
<1> DEFINE g == file[Mine(p)]
           s == IF g.size < proc[p].config.size THEN proc[p].config.size ELSE g.size
           f == [g EXCEPT !.size = s]
<1>1. /\ name' = name /\ broken' = broken /\ proc[p].pc \in Opening /\ ~Idle(p)
  BY DEF Extend, At, Idle, Calm, Opening
<1>2. /\ Goes(p, "map") \in ProcType /\ Placed(Goes(p, "map")) /\ Goes(p, "map").pc = "map"
      /\ Mine(p) \in File /\ g \in FileType
  BY <1>1, GoesTyped DEF IInv, Pc, Calm, Opening
<1>3. proc[p] \in ProcType /\ file \in [File -> FileType]
  BY DEF IInv, Types
<1>4. f \in FileType /\ f.writer = g.writer /\ f.readers = g.readers
  BY <1>2, <1>3, SMT DEF FileType, ProcType
<1>5. Step(p, Goes(p, "map"), [file EXCEPT ![Mine(p)] = f])
  BY <1>2, <1>3 DEF Extend
<1> HIDE DEF f
<1> QED  BY <1>1, <1>2, <1>4, <1>5, LayingIInv DEF Calm, Opening

(* Opened leaves the place and the file to a process that is ready.        *)
LEMMA OpenedTyped ==
  ASSUME Types, NEW p \in Proc, ~Idle(p)
  PROVE  Opened(p) \in ProcType /\ Placed(Opened(p)) /\ Opened(p).pc = "ready"
<1>1. PICK g \in ProcType : g = Goes(p, "ready") /\ Placed(g) /\ g.pc = "ready"
  BY GoesTyped DEF Pc, Calm
<1>2. NoConfig \in [size : Nat, init : BOOLEAN, fits : BOOLEAN]
  BY SMT DEF NoConfig
<1>3. PICK r : r = [g EXCEPT !.config = NoConfig, !.init = FALSE]
  OBVIOUS
<1>4. r \in ProcType /\ r.pc = "ready" /\ r.file = g.file /\ r.place = g.place
  <2>1. r \in ProcType
    BY <1>1, <1>2, <1>3, Zenon DEF ProcType
  <2> QED  BY <1>1, <1>3, <2>1, SMT DEF ProcType
<1>5. r = Opened(p)
  BY <1>1, <1>3 DEF Opened
<1> QED  BY <1>1, <1>4, <1>5 DEF Placed

LEMMA ClearIInv ==
  ASSUME IInv, NEW p \in Proc, Clear(p)
  PROVE  IInv'
<1> DEFINE f == [Empty EXCEPT !.made = "clear", !.size = file[Mine(p)].size]
<1>1. /\ name' = name /\ broken' = broken /\ proc[p].pc \in Opening /\ ~Idle(p)
      /\ Step(p, Goes(p, "adopt"), [file EXCEPT ![Mine(p)] = f])
  BY DEF Clear, At, Idle, Calm, Opening
<1>2. /\ Goes(p, "adopt") \in ProcType /\ Placed(Goes(p, "adopt")) /\ Goes(p, "adopt").pc = "adopt"
      /\ file[Mine(p)] \in FileType
  BY <1>1, GoesTyped DEF IInv, Pc, Calm, Opening
<1>3. f \in FileType /\ OneOwner(f)
  <2>1. file[Mine(p)].size \in Nat
    BY <1>2 DEF FileType
  <2>2. f \in FileType
    BY <2>1, EmptyTyped, Zenon DEF FileType
  <2> QED  BY <2>2, EmptyTyped, SMT DEF FileType, OneOwner
<1> HIDE DEF f
<1> QED  BY <1>1, <1>2, <1>3, LayingIInv DEF Calm, Opening

LEMMA AdoptIInv ==
  ASSUME IInv, NEW p \in Proc, Adopt(p)
  PROVE  IInv'
<1> DEFINE g == file[Mine(p)]
           f == [g EXCEPT !.fd = proc[p].place.fd, !.writer = NULL, !.readers = {}]
<1>1. /\ name' = name /\ broken' = broken /\ proc[p].pc \in Opening /\ ~Idle(p)
  BY DEF Adopt, At, Idle, Calm, Opening
<1>2. g \in FileType /\ Mine(p) \in File /\ proc[p].place.fd \in Nat /\ file \in [File -> FileType]
  BY <1>1, GoesTyped, PlaceTyped DEF IInv, Types, Pc, Calm
<1>3. f \in FileType /\ f.writer = NULL
  <2>1. f \in FileType
    BY <1>2, Zenon DEF FileType
  <2> QED  BY <1>2, <2>1, SMT DEF FileType
<1>4. PICK r \in ProcType :
        /\ Placed(r) /\ r.pc \in {"head", "ready"}
        /\ Step(p, r, [file EXCEPT ![Mine(p)] = f])
  <2>1. [file EXCEPT ![Mine(p)].fd = proc[p].place.fd, ![Mine(p)].writer = NULL,
                     ![Mine(p)].readers = {}] = [file EXCEPT ![Mine(p)] = f]
    BY <1>2
  <2>2. CASE proc[p].init
    BY <1>1, <2>1, <2>2, GoesTyped DEF Adopt, IInv, Pc, Calm, Opening
  <2>3. CASE ~proc[p].init
    BY <1>1, <2>1, <2>3, OpenedTyped DEF Adopt, IInv
  <2> QED  BY <2>2, <2>3
<1> HIDE DEF f
<1> QED  BY <1>1, <1>3, <1>4, LayingIInv DEF Calm, Opening, OneOwner

LEMMA LayHeadIInv ==
  ASSUME IInv, NEW p \in Proc, LayHead(p)
  PROVE  IInv'
<1> DEFINE g == file[Mine(p)]
           f == [g EXCEPT !.made = "head", !.bases = g.bases \cup {proc[p].place.base}]
<1>1. /\ name' = name /\ broken' = broken /\ proc[p].pc \in Opening /\ ~Idle(p)
  BY DEF LayHead, At, Idle, Calm, Opening
<1>2. /\ g \in FileType /\ Mine(p) \in File /\ proc[p].place.base \in Base /\ file \in [File -> FileType]
      /\ Goes(p, "areas") \in ProcType /\ Placed(Goes(p, "areas")) /\ Goes(p, "areas").pc = "areas"
  BY <1>1, GoesTyped, PlaceTyped DEF IInv, Types, Pc, Calm, Opening
<1>3. f \in FileType /\ f.writer = g.writer /\ f.readers = g.readers
  <2>1. g.bases \cup {proc[p].place.base} \in SUBSET Base
    BY <1>2 DEF FileType
  <2>2. f \in FileType
    BY <1>2, <2>1, Zenon DEF FileType
  <2> QED  BY <1>2, <2>2, SMT DEF FileType
<1>4. Step(p, Goes(p, "areas"), [file EXCEPT ![Mine(p)] = f])
  BY <1>2 DEF LayHead
<1> HIDE DEF f
<1> QED  BY <1>1, <1>2, <1>3, <1>4, LayingIInv DEF Calm, Opening

LEMMA LayAreasIInv ==
  ASSUME IInv, NEW p \in Proc, LayAreas(p)
  PROVE  IInv'
<1> DEFINE g == file[Mine(p)]
           f == [g EXCEPT !.made = "whole"]
<1>1. /\ name' = name /\ broken' = broken /\ proc[p].pc \in Opening /\ ~Idle(p)
  BY DEF LayAreas, At, Idle, Calm, Opening
<1>2. /\ g \in FileType /\ Mine(p) \in File /\ file \in [File -> FileType]
      /\ Opened(p) \in ProcType /\ Placed(Opened(p)) /\ Opened(p).pc = "ready"
  BY <1>1, GoesTyped, OpenedTyped DEF IInv, Types, Pc, Calm
<1>3. f \in FileType /\ f.writer = g.writer /\ f.readers = g.readers
  BY <1>2, SMT DEF FileType
<1>4. Step(p, Opened(p), [file EXCEPT ![Mine(p)] = f])
  BY <1>2 DEF LayAreas
<1> HIDE DEF f
<1> QED  BY <1>1, <1>2, <1>3, <1>4, LayingIInv

LEMMA CloseIInv ==
  ASSUME IInv, NEW p \in Proc, Close(p)
  PROVE  IInv'
<1>1. /\ Step(p, Outside, file) /\ name' = name /\ broken' = broken
      /\ file \in [File -> FileType] /\ name \in File \cup {NULL} /\ broken \subseteq Rule
  BY DEF Close, IInv, Types
<1> QED  BY <1>1, EmptyTyped, ComerIInv

LEMMA ForkIInv ==
  ASSUME IInv, NEW p \in Proc, NEW q \in Others(p), Fork(p, q)
  PROVE  IInv'
<1>1. /\ Step(q, proc[p], file) /\ name' = name /\ q \in Proc /\ proc[p].pc = "ready"
      /\ broken \subseteq broken' /\ broken' \subseteq Rule
      /\ file \in [File -> FileType] /\ name \in File \cup {NULL}
      /\ proc[p] \in ProcType /\ Placed(proc[p])
  BY DEF Fork, Breaks, When, Rule, At, Others, IInv, Types
<1> QED  BY <1>1, ComerIInv

(* What the death of p leaves of a file.                                   *)
Bereft(f, p) ==
  [f EXCEPT !.writer     = IF @ = p THEN DEAD ELSE @,
            !.readers    = IF p \in @ THEN (@ \ {p}) \cup {DEAD} ELSE @,
            !.unfinished = IF p \in @ THEN (@ \ {p}) \cup {DEAD} ELSE @]

LEMMA BereftTyped ==
  ASSUME NEW p \in Proc, NEW f \in FileType
  PROVE  /\ Bereft(f, p) \in FileType
         /\ OneOwner(f) => OneOwner(Bereft(f, p))
         /\ Bereft(f, p).value = f.value
         /\ \A q \in Proc \ {p} : /\ f.writer = q => Bereft(f, p).writer = q
                                  /\ q \in f.readers => q \in Bereft(f, p).readers
<1> DEFINE w == IF f.writer = p THEN DEAD ELSE f.writer
           s == IF p \in f.readers THEN (f.readers \ {p}) \cup {DEAD} ELSE f.readers
           u == IF p \in f.unfinished THEN (f.unfinished \ {p}) \cup {DEAD} ELSE f.unfinished
<1>1. /\ w \in Proc \cup {NULL, DEAD} /\ s \in SUBSET (Proc \cup {DEAD})
      /\ u \in SUBSET (Proc \cup {DEAD})
  BY DEF FileType
<1>2. /\ f.readers = {} => s = {}
      /\ f.writer = NULL => w = NULL
      /\ \A q \in Proc \ {p} : (f.writer = q => w = q) /\ (q \in f.readers => q \in s)
  BY MapFileAssumption
<1>3. Bereft(f, p) = [f EXCEPT !.writer = w, !.readers = s, !.unfinished = u]
  BY DEF Bereft
<1> HIDE DEF w, s, u
<1>4. Bereft(f, p) \in FileType
  BY <1>1, <1>3, Zenon DEF FileType
<1>5. /\ Bereft(f, p).writer = w /\ Bereft(f, p).readers = s
      /\ Bereft(f, p).value = f.value
  BY <1>3, SMT DEF FileType
<1> QED  BY <1>2, <1>4, <1>5 DEF OneOwner

LEMMA DieIInv ==
  ASSUME IInv, NEW p \in Proc, Die(p)
  PROVE  IInv'
<1> DEFINE files == [i \in File |-> Bereft(file[i], p)]
<1>1. /\ Step(p, Outside, files) /\ name' = name /\ broken' = broken
      /\ file \in [File -> FileType] /\ name \in File \cup {NULL} /\ broken \subseteq Rule
  BY DEF Die, Bereft, IInv, Types
<1>2. files \in [File -> FileType] /\ \A i \in File : files[i] = Bereft(file[i], p)
  BY <1>1, BereftTyped
<1> HIDE DEF files
<1> QED  BY <1>1, <1>2, BereftTyped, EmptyTyped, ComerIInv

LEMMA LifecycleIInv ==
  ASSUME IInv, NEW p \in Proc, Lifecycle(p)
  PROVE  IInv'
<1>1. ASSUME NEW c \in Config, NEW pl \in PlaceOf[p], OpenPath(p, c, pl)
      PROVE  IInv'
  <2>1. pl \in Place
    BY DEF Place
  <2> QED  BY <1>1, <2>1, OpenPathIInv
<1> QED
  BY <1>1, PlainOpenIInv, CreateIInv, ExtendIInv, ClearIInv, AdoptIInv,
     LayHeadIInv, LayAreasIInv, CloseIInv, ForkIInv, DieIInv
  DEF Lifecycle, OpenStep

-----------------------------------------------------------------------------
(* Part 4: calls.                                                          *)

(* The process record of a call that has read x.                           *)
Read(p, pc, x) == [proc[p] EXCEPT !.pc = pc, !.read = x]

LEMMA ReadTyped ==
  ASSUME Types, NEW p \in Proc, ~Idle(p), NEW pc \in Pc \ {"idle"}, NEW x \in Nat
  PROVE  /\ Read(p, pc, x) \in ProcType /\ Read(p, pc, x).pc = pc /\ Read(p, pc, x).read = x
         /\ Read(p, pc, x).file = Mine(p) /\ Read(p, pc, x).place = proc[p].place
<1>1. PICK r : r = [proc[p] EXCEPT !.pc = pc, !.read = x]
  OBVIOUS
<1>2. proc[p] \in ProcType
  BY DEF Types
<1>3. r \in ProcType
  BY <1>1, <1>2, Zenon DEF ProcType
<1>4. /\ r.pc = pc /\ r.read = x /\ r.file = Mine(p) /\ r.place = proc[p].place
  BY <1>1, <1>2, SMT DEF ProcType, Mine
<1>5. Read(p, pc, x) = r
  BY <1>1 DEF Read
<1> QED  BY <1>3, <1>4, <1>5

(* A call that goes on from pc, keeping its rules of use.                  *)
LEMMA InCallIInv ==
  ASSUME IInv, NEW p \in Proc, NEW r \in ProcType, proc[p].pc \in CallPc,
         proc' = [proc EXCEPT ![p] = r], name' = name,
         NEW f \in FileType, file' = [file EXCEPT ![Mine(p)] = f],
         r.file = Mine(p), r.place = proc[p].place, r.pc \in CallPc \cup {"ready"},
         broken \subseteq broken', broken' \subseteq Rule,
         QuietFlat' /\ LockedBy(proc[p], file[Mine(p)], p) /\ OneOwner(file[Mine(p)]) =>
           /\ OneOwner(f) /\ LockedBy(r, f, p)
           /\ \A q \in Proc \ {p} :
                /\ file[Mine(p)].writer = q => f.writer = q
                /\ q \in file[Mine(p)].readers => q \in f.readers
                /\ Has(file[Mine(p)], q) => f.value = file[Mine(p)].value
  PROVE  IInv'
<1>1. ~Idle(p) /\ Mine(p) \in File /\ file \in [File -> FileType]
  BY DEF IInv, Types, Placed, Idle, At, Mine, CallPc
<1>2. /\ file' \in [File -> FileType] /\ file'[Mine(p)] = f
      /\ \A i \in File \ {Mine(p)} : file'[i] = file[i]
  BY <1>1
<1>3. Kept({"quiet"})' => \A q \in Proc \ {p} : proc[q].pc \notin Opening
  BY KeptBefore DEF IInv, Alone, CallPc, Calm, Opening
<1>4. QuietFlat' => LockedBy(proc[p], file[Mine(p)], p) /\ OneOwner(file[Mine(p)])
  BY <1>1, KeptBefore DEF IInv, Locked
<1> QED  BY <1>1, <1>2, <1>3, <1>4, CallerIInv

LEMMA CallIInv ==
  ASSUME IInv, NEW p \in Proc, NEW lock \in {"wlock", "rlock"}, Call(p, lock)
  PROVE  IInv'
<1> DEFINE r == Goes(p, lock)
<1>1. /\ proc[p].pc = "ready" /\ ~Idle(p) /\ name' = name /\ file' = file
      /\ lock \in Pc \ {"idle"} /\ lock \in CallPc
  BY DEF Call, At, Idle, Pc, Calm, CallPc
<1>2. /\ r \in ProcType /\ r.pc = lock /\ r.file = Mine(p)
      /\ Mine(p) \in File /\ file \in [File -> FileType] /\ proc[p] \in ProcType
  BY <1>1, GoesTyped DEF IInv, Types
<1>3. proc' = [proc EXCEPT ![p] = r] /\ r.place = proc[p].place
  BY <1>2, SMT DEF Call, Goes, ProcType
<1>4. /\ broken \subseteq broken' /\ broken' \subseteq Rule
      /\ Kept({"quiet"})' => \A q \in Proc \ {p} : proc[q].pc \notin Opening
  <2>1. /\ broken \subseteq broken' /\ broken' \subseteq broken \cup Rule
        /\ When("quiet", SomeoneOpens(p)) \subseteq broken'
    BY DEF Call, CallBreaks, Breaks, When, Rule
  <2> QED  BY <2>1 DEF When, SomeoneOpens, Kept, Others, IInv, Types
<1>5. QuietFlat' => OneOwner(file[Mine(p)]) /\ LockedBy(r, file[Mine(p)], p)
  BY <1>1, <1>2, <1>4, KeptBefore DEF IInv, Locked, LockedBy
<1> HIDE DEF r
<1> QED  BY <1>1, <1>2, <1>3, <1>4, <1>5, CallerIInv

(* What the steps of a call have in common.                                *)
LEMMA CallFacts ==
  ASSUME IInv, NEW p \in Proc, proc[p].pc \in CallPc, NEW pc \in CallPc \cup {"ready"}
  PROVE  /\ file \in [File -> FileType] /\ proc[p] \in ProcType
         /\ Mine(p) \in File /\ file[Mine(p)] \in FileType /\ ~Idle(p)
         /\ Goes(p, pc) \in ProcType /\ Goes(p, pc).pc = pc /\ Goes(p, pc).file = Mine(p)
         /\ Goes(p, pc).place = proc[p].place
         /\ pc \in Pc \ {"idle"} /\ broken \subseteq Rule
<1>1. ~Idle(p) /\ pc \in Pc \ {"idle"} /\ Types /\ proc[p] \in ProcType
  BY DEF Idle, At, CallPc, Pc, Calm, IInv, Types
<1>2. Goes(p, pc).place = proc[p].place
  BY <1>1, SMT DEF Goes, ProcType
<1> QED  BY <1>1, <1>2, GoesTyped DEF Types

LEMMA WriteLockIInv ==
  ASSUME IInv, NEW p \in Proc, WriteLock(p)
  PROVE  IInv'
<1> DEFINE g == file[Mine(p)]
           f == [g EXCEPT !.writer = p]
<1>1. /\ proc[p].pc = "wlock" /\ proc[p].pc \in CallPc /\ "find" \in CallPc
      /\ name' = name /\ broken' = broken /\ proc' = [proc EXCEPT ![p] = Goes(p, "find")]
      /\ g.writer = NULL /\ g.readers = {}
  BY DEF WriteLock, Within, At, CallPc, Goes
<1>2. file' = [file EXCEPT ![Mine(p)] = f] /\ g \in FileType
  BY <1>1, CallFacts DEF WriteLock
<1>3. f \in FileType /\ f.writer = p /\ f.readers = {} /\ f.value = g.value
  BY <1>1, <1>2, SMT DEF FileType
<1>4. OneOwner(f) /\ LockedBy(Goes(p, "find"), f, p)
  BY <1>1, <1>3, CallFacts DEF OneOwner, LockedBy
<1>5. \A q \in Proc : g.writer # q /\ q \notin g.readers
  BY <1>1, MapFileAssumption
<1>6. /\ Goes(p, "find") \in ProcType /\ Goes(p, "find").pc = "find" /\ Goes(p, "find").file = Mine(p)
      /\ Goes(p, "find").place = proc[p].place /\ broken \subseteq Rule
  BY <1>1, CallFacts
<1>7. OneOwner(f) /\ LockedBy(Goes(p, "find"), f, p) /\ \A q \in Proc \ {p} : ~Has(g, q)
  BY <1>4, <1>5 DEF Has
<1> HIDE DEF f
<1> QED  BY <1>1, <1>2, <1>3, <1>5, <1>6, <1>7, InCallIInv

LEMMA FindIInv ==
  ASSUME IInv, NEW p \in Proc, Find(p)
  PROVE  IInv'
<1> DEFINE g == file[Mine(p)]
           f == [g EXCEPT !.unfinished = g.unfinished \cup {p}]
           r == Read(p, "store", g.value)
<1>1. /\ proc[p].pc = "find" /\ proc[p].pc \in CallPc /\ "store" \in CallPc
      /\ name' = name /\ broken' = broken
  BY DEF Find, At, CallPc
<1>2. g \in FileType /\ file \in [File -> FileType] /\ proc \in [Proc -> ProcType] /\ Mine(p) \in File
  BY <1>1, CallFacts DEF IInv, Types
<1>3. file' = [file EXCEPT ![Mine(p)] = f] /\ proc' = [proc EXCEPT ![p] = r]
  BY <1>2 DEF Find, Read
<1>4. /\ f \in FileType /\ f.writer = g.writer /\ f.readers = g.readers /\ f.value = g.value
      /\ g.value \in Nat
  BY <1>2, SMT DEF FileType
<1>5. /\ r \in ProcType /\ r.pc = "store" /\ r.read = g.value
      /\ r.file = Mine(p) /\ r.place = proc[p].place
  <2>1. ~Idle(p) /\ "store" \in Pc \ {"idle"} /\ Types
    BY <1>1, CallFacts DEF IInv
  <2> QED  BY <1>4, <2>1, ReadTyped
<1> HIDE DEF f, r
<1>6. OneOwner(g) /\ LockedBy(proc[p], g, p) => OneOwner(f) /\ LockedBy(r, f, p)
  BY <1>1, <1>4, <1>5 DEF OneOwner, LockedBy
<1>7. broken \subseteq Rule /\ r.pc \in CallPc \cup {"ready"}
  BY <1>1, <1>5, CallFacts
<1> QED  BY <1>1, <1>3, <1>4, <1>5, <1>6, <1>7, InCallIInv

(* A step of a call that leaves the file alone.                            *)
LEMMA PlainCallIInv ==
  ASSUME IInv, NEW p \in Proc, NEW r \in ProcType, proc[p].pc \in CallPc,
         proc' = [proc EXCEPT ![p] = r], name' = name, file' = file,
         r.file = Mine(p), r.place = proc[p].place, r.pc \in CallPc \cup {"ready"},
         broken \subseteq broken', broken' \subseteq Rule,
         QuietFlat' /\ LockedBy(proc[p], file[Mine(p)], p) => LockedBy(r, file[Mine(p)], p)
  PROVE  IInv'
<1>1. Mine(p) \in File /\ file[Mine(p)] \in FileType /\ file \in [File -> FileType]
  BY DEF IInv, Types, Placed, Mine, CallPc
<1>2. file' = [file EXCEPT ![Mine(p)] = file[Mine(p)]]
  BY <1>1
<1> QED  BY <1>1, <1>2, InCallIInv

LEMMA MissIInv ==
  ASSUME IInv, NEW p \in Proc, Miss(p)
  PROVE  IInv'
<1>1. /\ proc[p].pc = "find" /\ proc[p].pc \in CallPc /\ "unlock" \in CallPc
      /\ name' = name /\ broken' = broken /\ file' = file
      /\ proc' = [proc EXCEPT ![p] = Goes(p, "unlock")]
  BY DEF Miss, Within, At, CallPc, Goes
<1>2. /\ Goes(p, "unlock") \in ProcType /\ Goes(p, "unlock").pc = "unlock"
      /\ Goes(p, "unlock").file = Mine(p)
      /\ Goes(p, "unlock").place = proc[p].place /\ broken \subseteq Rule
  BY <1>1, CallFacts
<1>3. LockedBy(proc[p], file[Mine(p)], p) => LockedBy(Goes(p, "unlock"), file[Mine(p)], p)
  BY <1>1, <1>2 DEF LockedBy, Has
<1> QED  BY <1>1, <1>2, <1>3, PlainCallIInv

LEMMA NestIInv ==
  ASSUME IInv, NEW p \in Proc, Nest(p)
  PROVE  IInv'
<1> DEFINE g == file[Mine(p)]
           v == (g.value + 1) % ItemValues
           f == [g EXCEPT !.writer = NULL, !.value = v]
<1>1. /\ proc[p].pc = "store" /\ proc[p].pc \in CallPc /\ "nested" \in CallPc
      /\ name' = name /\ proc' = [proc EXCEPT ![p] = Goes(p, "nested")]
      /\ broken \subseteq broken' /\ broken' \subseteq broken \cup Rule /\ "flat" \in broken'
  BY DEF Nest, At, CallPc, Goes, Breaks, Rule
<1>2. /\ Goes(p, "nested") \in ProcType /\ Goes(p, "nested").pc = "nested"
      /\ Goes(p, "nested").file = Mine(p)
      /\ Goes(p, "nested").place = proc[p].place /\ broken \subseteq Rule
      /\ g \in FileType /\ file \in [File -> FileType] /\ Mine(p) \in File
  BY <1>1, CallFacts
<1>3. file' = [file EXCEPT ![Mine(p)] = f]
  BY <1>2 DEF Nest
<1>4. f \in FileType
  <2>1. g.value \in Nat
    BY <1>2, SMT DEF FileType
  <2>2. v \in 0 .. ItemValues - 1
    BY <2>1, MapFileAssumption, SMT
  <2> HIDE DEF v
  <2> QED  BY <1>2, <2>2, Zenon DEF FileType
<1>5. ~QuietFlat'
  BY <1>1 DEF QuietFlat, Kept
<1> HIDE DEF f
<1> QED  BY <1>1, <1>2, <1>3, <1>4, <1>5, InCallIInv

LEMMA StoreIInv ==
  ASSUME IInv, NEW p \in Proc, Store(p)
  PROVE  IInv'
<1> DEFINE g == file[Mine(p)]
           v == (proc[p].read + 1) % ItemValues
           f == [g EXCEPT !.value = v, !.unfinished = g.unfinished \ {p}]
           r == Read(p, "unlock", 0)
<1>1. /\ proc[p].pc \in {"store", "nested"} /\ proc[p].pc \in CallPc /\ "unlock" \in CallPc
      /\ name' = name /\ broken' = broken
  BY DEF Store, CallPc
<1>2. /\ g \in FileType /\ file \in [File -> FileType] /\ proc \in [Proc -> ProcType]
      /\ Mine(p) \in File /\ proc[p] \in ProcType /\ broken \subseteq Rule
      /\ ~Idle(p) /\ "unlock" \in Pc \ {"idle"} /\ Types
  BY <1>1, CallFacts DEF IInv, Types
<1>3. file' = [file EXCEPT ![Mine(p)] = f] /\ proc' = [proc EXCEPT ![p] = r]
  BY <1>2 DEF Store, Read
<1>4. f \in FileType
  <2>1. proc[p].read \in Nat
    BY <1>2, SMT DEF ProcType
  <2>2. v \in 0 .. ItemValues - 1
    BY <2>1, MapFileAssumption, SMT
  <2>3. g.unfinished \ {p} \in SUBSET (Proc \cup {DEAD})
    BY <1>2 DEF FileType
  <2> HIDE DEF v
  <2> QED  BY <1>2, <2>2, <2>3, Zenon DEF FileType
<1>5. f.writer = g.writer /\ f.readers = g.readers
  BY <1>2, SMT DEF FileType
<1>6. /\ r \in ProcType /\ r.pc = "unlock" /\ r.file = Mine(p) /\ r.place = proc[p].place
  BY <1>2, ReadTyped
<1> HIDE DEF f, r
<1>7. OneOwner(g) /\ LockedBy(proc[p], g, p) =>
        OneOwner(f) /\ LockedBy(r, f, p) /\ \A q \in Proc \ {p} : ~Has(g, q)
  BY <1>1, <1>5, <1>6, MapFileAssumption DEF OneOwner, LockedBy, Has
<1> QED  BY <1>1, <1>2, <1>3, <1>4, <1>5, <1>6, <1>7, InCallIInv

LEMMA ReadLockIInv ==
  ASSUME IInv, NEW p \in Proc, ReadLock(p)
  PROVE  IInv'
<1> DEFINE g == file[Mine(p)]
           f == [g EXCEPT !.readers = g.readers \cup {p}]
<1>1. /\ proc[p].pc = "rlock" /\ proc[p].pc \in CallPc /\ "visit" \in CallPc
      /\ name' = name /\ broken' = broken /\ proc' = [proc EXCEPT ![p] = Goes(p, "visit")]
      /\ g.writer = NULL
  BY DEF ReadLock, Within, At, CallPc, Goes
<1>2. /\ Goes(p, "visit") \in ProcType /\ Goes(p, "visit").pc = "visit"
      /\ Goes(p, "visit").file = Mine(p)
      /\ Goes(p, "visit").place = proc[p].place /\ broken \subseteq Rule
      /\ g \in FileType /\ file \in [File -> FileType] /\ Mine(p) \in File
  BY <1>1, CallFacts
<1>3. file' = [file EXCEPT ![Mine(p)] = f]
  BY <1>2 DEF ReadLock
<1>4. /\ f \in FileType /\ f.writer = NULL /\ f.readers = g.readers \cup {p} /\ f.value = g.value
  BY <1>1, <1>2, SMT DEF FileType
<1> HIDE DEF f
<1>5. OneOwner(f) /\ LockedBy(Goes(p, "visit"), f, p)
  BY <1>2, <1>4 DEF OneOwner, LockedBy
<1> QED  BY <1>1, <1>2, <1>3, <1>4, <1>5, InCallIInv

LEMMA VisitIInv ==
  ASSUME IInv, NEW p \in Proc, VisitItem(p) \/ VisitEnds(p) \/ NestInVisit(p)
  PROVE  IInv'
<1> DEFINE g == file[Mine(p)]
<1>1. /\ proc[p].pc \in {"visit", "see"} /\ proc[p].pc \in CallPc
      /\ name' = name /\ file' = file
      /\ broken \subseteq broken' /\ broken' \subseteq broken \cup Rule
  BY DEF VisitItem, VisitEnds, NestInVisit, At, CallPc, Breaks, Rule
<1>2. /\ g \in FileType /\ Mine(p) \in File /\ ~Idle(p) /\ broken \subseteq Rule /\ Types
      /\ {"see", "unlock", "itself"} \subseteq Pc \ {"idle"} /\ g.value \in Nat
  BY <1>1, CallFacts DEF IInv, FileType, Pc, Calm, CallPc
<1>3. CASE VisitItem(p)
  <2> DEFINE r == Read(p, "see", g.value)
  <2>1. proc' = [proc EXCEPT ![p] = r] /\ proc[p].pc = "visit"
    BY <1>3 DEF VisitItem, Read, At
  <2>2. /\ r \in ProcType /\ r.pc = "see" /\ r.read = g.value
        /\ r.file = Mine(p) /\ r.place = proc[p].place
    BY <1>2, ReadTyped
  <2> HIDE DEF r
  <2>3. LockedBy(proc[p], g, p) => LockedBy(r, g, p)
    BY <2>1, <2>2 DEF LockedBy
  <2> QED  BY <1>1, <1>2, <2>1, <2>2, <2>3, PlainCallIInv DEF CallPc
<1>4. CASE VisitEnds(p) \/ NestInVisit(p)
  <2>1. PICK pc \in {"unlock", "itself"} : proc' = [proc EXCEPT ![p] = Read(p, pc, 0)]
    BY <1>4 DEF VisitEnds, NestInVisit, Read
  <2>2. proc[p].pc = "see"
    BY <1>4 DEF VisitEnds, NestInVisit, At
  <2> DEFINE r == Read(p, pc, 0)
  <2>3. /\ r \in ProcType /\ r.pc = pc /\ r.file = Mine(p) /\ r.place = proc[p].place
    BY <1>2, ReadTyped
  <2>4. proc' = [proc EXCEPT ![p] = r]
    BY <2>1
  <2> HIDE DEF r
  <2>5. LockedBy(proc[p], g, p) => LockedBy(r, g, p)
    BY <2>2, <2>3 DEF LockedBy, Has
  <2> QED  BY <1>1, <1>2, <2>3, <2>4, <2>5, PlainCallIInv DEF CallPc
<1> QED  BY <1>3, <1>4

LEMMA UnlockIInv ==
  ASSUME IInv, NEW p \in Proc, Unlock(p) \/ UnlockForeign(p)
  PROVE  IInv'
<1> DEFINE g == file[Mine(p)]
           r == Goes(p, "ready")
<1>1. /\ proc[p].pc = "unlock" /\ proc[p].pc \in CallPc
      /\ name' = name /\ broken' = broken /\ proc' = [proc EXCEPT ![p] = r]
  BY DEF Unlock, UnlockForeign, Within, At, CallPc, Goes
<1>2. /\ r \in ProcType /\ r.pc = "ready" /\ r.file = Mine(p)
      /\ r.place = proc[p].place /\ broken \subseteq Rule
      /\ g \in FileType /\ file \in [File -> FileType] /\ Mine(p) \in File
  BY <1>1, CallFacts
<1> HIDE DEF r
<1>3. \A f : LockedBy(r, f, p)
  BY <1>2 DEF LockedBy
<1>4. CASE Unlock(p)
  <2>1. CASE g.writer = p
    <3> DEFINE f == [g EXCEPT !.writer = NULL]
    <3>1. file' = [file EXCEPT ![Mine(p)] = f]
      BY <1>2, <1>4, <2>1 DEF Unlock
    <3>2. f \in FileType /\ f.writer = NULL /\ f.readers = g.readers /\ f.value = g.value
      BY <1>2, SMT DEF FileType
    <3> HIDE DEF f
    <3>3. OneOwner(f)
      BY <3>2 DEF OneOwner
    <3> QED  BY <1>1, <1>2, <1>3, <2>1, <3>1, <3>2, <3>3, InCallIInv
  <2>2. CASE g.writer # p
    <3> DEFINE f == [g EXCEPT !.readers = g.readers \ {p}]
    <3>1. file' = [file EXCEPT ![Mine(p)] = f]
      BY <1>2, <1>4, <2>2 DEF Unlock
    <3>2. f \in FileType /\ f.writer = g.writer /\ f.readers = g.readers \ {p} /\ f.value = g.value
      BY <1>2, SMT DEF FileType
    <3> HIDE DEF f
    <3>3. OneOwner(g) => OneOwner(f)
      BY <3>2 DEF OneOwner
    <3> QED  BY <1>1, <1>2, <1>3, <3>1, <3>2, <3>3, InCallIInv
  <2> QED  BY <2>1, <2>2
<1>5. CASE UnlockForeign(p)
  <2>1. PICK w \in {NULL, DEAD, g.writer}, s \in {{}, g.readers} :
          file' = [file EXCEPT ![Mine(p)].writer = w, ![Mine(p)].readers = s]
    BY <1>5 DEF UnlockForeign
  <2> DEFINE f == [g EXCEPT !.writer = w, !.readers = s]
  <2>2. file' = [file EXCEPT ![Mine(p)] = f]
    BY <1>2, <2>1
  <2>3. w \in Proc \cup {NULL, DEAD} /\ s \in SUBSET (Proc \cup {DEAD})
    BY <1>2 DEF FileType
  <2>4. f \in FileType
    BY <1>2, <2>3, Zenon DEF FileType
  <2>5. ~LockedBy(proc[p], g, p)
    BY <1>1, <1>5 DEF LockedBy, UnlockForeign, Holds, Has
  <2> HIDE DEF f
  <2> QED  BY <1>1, <1>2, <2>2, <2>4, <2>5, InCallIInv
<1> QED  BY <1>4, <1>5

LEMMA NextIInv ==
  ASSUME IInv, [Next]_vars
  PROVE  IInv'
<1>1. CASE UNCHANGED vars
  BY <1>1 DEF vars, IInv, Types, Alone, Locked, QuietFlat, Kept, Mine
<1>2. ASSUME NEW p \in Proc, Lifecycle(p)
      PROVE  IInv'
  BY <1>2, LifecycleIInv
<1>3. ASSUME NEW p \in Proc, NEW lock \in {"wlock", "rlock"}, Call(p, lock)
      PROVE  IInv'
  BY <1>3, CallIInv
<1>4. ASSUME NEW p \in Proc, CallStep(p) \/ Nest(p) \/ NestInVisit(p)
      PROVE  IInv'
  BY <1>4, WriteLockIInv, FindIInv, MissIInv, StoreIInv, ReadLockIInv, VisitIInv, UnlockIInv, NestIInv
  DEF CallStep
<1> QED  BY <1>1, <1>2, <1>3, <1>4 DEF Next

LEMMA Invariance == Spec => []IInv
  BY InitIInv, NextIInv, PTL DEF Spec

-----------------------------------------------------------------------------
(* Part 5: the theorems.                                                   *)

(* Every variable keeps its type, in every file and every process.         *)
THEOREM TypeCorrectness == Spec => []TypeOK
<1>1. IInv => TypeOK
  <2> SUFFICES ASSUME IInv PROVE TypeOK
    OBVIOUS
  <2>1. /\ name \in File \cup {NULL} /\ file \in [File -> FileType] /\ broken \subseteq Rule
        /\ \A p \in Proc : proc[p] \in ProcType /\ Placed(proc[p])
    BY DEF IInv, Types
  <2>2. ASSUME NEW p \in Proc
        PROVE  /\ Idle(p) \/ HasOpen(p) \/ proc[p].pc \in Opening
               /\ Idle(p) <=> Mine(p) = NULL
               /\ HasOpen(p) => InCall(p) \/ At(p, "ready")
    <3>1. proc[p].pc \in Pc /\ Placed(proc[p]) /\ NULL \notin File
      BY <2>1, MapFileAssumption DEF ProcType, File
    <3>2. Idle(p) <=> Mine(p) = NULL
      BY <3>1 DEF Placed, Idle, At, Mine
    <3>3. HasOpen(p) => InCall(p) \/ At(p, "ready")
      BY <3>1 DEF Pc, Calm, CallPc, HasOpen, InCall, Inside, Waiting, At
    <3> QED  BY <3>2, <3>3 DEF HasOpen, Idle, At
  <2> QED  BY <2>1, <2>2 DEF TypeOK, FileType
<1> QED  BY <1>1, Invariance, PTL

(* What a call or a visitor has read stays true until it is done with it,  *)
(* whoever else calls, dies, closes or forks, and whatever files there     *)
(* are, if opens are kept apart from calls and callbacks do not call the   *)
(* cache.  The run SharingExclusive shows that the first is needed.        *)
THEOREM ReadsTrue == Spec => []ReadsStayTrue
<1>1. IInv => ReadsStayTrue
  BY DEF IInv, Locked, LockedBy, QuietFlat, ReadsStayTrue
<1> QED  BY <1>1, Invariance, PTL

(* Under these rules a call that changes the cache has it to itself.       *)
THEOREM LockExcludes == Spec => [](Kept({"quiet", "flat"}) => Exclusive)
<1>1. IInv /\ Kept({"quiet", "flat"}) => Exclusive
  <2> SUFFICES ASSUME IInv, Kept({"quiet", "flat"}),
                      NEW p \in Proc, NEW q \in Proc, p # q, Mine(p) = Mine(q),
                      proc[p].pc \in {"find", "store"}
               PROVE  proc[q].pc \notin {"find", "store", "visit", "see"}
    BY DEF Exclusive
  <2>1. LockedBy(proc[p], file[Mine(p)], p) /\ LockedBy(proc[q], file[Mine(p)], q)
    BY DEF IInv, Locked, QuietFlat
  <2>2. Mine(p) \in File
    BY DEF IInv, Types, Placed, Mine
  <2>3. OneOwner(file[Mine(p)]) /\ p # NULL
    BY <2>2, MapFileAssumption DEF IInv, Locked, QuietFlat
  <2> QED  BY <2>1, <2>3 DEF LockedBy, OneOwner
<1> QED  BY <1>1, Invariance, PTL

-----------------------------------------------------------------------------
(* Part 6: the invariant of the file.                                      *)

(* Where a process stands that opens, and how far it is with its file f: r *)
(* is its record, n the file the path names.                               *)
OpenAt(r, n, f) ==
  /\ IF r.pc = "create" THEN n = NULL ELSE n = r.file
  /\ r.pc = "stat" => r.init = r.config.init
  /\ r.pc = "unlink" => f.size # r.config.size
  /\ r.pc \in {"extend", "clear", "head", "areas"} => r.init
  /\ r.pc \in {"extend", "map", "clear"} /\ r.init /\ ~r.config.init => f.made # "whole"
  /\ r.pc \in {"adopt", "head"} /\ r.init => f.made = "clear" /\ f.bases = {}
  /\ r.pc = "areas" => f.bases = {r.place.base}
  /\ r.pc \in {"head", "areas"} => f.fd = r.place.fd

(* One process opens at a time, and the file it works on has the name.     *)
OpensAlone ==
  Kept({"opens"}) =>
    \A p \in Proc : proc[p].pc \in Opening =>
      /\ \A q \in Proc \ {p} : proc[q].pc \notin Opening
      /\ OpenAt(proc[p], name, file[Mine(p)])

(* An open that leaves the contents alone, as they have the right size.    *)
Joins(r, f) ==
  /\ r.pc \in {"stat", "map", "adopt"} /\ ~r.init
  /\ r.pc = "stat" => f.size = r.config.size

Joining(p) == Joins(proc[p], file[Mine(p)])

(* The cache in use is the one the path names, and who opens joins it.     *)
JoinsInUse ==
  Kept({"opens", "in use"}) =>
    \A p \in Proc : HasOpen(p) =>
      /\ Mine(p) = name
      /\ \A q \in Proc : proc[q].pc \in Opening => Joining(q)

(* The pointers are right for who has the cache and who is about to.       *)
Reaches ==
  Kept({"opens", "in use", "place"}) =>
    \A p \in Proc :
      HasOpen(p) \/ (At(p, "adopt") /\ ~proc[p].init) =>
        file[Mine(p)].bases = {proc[p].place.base}

(* The number in the file is that of all who have it; nobody joins them.   *)
SameNumber ==
  Kept({"forks", "opens"}) =>
    \A p \in Proc : HasOpen(p) =>
      /\ file[Mine(p)].fd = proc[p].place.fd
      /\ \A q \in Proc : proc[q].pc \notin Opening

(* Who has the cache, or joins it, has one that is laid out to the end.    *)
LaidOut ==
  Kept({"opens", "in use", "whole"}) =>
    \A p \in Proc : HasOpen(p) \/ Joining(p) => file[Mine(p)].made = "whole"

(* A call counted at its beginning only is that of the process which has   *)
(* the lock, or had it when it died; who initializes the lock finds none.  *)
CountedUnderLock ==
  Kept({"opens", "whole", "quiet", "flat"}) =>
    /\ \A i \in File : \A x \in file[i].unfinished :
         file[i].writer = x /\ (x \in Proc => Mine(x) = i /\ At(x, "store"))
    /\ \A p \in Proc : Joining(p) \/ At(p, "adopt") => file[Mine(p)].unfinished = {}

Contents == OpensAlone /\ JoinsInUse /\ Reaches /\ SameNumber /\ LaidOut

FInv == IInv /\ Contents /\ CountedUnderLock

(* Rules that are kept now have been kept before.                          *)
LEMMA KeptRules ==
  ASSUME broken \subseteq broken'
  PROVE  /\ Kept({"opens"})' => Kept({"opens"})
         /\ Kept({"opens", "in use"})' => Kept({"opens", "in use"}) /\ Kept({"opens"})
         /\ Kept({"opens", "in use", "place"})' =>
              Kept({"opens", "in use", "place"}) /\ Kept({"opens", "in use"}) /\ Kept({"opens"})
         /\ Kept({"forks", "opens"})' => Kept({"forks", "opens"}) /\ Kept({"opens"})
         /\ Kept({"opens", "in use", "whole"})' =>
              Kept({"opens", "in use", "whole"}) /\ Kept({"opens", "in use"}) /\ Kept({"opens"})
         /\ Kept({"opens", "whole", "quiet", "flat"})' =>
              Kept({"opens", "whole", "quiet", "flat"}) /\ Kept({"opens"}) /\ QuietFlat
  BY DEF Kept, QuietFlat

LEMMA InitFInv == Init => FInv
<1> SUFFICES ASSUME Init PROVE FInv
  OBVIOUS
<1>1. /\ file = [i \in File |-> Empty] /\ \A i \in File : file[i].unfinished = {}
      /\ \A p \in Proc : proc[p].pc = "idle"
  BY DEF Init, Empty, Outside, State
<1>2. Contents
  BY <1>1 DEF Contents, OpensAlone, JoinsInUse, Reaches, SameNumber, LaidOut, HasOpen, Joining,
              Joins, Opening, At
<1>3. CountedUnderLock
  BY <1>1 DEF CountedUnderLock, Joining, Joins, At
<1> QED  BY <1>2, <1>3, InitIInv DEF FInv

-----------------------------------------------------------------------------
(* Part 7: who has the cache goes on with it, and others come and go.      *)

(* Nothing that only opens write changes in a file in use.                 *)
SameContents(f, g) == g.size = f.size /\ g.made = f.made /\ g.bases = f.bases /\ g.fd = f.fd

LEMMA UserContents ==
  ASSUME Contents, name' = name, broken \subseteq broken',
         \A q \in Proc : proc'[q].pc # "idle" =>
           SameContents(file[proc'[q].file], file'[proc'[q].file]),
         \A q \in Proc : \/ proc'[q] = proc[q]
                         \/ proc'[q].pc = "idle"
                         \/ /\ proc'[q].pc \notin Opening \cup {"idle"}
                            /\ \E o \in Proc : /\ HasOpen(o)
                                              /\ proc'[q].file = proc[o].file
                                              /\ proc'[q].place = proc[o].place
  PROVE  Contents'
<1>1. ASSUME NEW q \in Proc, proc'[q].pc \in Opening
      PROVE  proc'[q] = proc[q] /\ SameContents(file[Mine(q)], file'[Mine(q)])
  <2>1. proc'[q].pc # "idle"
    BY <1>1 DEF Opening
  <2> QED  BY <1>1, <2>1 DEF Mine
<1>2. ASSUME NEW q \in Proc, HasOpen(q)'
      PROVE  /\ SameContents(file[Mine(q)'], file'[Mine(q)'])
             /\ \E o \in Proc : HasOpen(o) /\ Mine(q)' = Mine(o) /\ proc'[q].place = proc[o].place
  BY <1>2 DEF HasOpen, Mine
<1>3. OpensAlone'
  <2> SUFFICES ASSUME Kept({"opens"})', NEW p \in Proc, proc'[p].pc \in Opening
               PROVE  /\ \A q \in Proc \ {p} : proc'[q].pc \notin Opening
                      /\ OpenAt(proc'[p], name', file'[Mine(p)'])
    BY DEF OpensAlone
  <2>1. /\ \A q \in Proc \ {p} : proc[q].pc \notin Opening
        /\ OpenAt(proc[p], name, file[Mine(p)]) /\ proc'[p] = proc[p] /\ Mine(p)' = Mine(p)
        /\ SameContents(file[Mine(p)], file'[Mine(p)])
    BY <1>1, KeptRules DEF Contents, OpensAlone, Mine
  <2>2. \A q \in Proc \ {p} : proc'[q].pc \notin Opening
    BY <1>1, <2>1
  <2> QED  BY <2>1, <2>2 DEF OpenAt, SameContents
<1>4. ASSUME NEW p \in Proc, proc'[p].pc \in Opening
      PROVE  /\ Joining(p)' => Joining(p)
             /\ Joining(p) => Joining(p)'
             /\ Mine(p)' = Mine(p) /\ SameContents(file[Mine(p)], file'[Mine(p)])
  BY <1>1, <1>4 DEF Joining, Joins, SameContents, Mine
<1>5. ASSUME Kept({"opens", "in use"})', NEW p \in Proc, HasOpen(p)'
      PROVE  /\ Mine(p)' = name'
             /\ \A q \in Proc : proc'[q].pc \in Opening => Joining(q)'
  <2>1. PICK o \in Proc : HasOpen(o) /\ Mine(p)' = Mine(o)
    BY <1>2, <1>5
  <2>2. Mine(o) = name /\ \A q \in Proc : proc[q].pc \in Opening => Joining(q)
    BY <1>5, <2>1, KeptRules DEF Contents, JoinsInUse
  <2>3. \A q \in Proc : proc'[q].pc \in Opening => proc[q].pc \in Opening
    BY <1>1
  <2> QED  BY <1>4, <2>1, <2>2, <2>3
<1>6. ASSUME Kept({"opens", "in use", "place"})', NEW p \in Proc,
             HasOpen(p)' \/ (At(p, "adopt") /\ ~proc[p].init)'
      PROVE  file'[Mine(p)'].bases = {proc'[p].place.base}
  <2>1. CASE HasOpen(p)'
    <3>1. PICK o \in Proc : HasOpen(o) /\ Mine(p)' = Mine(o) /\ proc'[p].place = proc[o].place
      BY <1>2, <2>1
    <3>2. file[Mine(o)].bases = {proc[o].place.base}
      BY <1>6, <3>1, KeptRules DEF Contents, Reaches
    <3> QED  BY <1>2, <2>1, <3>1, <3>2 DEF SameContents
  <2>2. CASE (At(p, "adopt") /\ ~proc[p].init)'
    <3>1. proc'[p] = proc[p] /\ Mine(p)' = Mine(p) /\ SameContents(file[Mine(p)], file'[Mine(p)])
      BY <1>1, <2>2 DEF At, Opening, Mine
    <3>2. file[Mine(p)].bases = {proc[p].place.base}
      BY <1>6, <2>2, <3>1, KeptRules DEF Contents, Reaches, At
    <3> QED  BY <3>1, <3>2 DEF SameContents
  <2> QED  BY <1>6, <2>1, <2>2
<1>7. ASSUME Kept({"forks", "opens"})', NEW p \in Proc, HasOpen(p)'
      PROVE  /\ file'[Mine(p)'].fd = proc'[p].place.fd
             /\ \A q \in Proc : proc'[q].pc \notin Opening
  <2>1. PICK o \in Proc : HasOpen(o) /\ Mine(p)' = Mine(o) /\ proc'[p].place = proc[o].place
    BY <1>2, <1>7
  <2>2. file[Mine(o)].fd = proc[o].place.fd /\ \A q \in Proc : proc[q].pc \notin Opening
    BY <1>7, <2>1, KeptRules DEF Contents, SameNumber
  <2> QED  BY <1>1, <1>2, <1>7, <2>1, <2>2 DEF SameContents
<1>8. ASSUME Kept({"opens", "in use", "whole"})', NEW p \in Proc, HasOpen(p)' \/ Joining(p)'
      PROVE  file'[Mine(p)'].made = "whole"
  <2>1. CASE HasOpen(p)'
    <3>1. PICK o \in Proc : HasOpen(o) /\ Mine(p)' = Mine(o)
      BY <1>2, <2>1
    <3>2. file[Mine(o)].made = "whole"
      BY <1>8, <3>1, KeptRules DEF Contents, LaidOut
    <3> QED  BY <1>2, <2>1, <3>1, <3>2 DEF SameContents
  <2>2. CASE Joining(p)'
    <3>1. proc'[p].pc \in Opening
      BY <2>2 DEF Joining, Joins, Opening
    <3>2. Joining(p) /\ Mine(p)' = Mine(p) /\ SameContents(file[Mine(p)], file'[Mine(p)])
      BY <1>4, <2>2, <3>1
    <3>3. file[Mine(p)].made = "whole"
      BY <1>8, <3>2, KeptRules DEF Contents, LaidOut
    <3> QED  BY <3>2, <3>3 DEF SameContents
  <2> QED  BY <1>8, <2>1, <2>2
<1>9. JoinsInUse' /\ Reaches' /\ SameNumber' /\ LaidOut'
  BY <1>5, <1>6, <1>7, <1>8 DEF JoinsInUse, Reaches, SameNumber, LaidOut
<1> QED  BY <1>3, <1>9 DEF Contents
-----------------------------------------------------------------------------
(* Part 8: a process that opens.                                           *)

(* It goes on with the record r, and leaves its file, which was g, as h.   *)
Proceeds(p, r, g, h) ==
  /\ r.pc \in Opening => OpenAt(r, name', h)
  /\ r.pc = "ready" => r.file = name' /\ h.fd = r.place.fd
  /\ Joins(proc[p], g) =>
       /\ name' = name /\ r.file = name /\ h.made = g.made /\ h.bases = g.bases
       /\ r.pc # "idle" /\ (r.pc \in Opening => Joins(r, h))
  /\ r.pc = "ready" \/ Joins(r, h) => h.made = "whole" \/ Joins(proc[p], g)
  /\ /\ Kept({"opens", "in use", "place"})'
     /\ r.pc = "ready" \/ (r.pc = "adopt" /\ ~r.init)
     => \/ h.bases = {r.place.base}
        \/ /\ At(p, "adopt") /\ ~proc[p].init
           /\ h.bases = g.bases /\ r.place = proc[p].place
  /\ \/ h.unfinished = {}
     \/ h.unfinished = g.unfinished /\ (h.writer = g.writer \/ At(p, "adopt"))
  /\ Joins(r, h) \/ r.pc = "adopt" =>
       \/ h.unfinished = {}
       \/ h.unfinished = g.unfinished /\ Joins(proc[p], g)

LEMMA OpenerContents ==
  ASSUME Contents, NEW p \in Proc, proc[p].pc \in Opening, NEW r, NEW g, NEW h,
         g = file[Mine(p)],
         \A q \in Proc : proc'[q] = IF q = p THEN r ELSE proc[q],
         r.pc # "idle" => file'[r.file] = h,
         r.pc \in Opening \cup {"ready", "idle"},
         broken \subseteq broken',
         OpenAt(proc[p], name, g) => Proceeds(p, r, g, h)
  PROVE  Contents'
<1>1. ASSUME Kept({"opens"})
      PROVE  /\ \A q \in Proc \ {p} : proc[q].pc \notin Opening
             /\ OpenAt(proc[p], name, g)
  BY <1>1 DEF Contents, OpensAlone
<1>2. ASSUME Kept({"opens", "in use"}), Kept({"opens"}),
             NEW q \in Proc \ {p}, HasOpen(q)
      PROVE  /\ Mine(q) = name /\ Joins(proc[p], g) /\ name' = name /\ r.file = name
             /\ file'[name] = h /\ h.made = g.made /\ h.bases = g.bases /\ g = file[name]
             /\ r.pc \in Opening => Joins(r, h)
  <2>1. Mine(q) = name /\ Joins(proc[p], g)
    BY <1>2 DEF Contents, JoinsInUse, Joining
  <2>2. name = Mine(p)
    BY <1>1, <1>2, <2>1 DEF OpenAt, Joins, Mine
  <2> QED  BY <1>1, <1>2, <2>1, <2>2 DEF Proceeds
<1>3. ASSUME NEW q \in Proc, q # p
      PROVE  /\ HasOpen(q)' => HasOpen(q)
             /\ proc'[q].pc = proc[q].pc /\ Mine(q)' = Mine(q) /\ proc'[q].place = proc[q].place
  BY <1>3 DEF HasOpen, Mine
<1>4. /\ proc'[p] = r /\ Mine(p)' = r.file
      /\ HasOpen(p)' => r.pc = "ready"
  BY DEF HasOpen, Mine
<1>5. OpensAlone'
  <2> SUFFICES ASSUME Kept({"opens"})', NEW q \in Proc, proc'[q].pc \in Opening
               PROVE  /\ \A o \in Proc \ {q} : proc'[o].pc \notin Opening
                      /\ OpenAt(proc'[q], name', file'[Mine(q)'])
    BY DEF OpensAlone
  <2>1. Kept({"opens"})
    BY KeptRules
  <2>2. q = p
    BY <1>1, <1>3, <2>1
  <2>3. \A o \in Proc \ {q} : proc'[o].pc \notin Opening
    BY <1>1, <1>3, <2>1, <2>2
  <2>4. r.pc # "idle"
    BY <1>4, <2>2 DEF Opening
  <2> QED  BY <1>1, <1>4, <2>1, <2>2, <2>3, <2>4 DEF Proceeds
<1>6. ASSUME Kept({"opens", "in use"})', NEW q \in Proc, HasOpen(q)'
      PROVE  /\ Mine(q)' = name'
             /\ \A o \in Proc : proc'[o].pc \in Opening => Joining(o)'
  <2>1. Kept({"opens", "in use"}) /\ Kept({"opens"})
    BY <1>6, KeptRules
  <2>2. \A o \in Proc : proc'[o].pc \in Opening => o = p
    BY <1>1, <1>3, <2>1
  <2>3. CASE q = p
    BY <1>1, <1>4, <1>6, <2>1, <2>2, <2>3 DEF Proceeds, Opening
  <2>4. CASE q # p
    <3>1. Mine(q) = name /\ name' = name /\ r.file = name /\ file'[name] = h
          /\ (r.pc \in Opening => Joins(r, h))
      BY <1>2, <1>3, <1>6, <2>1, <2>4
    <3>2. proc'[p].pc \in Opening => Joining(p)'
      BY <1>4, <3>1 DEF Joining
    <3> QED  BY <1>3, <2>2, <2>4, <3>1, <3>2
  <2> QED  BY <2>3, <2>4
<1>7. ASSUME Kept({"opens", "in use", "place"})', NEW q \in Proc,
             HasOpen(q)' \/ (At(q, "adopt") /\ ~proc[q].init)'
      PROVE  file'[Mine(q)'].bases = {proc'[q].place.base}
  <2>1. Kept({"opens", "in use", "place"}) /\ Kept({"opens", "in use"}) /\ Kept({"opens"})
    BY <1>7, KeptRules
  <2>2. CASE q = p
    <3>1. r.pc = "ready" \/ (r.pc = "adopt" /\ ~r.init)
      BY <1>4, <1>7, <2>2 DEF At
    <3>2. At(p, "adopt") /\ ~proc[p].init => g.bases = {proc[p].place.base}
      BY <2>1 DEF Contents, Reaches
    <3> QED  BY <1>1, <1>4, <1>7, <2>1, <2>2, <3>1, <3>2 DEF Proceeds
  <2>3. CASE q # p
    <3>1. HasOpen(q)
      BY <1>1, <1>3, <1>7, <2>1, <2>3 DEF At, Opening
    <3>2. file[Mine(q)].bases = {proc[q].place.base}
      BY <2>1, <3>1 DEF Contents, Reaches
    <3> QED  BY <1>2, <1>3, <2>1, <2>3, <3>1, <3>2
  <2> QED  BY <2>2, <2>3
<1>8. ASSUME Kept({"forks", "opens"})', NEW q \in Proc, HasOpen(q)'
      PROVE  /\ file'[Mine(q)'].fd = proc'[q].place.fd
             /\ \A o \in Proc : proc'[o].pc \notin Opening
  <2>1. Kept({"forks", "opens"}) /\ Kept({"opens"})
    BY <1>8, KeptRules
  <2>2. q = p
    BY <1>3, <1>8, <2>1 DEF Contents, SameNumber
  <2> QED  BY <1>1, <1>3, <1>4, <1>8, <2>1, <2>2 DEF Proceeds, Opening
<1>9. ASSUME Kept({"opens", "in use", "whole"})', NEW q \in Proc, HasOpen(q)' \/ Joining(q)'
      PROVE  file'[Mine(q)'].made = "whole"
  <2>1. Kept({"opens", "in use", "whole"}) /\ Kept({"opens", "in use"}) /\ Kept({"opens"})
    BY <1>9, KeptRules
  <2>2. CASE q = p
    <3>1. r.pc # "idle" /\ file'[r.file] = h
      BY <1>4, <1>9, <2>2 DEF Joining, Joins
    <3>2. r.pc = "ready" \/ Joins(r, h)
      BY <1>4, <1>9, <2>2, <3>1 DEF Joining
    <3>3. Joins(proc[p], g) => g.made = "whole"
      BY <2>1 DEF Contents, LaidOut, Joining
    <3> QED  BY <1>1, <1>4, <2>1, <2>2, <3>1, <3>2, <3>3 DEF Proceeds
  <2>3. CASE q # p
    <3>1. HasOpen(q)
      <4>1. Joining(q)' => proc'[q].pc \in Opening
        BY DEF Joining, Joins, Opening
      <4> QED  BY <1>1, <1>3, <1>9, <2>1, <2>3, <4>1
    <3>2. file[Mine(q)].made = "whole"
      BY <2>1, <3>1 DEF Contents, LaidOut
    <3> QED  BY <1>2, <1>3, <2>1, <2>3, <3>1, <3>2
  <2> QED  BY <2>2, <2>3
<1>10. JoinsInUse' /\ Reaches' /\ SameNumber' /\ LaidOut'
  BY <1>6, <1>7, <1>8, <1>9 DEF JoinsInUse, Reaches, SameNumber, LaidOut
<1> QED  BY <1>5, <1>10 DEF Contents

LEMMA OpenerCounted ==
  ASSUME FInv, NEW p \in Proc, proc[p].pc \in Opening, NEW r, NEW g, NEW h,
         g = file[Mine(p)],
         \A q \in Proc : proc'[q] = IF q = p THEN r ELSE proc[q],
         \A i \in File : \/ file'[i] = Empty \/ file'[i] = file[i]
                         \/ i = Mine(p) /\ file'[i] = h,
         r.pc # "idle" => file'[r.file] = h,
         broken \subseteq broken',
         OpenAt(proc[p], name, g) => Proceeds(p, r, g, h)
  PROVE  CountedUnderLock'
<1> SUFFICES ASSUME Kept({"opens", "whole", "quiet", "flat"})'
             PROVE  /\ \A i \in File : \A x \in file'[i].unfinished :
                         /\ file'[i].writer = x
                         /\ x \in Proc => proc'[x].file = i /\ proc'[x].pc = "store"
                    /\ \A q \in Proc : Joining(q)' \/ At(q, "adopt")' => file'[Mine(q)'].unfinished = {}
  BY DEF CountedUnderLock, Mine, At
<1>1. /\ Kept({"opens", "whole", "quiet", "flat"}) /\ Kept({"opens"})
      /\ CountedUnderLock /\ Contents
  BY KeptRules DEF FInv
<1>2. /\ \A q \in Proc \ {p} : proc[q].pc \notin Opening
      /\ Proceeds(p, r, g, h)
  BY <1>1 DEF Contents, OpensAlone
<1>3. Joins(proc[p], g) \/ At(p, "adopt") => g.unfinished = {}
  BY <1>1 DEF CountedUnderLock, Joining
<1>4. ASSUME NEW i \in File, NEW x \in file'[i].unfinished
      PROVE  /\ file'[i].writer = x
             /\ x \in Proc => proc'[x].file = i /\ proc'[x].pc = "store"
  <2>1. x \in file[i].unfinished /\ file'[i].writer = file[i].writer
    <3>1. Empty.unfinished = {}
      BY DEF Empty
    <3> QED  BY <1>2, <1>3, <1>4, <3>1 DEF Proceeds
  <2>2. file[i].writer = x /\ (x \in Proc => proc[x].file = i /\ proc[x].pc = "store")
    BY <1>1, <2>1 DEF CountedUnderLock, Mine, At
  <2> QED  BY <2>1, <2>2 DEF Opening
<1>5. ASSUME NEW q \in Proc, Joining(q)' \/ At(q, "adopt")'
      PROVE  file'[Mine(q)'].unfinished = {}
  <2>1. q = p
    BY <1>2, <1>5 DEF Joining, Joins, At, Opening
  <2>2. /\ proc'[q] = r /\ r.pc # "idle" /\ file'[Mine(q)'] = h
        /\ Joins(r, h) \/ r.pc = "adopt"
    BY <1>5, <2>1 DEF Joining, Joins, At, Mine
  <2> QED  BY <1>2, <1>3, <2>2 DEF Proceeds
<1> QED  BY <1>4, <1>5

(* What a step of the life of a process leaves.                            *)
LEMMA StepLeaves ==
  ASSUME Types, Types', NEW p \in Proc, NEW r, NEW files, Step(p, r, files)
  PROVE  /\ \A q \in Proc : proc'[q] = IF q = p THEN r ELSE proc[q]
         /\ \A i \in File : file'[i] = files[i] \/ file'[i] = Empty
         /\ \A q \in Proc : proc'[q].pc # "idle" => file'[proc'[q].file] = files[proc'[q].file]
<1>1. \A q \in Proc : proc'[q] = IF q = p THEN r ELSE proc[q]
  BY DEF Step, Types
<1>2. file' = [i \in File |-> IF i = name' \/ \E q \in Proc : proc'[q].file = i
                              THEN files[i] ELSE Empty]
  BY DEF Step, Reclaimed
<1>3. \A q \in Proc : proc'[q].pc # "idle" => proc'[q].file \in File
  BY DEF Types, Placed
<1> QED  BY <1>1, <1>2, <1>3

(* The fields of the records that a process goes on with.                  *)
LEMMA GoesFields ==
  ASSUME Types, NEW p \in Proc, NEW pc
  PROVE  /\ Goes(p, pc).pc = pc /\ Goes(p, pc).file = Mine(p)
         /\ Goes(p, pc).init = proc[p].init /\ Goes(p, pc).config = proc[p].config
         /\ Goes(p, pc).place = proc[p].place
  BY SMT DEF Goes, Types, ProcType, Mine

LEMMA OpenedFields ==
  ASSUME Types, NEW p \in Proc
  PROVE  Opened(p).pc = "ready" /\ Opened(p).file = Mine(p) /\ Opened(p).place = proc[p].place
<1>1. PICK g : g = Goes(p, "ready")
  OBVIOUS
<1>2. /\ g.pc = "ready" /\ g.file = Mine(p) /\ g.place = proc[p].place
      /\ DOMAIN g = DOMAIN proc[p]
  BY <1>1, GoesFields DEF Goes
<1>3. DOMAIN proc[p] = {"pc", "config", "init", "file", "place", "read"}
  BY DEF Types, ProcType
<1>4. Opened(p) = [g EXCEPT !.config = NoConfig, !.init = FALSE]
  BY <1>1 DEF Opened
<1> QED  BY <1>2, <1>3, <1>4

(* What the steps of an open have in common, its beginning apart.          *)
LEMMA OpenerFacts ==
  ASSUME FInv, IInv', NEW p \in Proc, OpenStep(p)
  PROVE  /\ Types /\ Types' /\ Contents
         /\ proc[p].pc \in Opening /\ Mine(p) \in File /\ Mine(p) # NULL
         /\ file \in [File -> FileType] /\ broken \subseteq broken' /\ FInv
<1>1. proc[p].pc \in Opening /\ broken \subseteq broken'
  BY DEF OpenStep, Stat, Unlink, UnlinkFails, Create, Extend, Map, Clear, Adopt, LayHead,
         LayAreas, LayAreasFails, At, Opening, Breaks
<1>2. Mine(p) \in File /\ Mine(p) # NULL
  BY <1>1, MapFileAssumption DEF FInv, IInv, Types, Placed, Opening, Mine, File
<1> QED  BY <1>1, <1>2 DEF FInv, IInv, Types

(* fstat, and the two ways an open fails.                                  *)
LEMMA PlainFInv ==
  ASSUME FInv, IInv', NEW p \in Proc,
         Stat(p) \/ Unlink(p) \/ UnlinkFails(p) \/ Map(p) \/ LayAreasFails(p)
  PROVE  Contents' /\ CountedUnderLock'
<1> DEFINE g == file[Mine(p)]
<1>1. /\ Types /\ Types' /\ Contents /\ proc[p].pc \in Opening /\ Mine(p) \in File
      /\ broken \subseteq broken' /\ Mine(p) # NULL
  BY OpenerFacts DEF OpenStep
<1>2. CASE Stat(p)
  <2>1. PICK pc \in {"unlink", "extend", "map"} :
          /\ Step(p, Goes(p, pc), file) /\ name' = name /\ At(p, "stat")
          /\ pc = "unlink" <=> g.size # proc[p].config.size
          /\ pc = "extend" => proc[p].init
          /\ pc = "map" => ~proc[p].init
    BY <1>2 DEF Stat
  <2> DEFINE r == Goes(p, pc)
  <2>2. /\ r.pc = pc /\ r.file = Mine(p) /\ r.init = proc[p].init
        /\ r.config = proc[p].config /\ r.place = proc[p].place
    BY <1>1, GoesFields
  <2>3. /\ \A q \in Proc : proc'[q] = IF q = p THEN r ELSE proc[q]
        /\ \A i \in File : file'[i] = file[i] \/ file'[i] = Empty
        /\ file'[r.file] = g
    BY <1>1, <2>1, <2>2, StepLeaves
  <2> HIDE DEF r, g
  <2>4. OpenAt(proc[p], name, g) => Proceeds(p, r, g, g)
    BY <1>1, <2>1, <2>2, <2>3 DEF Proceeds, OpenAt, Joins, At, Opening, Mine
  <2> QED  BY <1>1, <2>1, <2>2, <2>3, <2>4, OpenerContents, OpenerCounted DEF g, Opening
<1>3. CASE Map(p)
  <2>1. PICK pc \in {"clear", "adopt"} :
          /\ Step(p, Goes(p, pc), file) /\ name' = name /\ At(p, "map")
          /\ pc = "clear" <=> proc[p].init
    BY <1>3 DEF Map
  <2> DEFINE r == Goes(p, pc)
  <2>2. /\ r.pc = pc /\ r.file = Mine(p) /\ r.init = proc[p].init
        /\ r.config = proc[p].config /\ r.place = proc[p].place
    BY <1>1, GoesFields
  <2>3. /\ \A q \in Proc : proc'[q] = IF q = p THEN r ELSE proc[q]
        /\ \A i \in File : file'[i] = file[i] \/ file'[i] = Empty
        /\ file'[r.file] = g
    BY <1>1, <2>1, <2>2, StepLeaves
  <2>4. Kept({"opens", "in use", "place"})' /\ ~proc[p].init => g.bases = {proc[p].place.base}
    BY <1>3 DEF Map, MapBreaks, Breaks, When, Kept
  <2> HIDE DEF r, g
  <2>5. OpenAt(proc[p], name, g) => Proceeds(p, r, g, g)
    BY <1>1, <2>1, <2>2, <2>3, <2>4 DEF Proceeds, OpenAt, Joins, At, Opening, Mine
  <2> QED  BY <1>1, <2>1, <2>2, <2>3, <2>5, OpenerContents, OpenerCounted DEF g, Opening
<1>4. CASE Unlink(p)
  <2>1. Step(p, Goes(p, "create"), file) /\ name' = NULL /\ At(p, "unlink")
    BY <1>4 DEF Unlink
  <2> DEFINE r == Goes(p, "create")
  <2>2. /\ r.pc = "create" /\ r.file = Mine(p) /\ r.init = proc[p].init
        /\ r.config = proc[p].config /\ r.place = proc[p].place
    BY <1>1, GoesFields
  <2>3. /\ \A q \in Proc : proc'[q] = IF q = p THEN r ELSE proc[q]
        /\ \A i \in File : file'[i] = file[i] \/ file'[i] = Empty
        /\ file'[r.file] = g
    BY <1>1, <2>1, <2>2, StepLeaves
  <2> HIDE DEF r, g
  <2>4. OpenAt(proc[p], name, g) => Proceeds(p, r, g, g)
    BY <1>1, <2>1, <2>2, <2>3 DEF Proceeds, OpenAt, Joins, At, Opening, Mine
  <2> QED  BY <1>1, <2>1, <2>2, <2>3, <2>4, OpenerContents, OpenerCounted DEF g, Opening
<1>5. CASE UnlinkFails(p) \/ LayAreasFails(p)
  <2>1. /\ Step(p, Outside, file) /\ name' = name /\ proc[p].pc \in {"unlink", "areas"}
        /\ Outside.pc = "idle"
    BY <1>5, EmptyTyped DEF UnlinkFails, LayAreasFails, At
  <2>2. /\ \A q \in Proc : proc'[q] = IF q = p THEN Outside ELSE proc[q]
        /\ \A i \in File : file'[i] = file[i] \/ file'[i] = Empty
    BY <1>1, <2>1, StepLeaves
  <2> HIDE DEF g
  <2>3. OpenAt(proc[p], name, g) => Proceeds(p, Outside, g, g)
    BY <1>1, <2>1, <2>2 DEF Proceeds, OpenAt, Joins, Opening
  <2> QED  BY <1>1, <2>1, <2>2, <2>3, OpenerContents, OpenerCounted DEF g, Opening
<1> QED  BY <1>2, <1>3, <1>4, <1>5

LEMMA CreateFInv ==
  ASSUME FInv, IInv', NEW p \in Proc, Create(p)
  PROVE  Contents' /\ CountedUnderLock'
<1> DEFINE i == IF name = NULL THEN Fresh ELSE name
           r == State("extend", proc[p].config, TRUE, i, proc[p].place)
           files == [file EXCEPT ![i] = Empty]
<1>1. /\ Types /\ Types' /\ Contents /\ proc[p].pc \in Opening /\ file \in [File -> FileType]
      /\ broken \subseteq broken'
  BY OpenerFacts DEF OpenStep
<1>2. i \in File
  BY <1>1, FreshIsFile DEF Types
<1>3. /\ r.pc = "extend" /\ r.init = TRUE /\ r.file = i
  BY DEF State
<1>4. name' = i /\ Step(p, r, files) /\ proc[p].pc = "create"
  BY DEF Create, At
<1>5. /\ files[i] = Empty /\ Empty.made = "raw" /\ Empty.unfinished = {}
      /\ \A j \in File \ {i} : files[j] = file[j]
  BY <1>1, <1>2 DEF Empty
<1> HIDE DEF i, r, files
<1>6. /\ \A q \in Proc : proc'[q] = IF q = p THEN r ELSE proc[q]
      /\ \A j \in File : file'[j] = file[j] \/ file'[j] = Empty
      /\ file'[r.file] = Empty
  BY <1>1, <1>2, <1>3, <1>4, <1>5, StepLeaves
<1>7. OpenAt(proc[p], name, file[Mine(p)]) => Proceeds(p, r, file[Mine(p)], Empty)
  BY <1>1, <1>3, <1>4, <1>5, <1>6 DEF Proceeds, OpenAt, Joins, Opening
<1> QED  BY <1>1, <1>3, <1>4, <1>5, <1>6, <1>7, OpenerContents, OpenerCounted DEF Opening

LEMMA LayingFInv ==
  ASSUME FInv, IInv', NEW p \in Proc,
         Extend(p) \/ Clear(p) \/ Adopt(p) \/ LayHead(p) \/ LayAreas(p)
  PROVE  Contents' /\ CountedUnderLock'
<1> DEFINE g == file[Mine(p)]
<1>1. /\ Types /\ Types' /\ Contents /\ proc[p].pc \in Opening /\ Mine(p) \in File
      /\ file \in [File -> FileType] /\ g \in FileType
      /\ broken \subseteq broken' /\ Mine(p) # NULL
  BY OpenerFacts DEF OpenStep
<1>2. CASE Extend(p)
  <2> DEFINE files == [file EXCEPT ![Mine(p)].size = IF @ < proc[p].config.size
                                                     THEN proc[p].config.size ELSE @]
             r == Goes(p, "map")
             h == files[Mine(p)]
  <2>1. Step(p, r, files) /\ name' = name /\ At(p, "extend")
    BY <1>2 DEF Extend
  <2>2. /\ h.made = g.made /\ h.bases = g.bases
        /\ h.unfinished = g.unfinished /\ h.writer = g.writer
        /\ \A i \in File \ {Mine(p)} : files[i] = file[i]
    BY <1>1, SMT DEF FileType
  <2>3. /\ r.pc = "map" /\ r.file = Mine(p) /\ r.init = proc[p].init
        /\ r.config = proc[p].config /\ r.place = proc[p].place
    BY <1>1, GoesFields
  <2> HIDE DEF r, files, g
  <2>4. /\ \A q \in Proc : proc'[q] = IF q = p THEN r ELSE proc[q]
        /\ \A i \in File : \/ file'[i] = Empty \/ file'[i] = file[i]
                           \/ i = Mine(p) /\ file'[i] = h
        /\ file'[r.file] = h
    BY <1>1, <2>1, <2>2, <2>3, StepLeaves
  <2> HIDE DEF h
  <2>5. OpenAt(proc[p], name, g) => Proceeds(p, r, g, h)
    BY <1>1, <2>1, <2>2, <2>3, <2>4 DEF Proceeds, OpenAt, Joins, At, Opening, Mine
  <2> QED  BY <1>1, <2>1, <2>2, <2>3, <2>4, <2>5, OpenerContents, OpenerCounted DEF g, Opening
<1>3. CASE Clear(p)
  <2> DEFINE h == [Empty EXCEPT !.made = "clear", !.size = file[Mine(p)].size]
             files == [file EXCEPT ![Mine(p)] = h]
             r == Goes(p, "adopt")
  <2>1. Step(p, r, files) /\ name' = name /\ At(p, "clear")
    BY <1>3 DEF Clear
  <2>2. h.made = "clear" /\ h.bases = {} /\ h.unfinished = {}
    BY DEF Empty
  <2>3. /\ r.pc = "adopt" /\ r.file = Mine(p) /\ r.init = proc[p].init
        /\ r.config = proc[p].config /\ r.place = proc[p].place
    BY <1>1, GoesFields
  <2>4. files[Mine(p)] = h /\ \A i \in File \ {Mine(p)} : files[i] = file[i]
    BY <1>1
  <2> HIDE DEF r, files, g, h
  <2>5. /\ \A q \in Proc : proc'[q] = IF q = p THEN r ELSE proc[q]
        /\ \A i \in File : \/ file'[i] = Empty \/ file'[i] = file[i]
                           \/ i = Mine(p) /\ file'[i] = h
        /\ file'[r.file] = h
    BY <1>1, <2>1, <2>3, <2>4, StepLeaves
  <2>6. OpenAt(proc[p], name, g) => Proceeds(p, r, g, h)
    BY <1>1, <2>1, <2>2, <2>3, <2>5 DEF Proceeds, OpenAt, Joins, At, Opening, Mine
  <2> QED  BY <1>1, <2>1, <2>2, <2>3, <2>5, <2>6, OpenerContents, OpenerCounted DEF g, Opening
<1>4. CASE Adopt(p)
  <2> DEFINE files == [file EXCEPT ![Mine(p)].fd = proc[p].place.fd,
                       ![Mine(p)].writer = NULL, ![Mine(p)].readers = {}]
             h == files[Mine(p)]
  <2>1. PICK r : /\ r = IF proc[p].init THEN Goes(p, "head") ELSE Opened(p)
                 /\ Step(p, r, files) /\ name' = name /\ At(p, "adopt")
    BY <1>4 DEF Adopt
  <2>2. /\ h.made = g.made /\ h.bases = g.bases /\ h.fd = proc[p].place.fd
        /\ h.unfinished = g.unfinished
        /\ \A i \in File \ {Mine(p)} : files[i] = file[i]
    BY <1>1, SMT DEF FileType
  <2>3. /\ r.file = Mine(p) /\ r.place = proc[p].place
        /\ proc[p].init => r.pc = "head" /\ r.init
        /\ ~proc[p].init => r.pc = "ready"
        /\ proc[p].init \in BOOLEAN
    BY <1>1, <2>1, GoesFields, OpenedFields DEF Types, ProcType
  <2> HIDE DEF files, g
  <2>4. /\ \A q \in Proc : proc'[q] = IF q = p THEN r ELSE proc[q]
        /\ \A i \in File : \/ file'[i] = Empty \/ file'[i] = file[i]
                           \/ i = Mine(p) /\ file'[i] = h
        /\ file'[r.file] = h
    BY <1>1, <2>1, <2>2, <2>3, StepLeaves
  <2> HIDE DEF h
  <2>5. OpenAt(proc[p], name, g) => Proceeds(p, r, g, h)
    BY <1>1, <2>1, <2>2, <2>3, <2>4 DEF Proceeds, OpenAt, Joins, At, Opening, Mine
  <2>6. r.pc \in Opening \cup {"ready", "idle"}
    BY <2>3 DEF Opening
  <2> QED  BY <1>1, <2>4, <2>5, <2>6, OpenerContents, OpenerCounted DEF g
<1>5. CASE LayHead(p)
  <2> DEFINE files == [file EXCEPT ![Mine(p)].made = "head",
                       ![Mine(p)].bases = @ \cup {proc[p].place.base}]
             h == files[Mine(p)]
             r == Goes(p, "areas")
  <2>1. Step(p, r, files) /\ name' = name /\ At(p, "head")
    BY <1>5 DEF LayHead
  <2>2. /\ h.made = "head" /\ h.bases = g.bases \cup {proc[p].place.base} /\ h.fd = g.fd
        /\ h.unfinished = g.unfinished /\ h.writer = g.writer
        /\ \A i \in File \ {Mine(p)} : files[i] = file[i]
    BY <1>1, SMT DEF FileType
  <2>3. /\ r.pc = "areas" /\ r.file = Mine(p) /\ r.init = proc[p].init
        /\ r.config = proc[p].config /\ r.place = proc[p].place
    BY <1>1, GoesFields
  <2> HIDE DEF r, files, g
  <2>4. /\ \A q \in Proc : proc'[q] = IF q = p THEN r ELSE proc[q]
        /\ \A i \in File : \/ file'[i] = Empty \/ file'[i] = file[i]
                           \/ i = Mine(p) /\ file'[i] = h
        /\ file'[r.file] = h
    BY <1>1, <2>1, <2>2, <2>3, StepLeaves
  <2> HIDE DEF h
  <2>5. OpenAt(proc[p], name, g) => Proceeds(p, r, g, h)
    BY <1>1, <2>1, <2>2, <2>3, <2>4 DEF Proceeds, OpenAt, Joins, At, Opening, Mine
  <2> QED  BY <1>1, <2>1, <2>2, <2>3, <2>4, <2>5, OpenerContents, OpenerCounted DEF g, Opening
<1>6. CASE LayAreas(p)
  <2> DEFINE files == [file EXCEPT ![Mine(p)].made = "whole"]
             h == files[Mine(p)]
             r == Opened(p)
  <2>1. Step(p, r, files) /\ name' = name /\ At(p, "areas")
    BY <1>6 DEF LayAreas
  <2>2. /\ h.made = "whole" /\ h.bases = g.bases /\ h.fd = g.fd
        /\ h.unfinished = g.unfinished /\ h.writer = g.writer
        /\ \A i \in File \ {Mine(p)} : files[i] = file[i]
    BY <1>1, SMT DEF FileType
  <2>3. /\ r.pc = "ready" /\ r.file = Mine(p) /\ r.place = proc[p].place
    BY <1>1, OpenedFields
  <2> HIDE DEF r, files, g
  <2>4. /\ \A q \in Proc : proc'[q] = IF q = p THEN r ELSE proc[q]
        /\ \A i \in File : \/ file'[i] = Empty \/ file'[i] = file[i]
                           \/ i = Mine(p) /\ file'[i] = h
        /\ file'[r.file] = h
    BY <1>1, <2>1, <2>2, <2>3, StepLeaves
  <2> HIDE DEF h
  <2>5. OpenAt(proc[p], name, g) => Proceeds(p, r, g, h)
    BY <1>1, <2>1, <2>2, <2>3, <2>4 DEF Proceeds, OpenAt, Joins, At, Opening, Mine
  <2> QED  BY <1>1, <2>1, <2>2, <2>3, <2>4, <2>5, OpenerContents, OpenerCounted DEF g, Opening
<1> QED  BY <1>2, <1>3, <1>4, <1>5, <1>6

(* The beginning of an open, where the rules of use are looked at.         *)
LEMMA OpenPathFInv ==
  ASSUME FInv, IInv', NEW p \in Proc, NEW c \in Config, NEW pl \in Place, OpenPath(p, c, pl)
  PROVE  Contents' /\ CountedUnderLock'
<1> DEFINE i == IF name = NULL THEN Fresh ELSE name
           r == State("stat", c, c.init, i, pl)
<1>1. /\ r.pc = "stat" /\ r.config = c /\ r.init = c.init /\ r.file = i
      /\ name' = i /\ Step(p, r, file) /\ proc[p].pc = "idle"
      /\ Types /\ Types' /\ Contents /\ CountedUnderLock
  BY DEF State, OpenPath, Idle, At, FInv, IInv
<1>2. /\ broken \subseteq broken'
      /\ Kept({"opens"})' => \A q \in Proc \ {p} : proc[q].pc \notin Opening
      /\ Kept({"forks", "opens"})' => \A q \in Proc \ {p} : ~HasOpen(q)
      /\ Kept({"opens", "in use"})' =>
           \A q \in Proc \ {p} : HasOpen(q) => ~c.init /\ name # NULL /\ file[i].size = c.size
      /\ Kept({"opens", "in use", "whole"})' /\ ~c.init /\ file[i].size = c.size => Whole(i)
      /\ Kept({"opens", "whole", "quiet", "flat"})' /\ ~c.init /\ file[i].size = c.size => Whole(i)
  <2>1. /\ broken \subseteq broken'
        /\ When("forks", \E q \in Others(p) : HasOpen(q)) \subseteq broken'
        /\ When("opens", SomeoneOpens(p)) \subseteq broken'
        /\ When("in use", /\ \E q \in Others(p) : HasOpen(q)
                          /\ c.init \/ name = NULL \/ file[i].size # c.size) \subseteq broken'
        /\ When("whole", ~c.init /\ file[i].size = c.size /\ ~Whole(i)) \subseteq broken'
    BY DEF OpenPath, OpenBreaks, Breaks
  <2> HIDE DEF i
  <2> QED  BY <2>1 DEF When, Kept, Others, SomeoneOpens
<1> HIDE DEF r, i
<1>3. /\ \A q \in Proc : proc'[q] = IF q = p THEN r ELSE proc[q]
      /\ \A j \in File : file'[j] = file[j] \/ file'[j] = Empty
      /\ \A q \in Proc : proc'[q].pc # "idle" => file'[proc'[q].file] = file[proc'[q].file]
  BY <1>1, StepLeaves
<1>4. /\ proc'[p] = r /\ Mine(p)' = i /\ file'[i] = file[i] /\ ~HasOpen(p)'
      /\ \A q \in Proc \ {p} :
           /\ proc'[q] = proc[q] /\ Mine(q)' = Mine(q) /\ HasOpen(q)' = HasOpen(q)
           /\ HasOpen(q) \/ proc[q].pc \in Opening => file'[Mine(q)] = file[Mine(q)]
  BY <1>1, <1>3 DEF Mine, HasOpen, Opening
<1>5. OpensAlone'
  <2> SUFFICES ASSUME Kept({"opens"})', NEW q \in Proc, proc'[q].pc \in Opening
               PROVE  /\ \A o \in Proc \ {q} : proc'[o].pc \notin Opening
                      /\ OpenAt(proc'[q], name', file'[Mine(q)'])
    BY DEF OpensAlone
  <2>1. q = p /\ \A o \in Proc \ {p} : proc'[o].pc \notin Opening
    BY <1>2, <1>4
  <2>2. OpenAt(r, i, file[i])
    BY <1>1 DEF OpenAt
  <2> QED  BY <1>1, <1>4, <2>1, <2>2
<1>6. ASSUME Kept({"opens", "in use"})', NEW q \in Proc, HasOpen(q)'
      PROVE  /\ Mine(q)' = name'
             /\ \A o \in Proc : proc'[o].pc \in Opening => Joining(o)'
  <2>1. q # p /\ HasOpen(q) /\ Mine(q)' = Mine(q) /\ Kept({"opens", "in use"}) /\ Kept({"opens"})'
    BY <1>2, <1>4, <1>6, KeptRules DEF Kept
  <2>2. ~c.init /\ name # NULL /\ file[i].size = c.size
    BY <1>2, <1>6, <2>1
  <2>3. Mine(q) = name /\ i = name
    BY <1>1, <2>1, <2>2 DEF Contents, JoinsInUse, i
  <2>4. Joining(p)'
    BY <1>1, <1>4, <2>2 DEF Joining, Joins
  <2>5. \A o \in Proc : proc'[o].pc \in Opening => o = p
    BY <1>2, <1>4, <2>1
  <2> QED  BY <1>1, <2>1, <2>3, <2>4, <2>5
<1>7. Reaches'
  <2> SUFFICES ASSUME Kept({"opens", "in use", "place"})', NEW q \in Proc,
                      HasOpen(q)' \/ (At(q, "adopt") /\ ~proc[q].init)'
               PROVE  file'[Mine(q)'].bases = {proc'[q].place.base}
    BY DEF Reaches
  <2>1. /\ q # p /\ proc'[q] = proc[q] /\ Mine(q)' = Mine(q) /\ file'[Mine(q)] = file[Mine(q)]
        /\ HasOpen(q) \/ (At(q, "adopt") /\ ~proc[q].init)
    BY <1>1, <1>4 DEF At, Opening
  <2>2. file[Mine(q)].bases = {proc[q].place.base}
    BY <1>1, <1>2, <2>1, KeptRules DEF Contents, Reaches
  <2> QED  BY <2>1, <2>2
<1>8. SameNumber'
  <2> SUFFICES ASSUME Kept({"forks", "opens"})', NEW q \in Proc, HasOpen(q)' PROVE FALSE
    BY DEF SameNumber
  <2> QED  BY <1>2, <1>4
<1>9. LaidOut'
  <2> SUFFICES ASSUME Kept({"opens", "in use", "whole"})', NEW q \in Proc, HasOpen(q)' \/ Joining(q)'
               PROVE  file'[Mine(q)'].made = "whole"
    BY DEF LaidOut
  <2>1. CASE q = p
    <3>1. ~c.init /\ file[i].size = c.size
      BY <1>1, <1>4, <2>1 DEF Joining, Joins
    <3> QED  BY <1>2, <1>4, <2>1, <3>1 DEF Whole
  <2>2. CASE q # p
    <3>1. HasOpen(q) /\ Mine(q)' = Mine(q) /\ file'[Mine(q)] = file[Mine(q)]
      <4>1. Joining(q)' => proc[q].pc \in Opening
        BY <1>4, <2>2 DEF Joining, Joins, Opening
      <4>2. Kept({"opens"})'
        BY DEF Kept
      <4> QED  BY <1>2, <1>4, <2>2, <4>1, <4>2
    <3>2. file[Mine(q)].made = "whole"
      BY <1>1, <1>2, <3>1, KeptRules DEF Contents, LaidOut
    <3> QED  BY <3>1, <3>2
  <2> QED  BY <2>1, <2>2
<1>10. CountedUnderLock'
  <2> SUFFICES ASSUME Kept({"opens", "whole", "quiet", "flat"})'
               PROVE  /\ \A j \in File : \A x \in file'[j].unfinished :
                           /\ file'[j].writer = x
                           /\ x \in Proc => proc'[x].file = j /\ proc'[x].pc = "store"
                      /\ \A q \in Proc : Joining(q)' \/ At(q, "adopt")' => file'[Mine(q)'].unfinished = {}
    BY DEF CountedUnderLock, Mine, At
  <2>1. /\ \A j \in File : \A x \in file[j].unfinished :
               /\ file[j].writer = x
               /\ x \in Proc => proc[x].file = j /\ proc[x].pc = "store"
        /\ Kept({"opens"})'
    <3>1. Kept({"opens"})'
      BY DEF Kept
    <3>2. Kept({"opens", "whole", "quiet", "flat"})
      BY <1>2, KeptRules
    <3> QED  BY <1>1, <3>1, <3>2 DEF CountedUnderLock, Mine, At
  <2>2. ASSUME NEW j \in File, NEW x \in file'[j].unfinished
        PROVE  /\ file'[j].writer = x
               /\ x \in Proc => proc'[x].file = j /\ proc'[x].pc = "store"
    <3>1. Empty.unfinished = {}
      BY DEF Empty
    <3>2. file'[j] = file[j] /\ x \in file[j].unfinished
      BY <1>3, <2>2, <3>1
    <3>3. file[j].writer = x /\ (x \in Proc => proc[x].file = j /\ proc[x].pc = "store")
      BY <2>1, <3>2
    <3> QED  BY <1>1, <1>3, <3>2, <3>3
  <2>3. ASSUME NEW q \in Proc, Joining(q)' \/ At(q, "adopt")'
        PROVE  file'[Mine(q)'].unfinished = {}
    <3>1. q = p
      <4>1. proc'[q].pc \in Opening
        BY <2>3 DEF Joining, Joins, At, Opening
      <4> QED  BY <1>2, <1>4, <2>1, <4>1
    <3>2. ~c.init /\ file[i].size = c.size
      BY <1>1, <1>4, <2>3, <3>1 DEF Joining, Joins, At
    <3> QED  BY <1>2, <1>4, <3>1, <3>2 DEF Whole
  <2> QED  BY <2>2, <2>3
<1> QED  BY <1>5, <1>6, <1>7, <1>8, <1>9, <1>10 DEF Contents, JoinsInUse

-----------------------------------------------------------------------------
(* Part 9: closes, forks and deaths.                                       *)

(* p changes to r, a process without the cache, or with that of another.   *)
LEMMA ComerFInv ==
  ASSUME FInv, IInv', NEW p \in Proc, NEW r, NEW files, Step(p, r, files),
         name' = name, broken' = broken,
         \/ r.pc = "idle"
         \/ r.pc = "ready" /\ proc[p].pc = "idle" /\ \E o \in Proc : HasOpen(o) /\ r = proc[o],
         \A i \in File : SameContents(file[i], files[i]),
         \A i \in File : \A x \in files[i].unfinished :
           \/ x = DEAD /\ files[i].writer = DEAD
           \/ x # p /\ x \in file[i].unfinished /\ (file[i].writer = x => files[i].writer = x)
           \/ ~(p \in file[i].unfinished => file[i].writer = p /\ proc[p].file = i /\ proc[p].pc = "store"),
         \A i \in File : file[i].unfinished = {} => files[i].unfinished = {}
  PROVE  Contents' /\ CountedUnderLock'
<1>1. /\ Types /\ Types' /\ Contents /\ CountedUnderLock /\ broken \subseteq broken'
  BY DEF FInv, IInv
<1>2. /\ \A q \in Proc : proc'[q] = IF q = p THEN r ELSE proc[q]
      /\ \A i \in File : file'[i] = files[i] \/ file'[i] = Empty
      /\ \A q \in Proc : proc'[q].pc # "idle" => file'[proc'[q].file] = files[proc'[q].file]
      /\ \A q \in Proc : proc'[q].pc # "idle" => proc'[q].file \in File
  BY <1>1, StepLeaves DEF Types, Placed
<1>3. \A q \in Proc : proc'[q].pc # "idle" => SameContents(file[proc'[q].file], file'[proc'[q].file])
  BY <1>2
<1>4. \A q \in Proc : \/ proc'[q] = proc[q]
                      \/ proc'[q].pc = "idle"
                      \/ /\ proc'[q].pc \notin Opening \cup {"idle"}
                         /\ \E o \in Proc : /\ HasOpen(o)
                                           /\ proc'[q].file = proc[o].file
                                           /\ proc'[q].place = proc[o].place
  BY <1>2 DEF Opening
<1>5. Contents'
  BY <1>1, <1>3, <1>4, UserContents
<1>6. CountedUnderLock'
  <2> SUFFICES ASSUME Kept({"opens", "whole", "quiet", "flat"})'
               PROVE  /\ \A i \in File : \A x \in file'[i].unfinished :
                           /\ file'[i].writer = x
                           /\ x \in Proc => proc'[x].file = i /\ proc'[x].pc = "store"
                      /\ \A q \in Proc : Joining(q)' \/ At(q, "adopt")' => file'[Mine(q)'].unfinished = {}
    BY DEF CountedUnderLock, Mine, At
  <2>1. /\ \A i \in File : \A x \in file[i].unfinished :
               /\ file[i].writer = x
               /\ x \in Proc => proc[x].file = i /\ proc[x].pc = "store"
        /\ \A q \in Proc : Joining(q) \/ At(q, "adopt") => file[Mine(q)].unfinished = {}
    <3>1. Kept({"opens", "whole", "quiet", "flat"})
      BY <1>1, KeptRules
    <3> QED  BY <1>1, <3>1 DEF CountedUnderLock, Mine, At
  <2>2. ASSUME NEW i \in File, NEW x \in file'[i].unfinished
        PROVE  /\ file'[i].writer = x
               /\ x \in Proc => proc'[x].file = i /\ proc'[x].pc = "store"
    <3>1. Empty.unfinished = {}
      BY DEF Empty
    <3>2. file'[i] = files[i] /\ x \in files[i].unfinished
      BY <1>2, <2>2, <3>1
    <3>3. p \in file[i].unfinished => file[i].writer = p /\ proc[p].file = i /\ proc[p].pc = "store"
      BY <2>1
    <3>4. CASE x = DEAD /\ files[i].writer = DEAD
      BY <3>2, <3>4, MapFileAssumption
    <3>5. CASE x # p /\ x \in file[i].unfinished /\ (file[i].writer = x => files[i].writer = x)
      BY <1>2, <2>1, <3>2, <3>5
    <3> QED  BY <3>2, <3>3, <3>4, <3>5
  <2>3. ASSUME NEW q \in Proc, Joining(q)' \/ At(q, "adopt")'
        PROVE  file'[Mine(q)'].unfinished = {}
    <3>1. q # p /\ proc'[q] = proc[q]
      BY <1>2, <2>3 DEF Joining, Joins, At
    <3>2. proc'[q].pc # "idle" /\ (At(q, "adopt")' => At(q, "adopt"))
      BY <2>3, <3>1 DEF Joining, Joins, At
    <3>3. Mine(q)' = Mine(q) /\ file'[Mine(q)] = files[Mine(q)] /\ Mine(q) \in File
      BY <1>2, <3>1, <3>2 DEF Mine
    <3>4. Joining(q)' => Joining(q)
      BY <3>1, <3>3 DEF Joining, Joins, SameContents
    <3> QED  BY <2>1, <2>3, <3>2, <3>3, <3>4
  <2> QED  BY <2>2, <2>3
<1> QED  BY <1>5, <1>6

LEMMA CloseFInv ==
  ASSUME FInv, IInv', NEW p \in Proc, Close(p)
  PROVE  Contents' /\ CountedUnderLock'
<1>1. /\ Step(p, Outside, file) /\ name' = name /\ broken' = broken /\ Outside.pc = "idle"
      /\ proc[p].pc # "store"
  BY EmptyTyped DEF Close, At
<1>2. /\ \A i \in File : SameContents(file[i], file[i])
      /\ \A i \in File : \A x \in file[i].unfinished : x # p \/ p \in file[i].unfinished
  BY DEF SameContents
<1> QED  BY <1>1, <1>2, ComerFInv

LEMMA ForkFInv ==
  ASSUME FInv, IInv', NEW p \in Proc, NEW q \in Others(p), Fork(p, q)
  PROVE  Contents' /\ CountedUnderLock'
<1>1. /\ Step(q, proc[p], file) /\ name' = name /\ broken' = broken
      /\ q \in Proc /\ proc[p].pc = "ready" /\ proc[q].pc = "idle" /\ HasOpen(p)
  BY DEF Fork, At, Idle, Others, HasOpen, Opening
<1>2. /\ \A i \in File : SameContents(file[i], file[i])
      /\ \A i \in File : \A x \in file[i].unfinished : x # q \/ q \in file[i].unfinished
  BY DEF SameContents
<1> QED  BY <1>1, <1>2, ComerFInv

(* What else the death of p leaves of a file.                              *)
LEMMA BereftContents ==
  ASSUME NEW p \in Proc, NEW f \in FileType
  PROVE  /\ SameContents(f, Bereft(f, p))
         /\ Bereft(f, p).writer = IF f.writer = p THEN DEAD ELSE f.writer
         /\ Bereft(f, p).unfinished = IF p \in f.unfinished THEN (f.unfinished \ {p}) \cup {DEAD}
                                      ELSE f.unfinished
<1> DEFINE w == IF f.writer = p THEN DEAD ELSE f.writer
           s == IF p \in f.readers THEN (f.readers \ {p}) \cup {DEAD} ELSE f.readers
           u == IF p \in f.unfinished THEN (f.unfinished \ {p}) \cup {DEAD} ELSE f.unfinished
<1>1. Bereft(f, p) = [f EXCEPT !.writer = w, !.readers = s, !.unfinished = u]
  BY DEF Bereft
<1> HIDE DEF w, s, u
<1>2. Bereft(f, p).writer = w /\ Bereft(f, p).unfinished = u /\ SameContents(f, Bereft(f, p))
  BY <1>1, SMT DEF FileType, SameContents
<1> QED  BY <1>2 DEF w, u

LEMMA DieFInv ==
  ASSUME FInv, IInv', NEW p \in Proc, Die(p)
  PROVE  Contents' /\ CountedUnderLock'
<1> DEFINE files == [i \in File |-> Bereft(file[i], p)]
<1>1. /\ Step(p, Outside, files) /\ name' = name /\ broken' = broken /\ Outside.pc = "idle"
  BY EmptyTyped DEF Die, Bereft
<1>2. \A i \in File : file[i] \in FileType /\ files[i] = Bereft(file[i], p)
  BY DEF FInv, IInv, Types
<1> HIDE DEF files
<1>3. \A i \in File : SameContents(file[i], files[i])
  BY <1>2, BereftContents
<1>4. ASSUME NEW i \in File, NEW x \in files[i].unfinished
      PROVE  \/ x = DEAD /\ files[i].writer = DEAD
             \/ x # p /\ x \in file[i].unfinished /\ (file[i].writer = x => files[i].writer = x)
             \/ ~(p \in file[i].unfinished => file[i].writer = p /\ proc[p].file = i /\ proc[p].pc = "store")
  <2>1. /\ files[i].writer = IF file[i].writer = p THEN DEAD ELSE file[i].writer
        /\ files[i].unfinished = IF p \in file[i].unfinished THEN (file[i].unfinished \ {p}) \cup {DEAD}
                                 ELSE file[i].unfinished
    BY <1>2, BereftContents
  <2> QED  BY <1>4, <2>1, MapFileAssumption
<1>5. ASSUME NEW i \in File, file[i].unfinished = {}
      PROVE  files[i].unfinished = {}
  <2>1. file[i] \in FileType /\ p \notin file[i].unfinished
    BY <1>2, <1>5
  <2>2. Bereft(file[i], p).unfinished = IF p \in file[i].unfinished
                                        THEN (file[i].unfinished \ {p}) \cup {DEAD}
                                        ELSE file[i].unfinished
    BY <2>1, BereftContents, Zenon
  <2>3. Bereft(file[i], p).unfinished = {}
    BY <1>5, <2>1, <2>2
  <2> QED  BY <1>2, <2>3
<1> QED  BY <1>1, <1>3, <1>4, <1>5, ComerFInv

-----------------------------------------------------------------------------
(* Part 10: calls.                                                         *)

(* A step of a call of p, which goes to pc and leaves the file g as h.     *)
Calls(p, pc, g, h) ==
  /\ Mine(p) \in File /\ g = file[Mine(p)] /\ h = file'[Mine(p)] /\ g \in FileType
  /\ name' = name /\ broken \subseteq broken'
  /\ pc \in CallPc \cup {"ready"} /\ proc[p].pc \in CallPc \cup {"ready"}
  /\ pc # "ready" \/ proc[p].pc # "ready"
  /\ proc'[p].pc = pc /\ proc'[p].file = Mine(p) /\ proc'[p].place = proc[p].place
  /\ \A q \in Proc \ {p} : proc'[q] = proc[q]
  /\ \A i \in File \ {Mine(p)} : file'[i] = file[i]
  /\ SameContents(g, h)

LEMMA CallContents ==
  ASSUME FInv, IInv', NEW p \in Proc, NEW pc, NEW g, NEW h, Calls(p, pc, g, h)
  PROVE  Contents'
<1>1. Contents /\ name' = name /\ broken \subseteq broken' /\ Types'
  BY DEF FInv, IInv, Calls
<1>2. \A i \in File : SameContents(file[i], file'[i])
  BY DEF Calls, SameContents
<1>3. \A q \in Proc : proc'[q].pc # "idle" => proc'[q].file \in File
  BY <1>1 DEF Types, Placed
<1>4. /\ HasOpen(p) /\ proc'[p].pc \notin Opening \cup {"idle"}
      /\ proc'[p].file = proc[p].file /\ proc'[p].place = proc[p].place
  BY DEF Calls, CallPc, HasOpen, Opening, Mine
<1>5. \A q \in Proc : \/ proc'[q] = proc[q]
                      \/ proc'[q].pc = "idle"
                      \/ /\ proc'[q].pc \notin Opening \cup {"idle"}
                         /\ \E o \in Proc : /\ HasOpen(o)
                                           /\ proc'[q].file = proc[o].file
                                           /\ proc'[q].place = proc[o].place
  BY <1>4 DEF Calls
<1> QED  BY <1>1, <1>2, <1>3, <1>5, UserContents

(* What p counts it counts under the lock.                                 *)
LEMMA CallCounted ==
  ASSUME FInv, IInv', NEW p \in Proc, NEW pc, NEW g, NEW h, Calls(p, pc, g, h),
         /\ QuietFlat' /\ LockedBy(proc[p], g, p)
         /\ \A x \in g.unfinished : g.writer = x /\ (x = p => proc[p].pc = "store")
         => \A x \in h.unfinished :
              h.writer = x /\ (x = p => pc = "store") /\ (x # p => x \in g.unfinished)
  PROVE  CountedUnderLock'
<1> SUFFICES ASSUME Kept({"opens", "whole", "quiet", "flat"})'
             PROVE  /\ \A i \in File : \A x \in file'[i].unfinished :
                         /\ file'[i].writer = x
                         /\ x \in Proc => proc'[x].file = i /\ proc'[x].pc = "store"
                    /\ \A q \in Proc : Joining(q)' \/ At(q, "adopt")' => file'[Mine(q)'].unfinished = {}
  BY DEF CountedUnderLock, Mine, At
<1>1. /\ \A i \in File : \A x \in file[i].unfinished :
             /\ file[i].writer = x
             /\ x \in Proc => proc[x].file = i /\ proc[x].pc = "store"
      /\ LockedBy(proc[p], g, p) /\ QuietFlat'
  <2>1. Kept({"opens", "whole", "quiet", "flat"}) /\ QuietFlat
    BY KeptRules DEF Calls
  <2>2. LockedBy(proc[p], file[Mine(p)], p)
    BY <2>1 DEF FInv, IInv, Locked
  <2>3. QuietFlat'
    BY DEF QuietFlat, Kept
  <2>4. LockedBy(proc[p], g, p)
    BY <2>2 DEF Calls
  <2> QED  BY <2>1, <2>3, <2>4 DEF FInv, CountedUnderLock, Mine, At
<1>2. \A x \in h.unfinished :
        h.writer = x /\ (x = p => pc = "store") /\ (x # p => x \in g.unfinished)
  BY <1>1 DEF Calls
<1>3. ASSUME NEW i \in File, NEW x \in file'[i].unfinished
      PROVE  /\ file'[i].writer = x
             /\ x \in Proc => proc'[x].file = i /\ proc'[x].pc = "store"
  <2>1. CASE i = Mine(p)
    <3>1. x \in h.unfinished /\ h = file'[i] /\ g = file[i] /\ i = proc[p].file
      BY <1>3, <2>1 DEF Calls, Mine
    <3>2. CASE x = p
      <4>1. proc'[x].file = i /\ proc'[x].pc = pc
        BY <2>1, <3>2 DEF Calls
      <4> QED  BY <1>2, <3>1, <3>2, <4>1
    <3>3. CASE x # p
      <4>1. x \in file[i].unfinished
        BY <1>2, <3>1, <3>3
      <4>2. x \in Proc => proc'[x] = proc[x] /\ proc[x].file = i /\ proc[x].pc = "store"
        BY <1>1, <1>3, <3>3, <4>1 DEF Calls
      <4> QED  BY <1>2, <3>1, <4>2
    <3> QED  BY <3>2, <3>3
  <2>2. CASE i # Mine(p)
    <3>1. x # p
      BY <1>1, <1>3, <2>2 DEF Calls, Mine
    <3> QED  BY <1>1, <1>3, <2>2, <3>1 DEF Calls
  <2> QED  BY <2>1, <2>2
<1>4. \A q \in Proc : proc'[q].pc \notin Opening
  <2>1. Kept({"quiet"}) /\ Kept({"quiet"})' /\ Alone /\ Alone'
    BY DEF Kept, FInv, IInv, Calls
  <2>2. proc[p].pc \notin Calm \/ proc'[p].pc \notin Calm
    BY DEF Calls, Calm, CallPc, Opening
  <2>3. proc[p].pc \notin Opening /\ proc'[p].pc \notin Opening
    BY DEF Calls, CallPc, Opening
  <2> QED  BY <2>1, <2>2, <2>3 DEF Alone, Calls
<1>5. \A q \in Proc : ~Joining(q)' /\ ~At(q, "adopt")'
  BY <1>4 DEF Joining, Joins, At, Opening
<1> QED  BY <1>3, <1>5

(* The record of p changes from r in the fields pc and read.               *)
LEMMA CallProc ==
  ASSUME IInv, NEW p \in Proc, proc[p].pc \in CallPc \cup {"ready"}, NEW pc, NEW x,
         \/ proc' = [proc EXCEPT ![p].pc = pc]
         \/ proc' = [proc EXCEPT ![p].pc = pc, ![p].read = x]
  PROVE  /\ proc'[p].pc = pc /\ proc'[p].file = Mine(p) /\ proc'[p].place = proc[p].place
         /\ \A q \in Proc \ {p} : proc'[q] = proc[q]
         /\ Mine(p) \in File /\ file[Mine(p)] \in FileType /\ file \in [File -> FileType]
<1>1. proc[p] \in ProcType /\ proc \in [Proc -> ProcType] /\ file \in [File -> FileType]
  BY DEF IInv, Types
<1>2. Mine(p) \in File
  BY DEF IInv, Types, Placed, Mine, CallPc
<1>3. proc'[p].pc = pc /\ proc'[p].file = Mine(p) /\ proc'[p].place = proc[p].place
  BY <1>1, SMT DEF ProcType, Mine
<1> QED  BY <1>1, <1>2, <1>3

(* The calls that leave the file alone.                                    *)
LEMMA ReadingFInv ==
  ASSUME FInv, IInv', NEW p \in Proc,
         \/ \E lock \in {"wlock", "rlock"} : Call(p, lock)
         \/ Miss(p) \/ VisitItem(p) \/ VisitEnds(p) \/ NestInVisit(p)
  PROVE  Contents' /\ CountedUnderLock'
<1> DEFINE g == file[Mine(p)]
<1>1. PICK pc \in CallPc :
        /\ proc[p].pc \in {"ready", "find", "visit", "see"} /\ file' = file
        /\ name' = name /\ broken \subseteq broken'
        /\ \/ proc' = [proc EXCEPT ![p].pc = pc]
           \/ \E x \in {0, g.value} : proc' = [proc EXCEPT ![p].pc = pc, ![p].read = x]
  BY DEF Call, Miss, Within, VisitItem, VisitEnds, NestInVisit, CallPc, At, Breaks
<1>2. /\ proc'[p].pc = pc /\ proc'[p].file = Mine(p) /\ proc'[p].place = proc[p].place
      /\ \A q \in Proc \ {p} : proc'[q] = proc[q]
      /\ Mine(p) \in File /\ g \in FileType
  <2>1. IInv /\ proc[p].pc \in CallPc \cup {"ready"}
    BY <1>1 DEF FInv, CallPc
  <2>2. CASE proc' = [proc EXCEPT ![p].pc = pc]
    BY <2>1, <2>2, CallProc
  <2>3. ASSUME NEW x, proc' = [proc EXCEPT ![p].pc = pc, ![p].read = x]
        PROVE  /\ proc'[p].pc = pc /\ proc'[p].file = Mine(p) /\ proc'[p].place = proc[p].place
               /\ \A q \in Proc \ {p} : proc'[q] = proc[q]
               /\ Mine(p) \in File /\ g \in FileType
    BY <2>1, <2>3, CallProc
  <2> QED  BY <1>1, <2>2, <2>3
<1>3. Calls(p, pc, g, g)
  BY <1>1, <1>2 DEF Calls, CallPc, SameContents
<1>4. \A x \in g.unfinished : (x = p => proc[p].pc = "store") => x # p
  BY <1>1
<1> HIDE DEF g
<1> QED  BY <1>3, <1>4, CallContents, CallCounted

(* The calls that take the lock, change something and give it back.        *)
LEMMA WritingFInv ==
  ASSUME FInv, IInv', NEW p \in Proc,
         \/ WriteLock(p) \/ Find(p) \/ Store(p) \/ Nest(p) \/ ReadLock(p)
         \/ Unlock(p) \/ UnlockForeign(p)
  PROVE  Contents' /\ CountedUnderLock'
<1> DEFINE g == file[Mine(p)]
<1> DEFINE h == file'[Mine(p)]
<1>1. /\ IInv /\ proc[p].pc \in CallPc /\ name' = name /\ broken \subseteq broken'
      /\ file \in [File -> FileType] /\ Mine(p) \in File /\ g \in FileType
  BY CallProc DEF FInv, IInv, Types, Placed, Mine, WriteLock, Find, Store, Nest, ReadLock, Unlock,
     UnlockForeign, Within, CallPc, At, Breaks
<1>2. g.writer = NULL => \A x \in g.unfinished : g.writer # x
  BY <1>1, MapFileAssumption DEF FileType
<1>3. CASE WriteLock(p)
  <2>1. /\ proc' = [proc EXCEPT ![p].pc = "find"] /\ g.writer = NULL
        /\ file' = [file EXCEPT ![Mine(p)].writer = p]
    BY <1>3 DEF WriteLock, Within
  <2>2. SameContents(g, h) /\ h.unfinished = g.unfinished
    BY <1>1, <2>1, SMT DEF FileType, SameContents
  <2>3. \A i \in File \ {Mine(p)} : file'[i] = file[i]
    BY <1>1, <2>1
  <2>4. Calls(p, "find", g, h)
    BY <1>1, <2>1, <2>2, <2>3, CallProc DEF Calls, CallPc
  <2> QED  BY <1>2, <2>1, <2>2, <2>4, CallContents, CallCounted
<1>4. CASE Find(p)
  <2>1. /\ proc' = [proc EXCEPT ![p].pc = "store", ![p].read = g.value] /\ proc[p].pc = "find"
        /\ file' = [file EXCEPT ![Mine(p)].unfinished = @ \cup {p}]
    BY <1>4 DEF Find, At
  <2>2. SameContents(g, h) /\ h.unfinished = g.unfinished \cup {p} /\ h.writer = g.writer
    BY <1>1, <2>1, SMT DEF FileType, SameContents
  <2>3. \A i \in File \ {Mine(p)} : file'[i] = file[i]
    BY <1>1, <2>1
  <2>4. Calls(p, "store", g, h)
    BY <1>1, <2>1, <2>2, <2>3, CallProc DEF Calls, CallPc
  <2>5. LockedBy(proc[p], g, p) => g.writer = p
    BY <2>1 DEF LockedBy
  <2> QED  BY <2>1, <2>2, <2>4, <2>5, CallContents, CallCounted
<1>5. CASE Store(p)
  <2>1. /\ proc' = [proc EXCEPT ![p].pc = "unlock", ![p].read = 0] /\ proc[p].pc \in {"store", "nested"}
        /\ file' = [file EXCEPT ![Mine(p)].value = (proc[p].read + 1) % ItemValues,
                                ![Mine(p)].unfinished = @ \ {p}]
    BY <1>5 DEF Store
  <2>2. SameContents(g, h) /\ h.unfinished = g.unfinished \ {p} /\ h.writer = g.writer
    <3>1. PICK v : v = (proc[p].read + 1) % ItemValues
      OBVIOUS
    <3>2. file' = [file EXCEPT ![Mine(p)].value = v, ![Mine(p)].unfinished = @ \ {p}]
      BY <2>1, <3>1
    <3> QED  BY <1>1, <3>2, SMT DEF FileType, SameContents
  <2>3. \A i \in File \ {Mine(p)} : file'[i] = file[i]
    BY <1>1, <2>1
  <2>4. Calls(p, "unlock", g, h)
    BY <1>1, <2>1, <2>2, <2>3, CallProc DEF Calls, CallPc
  <2>5. LockedBy(proc[p], g, p) => g.writer = p
    BY <2>1 DEF LockedBy
  <2> QED  BY <2>1, <2>2, <2>4, <2>5, CallContents, CallCounted
<1>6. CASE Nest(p)
  <2>1. /\ proc' = [proc EXCEPT ![p].pc = "nested"] /\ "flat" \in broken'
        /\ file' = [file EXCEPT ![Mine(p)].writer = NULL, ![Mine(p)].value = (@ + 1) % ItemValues]
    BY <1>6 DEF Nest, Breaks
  <2>2. SameContents(g, h)
    <3>1. PICK v : v = (g.value + 1) % ItemValues
      OBVIOUS
    <3>2. file' = [file EXCEPT ![Mine(p)].writer = NULL, ![Mine(p)].value = v]
      BY <1>1, <2>1, <3>1
    <3> QED  BY <1>1, <3>2, SMT DEF FileType, SameContents
  <2>3. \A i \in File \ {Mine(p)} : file'[i] = file[i]
    BY <1>1, <2>1
  <2>4. Calls(p, "nested", g, h)
    BY <1>1, <2>1, <2>2, <2>3, CallProc DEF Calls, CallPc
  <2>5. ~QuietFlat'
    BY <2>1 DEF QuietFlat, Kept
  <2> QED  BY <2>4, <2>5, CallContents, CallCounted
<1>7. CASE ReadLock(p)
  <2>1. /\ proc' = [proc EXCEPT ![p].pc = "visit"] /\ g.writer = NULL
        /\ file' = [file EXCEPT ![Mine(p)].readers = @ \cup {p}]
    BY <1>7 DEF ReadLock, Within
  <2>2. SameContents(g, h) /\ h.unfinished = g.unfinished
    BY <1>1, <2>1, SMT DEF FileType, SameContents
  <2>3. \A i \in File \ {Mine(p)} : file'[i] = file[i]
    BY <1>1, <2>1
  <2>4. Calls(p, "visit", g, h)
    BY <1>1, <2>1, <2>2, <2>3, CallProc DEF Calls, CallPc
  <2> QED  BY <1>2, <2>1, <2>2, <2>4, CallContents, CallCounted
<1>8. CASE Unlock(p) \/ UnlockForeign(p)
  <2>1. /\ proc' = [proc EXCEPT ![p].pc = "ready"] /\ proc[p].pc = "unlock"
        /\ Unlock(p) \/ ~Holds(p)
    BY <1>8 DEF Unlock, UnlockForeign, Within, At
  <2>2. /\ SameContents(g, h) /\ h.unfinished = g.unfinished
        /\ Unlock(p) /\ g.writer # p => h.writer = g.writer
        /\ \A i \in File \ {Mine(p)} : file'[i] = file[i]
    <3>1. CASE UnlockForeign(p)
      <4>1. PICK w, s : file' = [file EXCEPT ![Mine(p)].writer = w, ![Mine(p)].readers = s]
        BY <3>1 DEF UnlockForeign
      <4>2. SameContents(g, h) /\ h.unfinished = g.unfinished
        BY <1>1, <4>1, SMT DEF FileType, SameContents
      <4>3. ~Unlock(p)
        BY <3>1 DEF UnlockForeign, Unlock
      <4> QED  BY <1>1, <4>1, <4>2, <4>3
    <3>2. CASE Unlock(p) /\ g.writer = p
      <4>1. file' = [file EXCEPT ![Mine(p)].writer = NULL]
        BY <3>2 DEF Unlock
      <4>2. SameContents(g, h) /\ h.unfinished = g.unfinished
        BY <1>1, <4>1, SMT DEF FileType, SameContents
      <4> QED  BY <1>1, <3>2, <4>1, <4>2
    <3>3. CASE Unlock(p) /\ g.writer # p
      <4>1. file' = [file EXCEPT ![Mine(p)].readers = @ \ {p}]
        BY <3>3 DEF Unlock
      <4>2. SameContents(g, h) /\ h.unfinished = g.unfinished /\ h.writer = g.writer
        BY <1>1, <4>1, SMT DEF FileType, SameContents
      <4> QED  BY <1>1, <4>1, <4>2
    <3> QED  BY <1>8, <3>1, <3>2, <3>3
  <2>3. Calls(p, "ready", g, h)
    BY <1>1, <2>1, <2>2, CallProc DEF Calls, CallPc
  <2>4. LockedBy(proc[p], g, p) => Holds(p)
    BY <2>1 DEF LockedBy, Has, Holds
  <2> QED  BY <2>1, <2>2, <2>3, <2>4, CallContents, CallCounted
<1> QED  BY <1>3, <1>4, <1>5, <1>6, <1>7, <1>8

LEMMA NextFInv ==
  ASSUME FInv, [Next]_vars
  PROVE  FInv'
<1>1. IInv'
  BY NextIInv DEF FInv
<1>2. CASE UNCHANGED vars
  <2>1. Contents' /\ CountedUnderLock'
    BY <1>2 DEF FInv, vars, Contents, OpensAlone, JoinsInUse, Reaches, SameNumber, LaidOut,
       CountedUnderLock, Kept, Mine, At, HasOpen, Joining
  <2> QED  BY <1>1, <2>1 DEF FInv
<1>3. ASSUME NEW p \in Proc, Lifecycle(p)
      PROVE  Contents' /\ CountedUnderLock'
  <2>1. ASSUME NEW c \in Config, NEW pl \in PlaceOf[p], OpenPath(p, c, pl)
        PROVE  Contents' /\ CountedUnderLock'
    <3>1. pl \in Place
      BY DEF Place
    <3> QED  BY <1>1, <2>1, <3>1, OpenPathFInv
  <2> QED  BY <1>1, <1>3, <2>1, PlainFInv, CreateFInv, LayingFInv, CloseFInv, ForkFInv, DieFInv
           DEF Lifecycle, OpenStep
<1>4. ASSUME NEW p \in Proc,
             \/ \E lock \in {"wlock", "rlock"} : Call(p, lock)
             \/ CallStep(p) \/ Nest(p) \/ NestInVisit(p)
      PROVE  Contents' /\ CountedUnderLock'
  BY <1>1, <1>4, ReadingFInv, WritingFInv DEF CallStep
<1> QED  BY <1>1, <1>2, <1>3, <1>4 DEF Next, FInv

LEMMA FileInvariance == Spec => []FInv
  BY InitFInv, NextFInv, PTL DEF Spec

-----------------------------------------------------------------------------
(* Part 11: the theorems.                                                  *)

(* However processes open, fork, close and die: as long as they open one   *)
(* at a time and leave a cache in use its size and its contents, all that  *)
(* have the cache have the one that the path names.                        *)
THEOREM OneCacheForAll == Spec => []OneCache
<1>1. FInv => OneCache
  BY DEF FInv, Contents, JoinsInUse, OneCache
<1> QED  BY <1>1, FileInvariance, PTL

(* And if each of them is mapped where the others are, the pointers of     *)
(* the file, to functions and to nodes, are valid in every one.            *)
THEOREM PointersValid == Spec => []PointersLead
<1>1. FInv => PointersLead
  BY DEF FInv, Contents, Reaches, PointersLead
<1> QED  BY <1>1, FileInvariance, PTL

(* If no process opens while another has the cache, the descriptor in the  *)
(* file, which ccache_close closes, is the one of each that has it open.   *)
THEOREM ClosesItsOwn == Spec => []ClosesOwn
<1>1. FInv => ClosesOwn
  BY DEF FInv, Contents, SameNumber, ClosesOwn
<1> QED  BY <1>1, FileInvariance, PTL

(* Who has the cache has one that is laid out to the end, and a call finds *)
(* no other call half done, wherever opens and calls have died before: an  *)
(* open that died in the middle of its work is not mistaken for a whole.   *)
THEOREM WholeForCalls == Spec => []WorksOnWhole
<1>1. FInv => WorksOnWhole
  <2> SUFFICES ASSUME FInv, Kept({"opens", "in use", "whole"}), NEW p \in Proc
               PROVE  /\ HasOpen(p) => file[Mine(p)].made = "whole"
                      /\ Kept({"quiet", "flat"}) /\ At(p, "find") => Whole(Mine(p))
    BY DEF WorksOnWhole
  <2>1. HasOpen(p) => file[Mine(p)].made = "whole"
    BY DEF FInv, Contents, LaidOut
  <2>2. ASSUME Kept({"quiet", "flat"}), At(p, "find")
        PROVE  Whole(Mine(p))
    <3>1. Kept({"opens", "whole", "quiet", "flat"})
      BY <2>2 DEF Kept
    <3>2. file[Mine(p)].writer = p /\ Mine(p) \in File /\ HasOpen(p)
      BY <2>2 DEF FInv, IInv, Locked, LockedBy, QuietFlat, Types, Placed, At, Mine, HasOpen, Opening
    <3>3. \A x \in file[Mine(p)].unfinished : file[Mine(p)].writer = x /\ ~At(p, "find")
      BY <3>1, <3>2 DEF FInv, CountedUnderLock, At
    <3> QED  BY <2>1, <2>2, <3>2, <3>3 DEF Whole
  <2> QED  BY <2>1, <2>2
<1> QED  BY <1>1, FileInvariance, PTL

(* What a step of the life of a process leaves of the file with the name.  *)
LEMMA StepNamed ==
  ASSUME Types, NEW p \in Proc, NEW r, NEW files, Step(p, r, files), name' = name, name # NULL
  PROVE  file'[name] = files[name] /\ name \in File
  BY DEF Step, Reclaimed, Types

(* Only an open that asks for it takes a whole cache away.                 *)
LEMMA StepSurvives ==
  ASSUME FInv, [Next]_vars, Kept({"opens"}), name # NULL, file[name].made = "whole",
         name' # name \/ file'[name].made # "whole"
  PROVE  \E p \in Proc : /\ proc[p].pc \in Opening
                         /\ proc[p].config.init \/ proc[p].config.size # file[name].size
<1>1. Types /\ name \in File /\ file \in [File -> FileType]
  BY DEF FInv, IInv, Types
<1>2. \A p \in Proc : proc[p].pc \in Opening => OpenAt(proc[p], name, file[Mine(p)])
  BY DEF FInv, Contents, OpensAlone
<1>3. ASSUME NEW p \in Proc, NEW r, NEW files, Step(p, r, files), name' = name,
             files[name].made = "whole"
      PROVE  FALSE
  BY <1>1, <1>3, StepNamed
<1>4. ASSUME NEW p \in Proc, Lifecycle(p)
      PROVE  /\ proc[p].pc \in Opening
             /\ proc[p].config.init \/ proc[p].config.size # file[name].size
  <2>1. CASE \/ \E c \in Config, pl \in PlaceOf[p] : OpenPath(p, c, pl)
             \/ Stat(p) \/ UnlinkFails(p) \/ Map(p) \/ LayAreasFails(p)
             \/ Close(p) \/ \E q \in Others(p) : Fork(p, q)
    BY <1>3, <2>1 DEF OpenPath, Stat, UnlinkFails, Map, LayAreasFails, Close, Fork, Others
  <2>2. CASE Extend(p) \/ Adopt(p) \/ LayAreas(p)
    <3>1. ASSUME NEW size, Step(p, Goes(p, "map"), [file EXCEPT ![Mine(p)].size = size]), name' = name
          PROVE  FALSE
      <4>1. [file EXCEPT ![Mine(p)].size = size][name].made = "whole"
        BY <1>1, SMT DEF FileType
      <4> QED  BY <1>3, <3>1, <4>1
    <3>2. ASSUME NEW r, NEW fd, name' = name,
                 Step(p, r, [file EXCEPT ![Mine(p)].fd = fd, ![Mine(p)].writer = NULL,
                                         ![Mine(p)].readers = {}])
          PROVE  FALSE
      <4>1. [file EXCEPT ![Mine(p)].fd = fd, ![Mine(p)].writer = NULL,
                         ![Mine(p)].readers = {}][name].made = "whole"
        BY <1>1, SMT DEF FileType
      <4> QED  BY <1>3, <3>2, <4>1
    <3>3. ASSUME Step(p, Opened(p), [file EXCEPT ![Mine(p)].made = "whole"]), name' = name
          PROVE  FALSE
      <4>1. [file EXCEPT ![Mine(p)].made = "whole"][name].made = "whole"
        BY <1>1, SMT DEF FileType
      <4> QED  BY <1>3, <3>3, <4>1
    <3>4. CASE Extend(p)
      BY <3>1, <3>4 DEF Extend
    <3>5. CASE Adopt(p)
      BY <3>2, <3>5 DEF Adopt
    <3>6. CASE LayAreas(p)
      BY <3>3, <3>6 DEF LayAreas
    <3> QED  BY <2>2, <3>4, <3>5, <3>6
  <2>3. CASE Die(p)
    <3>1. PICK files : /\ Step(p, Outside, files) /\ name' = name
                       /\ files = [i \in File |-> Bereft(file[i], p)]
      BY <2>3 DEF Die, Bereft
    <3>2. files[name].made = "whole"
      BY <1>1, <3>1, BereftContents DEF SameContents
    <3> QED  BY <1>3, <3>1, <3>2
  <2>4. CASE Unlink(p)
    BY <1>2, <2>4 DEF Unlink, At, Opening, OpenAt, Mine
  <2>5. CASE Create(p)
    BY <1>2, <2>5 DEF Create, At, Opening, OpenAt
  <2>6. CASE Clear(p)
    BY <1>2, <2>6 DEF Clear, At, Opening, OpenAt, Mine
  <2>7. CASE LayHead(p)
    BY <1>2, <2>7 DEF LayHead, At, Opening, OpenAt, Mine
  <2> QED  BY <1>4, <2>1, <2>2, <2>3, <2>4, <2>5, <2>6, <2>7 DEF Lifecycle, OpenStep
<1>5. ASSUME NEW p \in Proc,
             \/ \E lock \in {"wlock", "rlock"} : Call(p, lock)
             \/ CallStep(p) \/ Nest(p) \/ NestInVisit(p)
      PROVE  FALSE
  <2>1. name' = name
    BY <1>5 DEF Call, CallStep, Nest, NestInVisit, WriteLock, Find, Miss, Store, ReadLock, VisitItem,
       VisitEnds, Unlock, UnlockForeign, Within
  <2>2. CASE file' = file
    BY <2>1, <2>2
  <2>3. CASE WriteLock(p) \/ Find(p) \/ Store(p) \/ Nest(p)
    BY <1>1, <2>1, <2>3, SMT DEF WriteLock, Find, Store, Nest, FileType
  <2>4. CASE ReadLock(p) \/ Unlock(p) \/ UnlockForeign(p)
    BY <1>1, <2>1, <2>4, SMT DEF ReadLock, Unlock, UnlockForeign, FileType
  <2> QED  BY <1>5, <2>2, <2>3, <2>4
           DEF Call, CallStep, NestInVisit, Miss, VisitItem, VisitEnds
<1>6. ~UNCHANGED vars
  BY DEF vars
<1> QED  BY <1>4, <1>5, <1>6 DEF Next

(* A whole cache, in use or not, keeps its name and its contents but for   *)
(* an open that asks for init or for another size.                         *)
THEOREM Survives == Spec => CacheSurvives
<1>1. FInv /\ [Next]_vars =>
        [name # NULL /\ file[name].made = "whole"
           /\ (name' # name \/ file'[name].made # "whole")
         => \/ ~Kept({"opens"})
            \/ \E p \in Proc : /\ proc[p].pc \in Opening
                               /\ proc[p].config.init \/ proc[p].config.size # file[name].size
        ]_vars
  BY StepSurvives
<1> QED  BY <1>1, FileInvariance, PTL DEF Spec, CacheSurvives
=============================================================================
