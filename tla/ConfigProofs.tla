---------------------------- MODULE ConfigProofs ----------------------------
(***************************************************************************)
(* Proofs about Config, for files of any length and all values.            *)
(***************************************************************************)
EXTENDS Config, SequenceTheorems, TLAPS

(* A value that an item takes is of its type once it is stored.            *)
LEMMA StoredTyped ==
  ASSUME NEW i \in Item, NEW v \in Value, Accepts(i, v)
  PROVE  /\ Accepts(i, SetTo(i, v)) /\ SetTo(i, v) # UNSET
         /\ i \in IntItem => SetTo(i, v) # EMPTY
  BY ConfigAssumption, SMT DEF Accepts, SetTo, Item, IntItem, Value

(* So are the defaults.                                                    *)
LEMMA DefaultTyped ==
  ASSUME NEW i \in Item
  PROVE  /\ Accepts(i, DefVal[i]) /\ DefVal[i] # UNSET
         /\ i \in IntItem => DefVal[i] # EMPTY
  BY ConfigAssumption, SMT DEF Accepts, Item, IntItem, DefVal, Value

(* What is left of a piece is a piece, the same one if it had a newline.   *)
LEMMA CutTyped ==
  ASSUME NEW piece \in Piece, NEW line \in Cut(piece)
  PROVE  /\ line \in Piece /\ line.item = piece.item
         /\ \/ line.kind = piece.kind
            \/ line.kind = "other" /\ piece.kind \in {"section", "item"}
         /\ piece.newline => line = piece
<1>1. \A n \in Nat : n \div 10 \in Nat
  BY SMT
<1>2. Shorter(piece.value) \subseteq Value
  <2>1. CASE piece.value \in Nat
    BY <1>1, <2>1, SMT DEF Value, Shorter
  <2>2. CASE piece.value \notin Nat
    BY <2>2, ConfigAssumption DEF Shorter
  <2> QED  BY <2>1, <2>2
<1>3. CASE line = piece
  BY <1>3
<1>4. CASE ~piece.newline /\ \E v \in Shorter(piece.value) : line = [piece EXCEPT !.value = v]
  BY <1>2, <1>4, SMT DEF Piece
<1>5. CASE /\ ~piece.newline /\ piece.kind \in {"section", "item"}
           /\ line = [piece EXCEPT !.kind = "other"]
  BY <1>5, SMT DEF Piece
<1> QED  BY <1>3, <1>4, <1>5 DEF Cut

-----------------------------------------------------------------------------
(* The items that are set have values of their types, as TypeOK says;      *)
(* config must be a function for the steps that change one item.           *)
IInv ==
  /\ TypeOK
  /\ config \in [Item -> Value \cup {UNSET}]

(* With no item set IInv holds.                                            *)
LEMMA UnsetIInv ==
  ASSUME file = <<>>, state = "section", align \in Nat,
         phase \in {"idle", "reading", "defaults", "failed"},
         config = [i \in Item |-> UNSET]
  PROVE  IInv
<1>1. \A i \in Item : config[i] = UNSET
  BY ConfigAssumption
<1>2. config \in [Item -> Value \cup {UNSET}]
  BY ConfigAssumption
<1>3. \A i \in IntItem : config[i] # EMPTY
  BY <1>1, ConfigAssumption DEF Item
<1>4. file \in Seq(Piece)
  BY SMT
<1> QED
  BY <1>1, <1>2, <1>3, <1>4 DEF IInv, TypeOK

LEMMA InitIInv == Init => IInv
<1>1. Init => align \in Nat
  BY SMT DEF Init
<1> QED  BY <1>1, UnsetIInv DEF Init

LEMMA BeginIInv ==
  ASSUME IInv, NEW next \in {"reading", "defaults", "failed"}, Begin(next)
  PROVE  IInv'
<1>1. \A i \in Item : config'[i] = UNSET
  BY DEF Begin
<1>2. config' \in [Item -> Value \cup {UNSET}]
  BY DEF Begin
<1>3. \A i \in IntItem : config'[i] # EMPTY
  BY <1>1, ConfigAssumption DEF Item
<1>4. file' \in Seq(Piece)
  BY SMT DEF Begin
<1>5. phase' = next /\ state' = "section" /\ align' = align
  BY DEF Begin
<1> QED
  BY <1>1, <1>2, <1>3, <1>4, <1>5 DEF IInv, TypeOK

(* A piece more of the file, which sets no item.                           *)
LEMMA FgetsIInv ==
  ASSUME IInv, NEW piece \in Pieces, Fgets(piece), config' = config,
         state' \in {"section", "item", "error"}
  PROVE  IInv'
<1>1. file' \in Seq(Piece)
  BY ConfigAssumption, SMT DEF IInv, TypeOK, Fgets
<1> QED
  BY <1>1, SMT DEF IInv, TypeOK, Fgets

LEMMA ProcessItemIInv ==
  ASSUME IInv, NEW piece \in Pieces, ProcessItem(piece)
  PROVE  IInv'
<1>0. PICK line \in Cut(piece) :
        /\ line.kind = "item"
        /\ config' = IF Accepts(line.item, line.value)
                     THEN [config EXCEPT ![line.item] = SetTo(line.item, line.value)]
                     ELSE config
  BY DEF ProcessItem
<1> DEFINE i == line.item
           v == line.value
<1>1. /\ piece \in Piece
      /\ file' \in Seq(Piece) /\ phase' = "reading" /\ phase = "reading"
      /\ align' = align /\ state' = state
  BY ConfigAssumption, SMT DEF IInv, TypeOK, ProcessItem, Fgets
<1>2. i \in Item /\ v \in Value
  BY <1>1, CutTyped, SMT DEF Piece
<1>3. CASE ~Accepts(i, v)
  BY <1>0, <1>1, <1>3, SMT DEF IInv, TypeOK
<1>4. CASE Accepts(i, v)
  <2>1. config' = [config EXCEPT ![i] = SetTo(i, v)]
    BY <1>0, <1>4
  <2>2. SetTo(i, v) \in Value
    BY <1>2, SMT DEF SetTo, Value
  <2>3. Accepts(i, SetTo(i, v)) /\ (i \in IntItem => SetTo(i, v) # EMPTY)
    BY <1>2, <1>4, StoredTyped
  <2>4. \A j \in Item : config'[j] = IF j = i THEN SetTo(i, v) ELSE config[j]
    BY <2>1, <1>2, SMT DEF IInv
  <2>5. config' \in [Item -> Value \cup {UNSET}]
    BY <2>1, <2>2, <1>2, SMT DEF IInv
  <2>6. \A j \in Item : config'[j] = UNSET \/ Accepts(j, config'[j])
    BY <2>3, <2>4, <1>1 DEF IInv, TypeOK
  <2>7. \A j \in IntItem : config'[j] # EMPTY
    BY <2>3, <2>4, <1>1 DEF IInv, TypeOK, Item
  <2> QED  BY <2>5, <2>6, <2>7, <1>1 DEF IInv, TypeOK
<1> QED  BY <1>3, <1>4

LEMMA DefaultsIInv ==
  ASSUME IInv, Defaults
  PROVE  IInv'
<1>1. \A i \in Item : config'[i] = IF config[i] = UNSET THEN DefVal[i] ELSE config[i]
  BY SMT DEF Defaults, WithDefaults
<1>2. \A i \in Item : Accepts(i, config'[i]) /\ config'[i] # UNSET
  BY <1>1, DefaultTyped DEF IInv, TypeOK, Defaults
<1>3. \A i \in IntItem : config'[i] # EMPTY
  BY <1>1, DefaultTyped DEF IInv, TypeOK, Defaults, Item
<1>4. \A i \in Item : config'[i] \in Value
  BY <1>2, SMT DEF Accepts, Value
<1>5. config' \in [Item -> Value \cup {UNSET}]
  BY <1>4, SMT DEF Defaults, WithDefaults
<1>6. config'["alignsize"] \in Nat
  BY <1>2, <1>3, SMT DEF Accepts, Item, IntItem
<1>7. /\ file' = file /\ state' = state /\ phase' \in {"done", "failed"}
      /\ align' = align \/ align' = config'["alignsize"]
      /\ phase' = "done" => align' = config'["alignsize"] /\ PowerOf2(align')
  BY DEF Defaults
<1> QED
  BY <1>2, <1>3, <1>5, <1>6, <1>7 DEF IInv, TypeOK

LEMMA NextIInv ==
  ASSUME IInv, [Next]_vars
  PROVE  IInv'
<1>1. CASE UNCHANGED vars
  BY <1>1 DEF vars, IInv, TypeOK
<1>2. CASE ReadFile \/ ReadNoFile \/ FileNotFound
  BY <1>2, BeginIInv DEF ReadFile, ReadNoFile, FileNotFound
<1>3. ASSUME NEW piece \in Pieces, SkipPiece(piece)
      PROVE  IInv'
  BY <1>3, FgetsIInv DEF SkipPiece, IInv, TypeOK
<1>4. ASSUME NEW piece \in Pieces, ProcessSection(piece)
      PROVE  IInv'
  BY <1>4, FgetsIInv DEF ProcessSection, IInv, TypeOK
<1>5. ASSUME NEW piece \in Pieces, ProcessItem(piece)
      PROVE  IInv'
  BY <1>5, ProcessItemIInv
<1>6. ASSUME NEW piece \in Pieces, ProcessItemFails(piece)
      PROVE  IInv'
  BY <1>6, FgetsIInv DEF ProcessItemFails
<1>7. CASE ReadDone
  BY <1>7 DEF ReadDone, IInv, TypeOK
<1>8. CASE Defaults
  BY <1>8, DefaultsIInv
<1>9. ASSUME NEW c \in Own, OpenOwn(c)
      PROVE  IInv'
  BY <1>9, ConfigAssumption, SMT DEF OpenOwn, IInv, TypeOK
<1> QED
  BY <1>1, <1>2, <1>3, <1>4, <1>5, <1>6, <1>7, <1>8, <1>9 DEF Next

LEMMA Invariance == Spec => []IInv
  BY InitIInv, NextIInv, PTL DEF Spec

(* Every variable keeps its type: whatever is in the file, an item that is *)
(* set has a value of its type.                                            *)
THEOREM TypeCorrectness == Spec => []TypeOK
<1>1. IInv => TypeOK  BY DEF IInv
<1> QED  BY <1>1, Invariance, PTL

-----------------------------------------------------------------------------
(* What the lines of f so far set an item to.                              *)
Read(f, i) ==
  IF LinesFor(f, i) = {} THEN UNSET
  ELSE LET last == CHOOSE j \in LinesFor(f, i) : \A k \in LinesFor(f, i) : k <= j
       IN  SetTo(i, f[last].value)

(* Of the lines for an item there is a last one.                           *)
HasLast(f) ==
  \A i \in Item : LinesFor(f, i) # {} =>
    \E j \in LinesFor(f, i) : \A k \in LinesFor(f, i) : k <= j

(* What ccache_read_config knows after the lines of f: in the variable     *)
(* state whether it is well formed, and in cache_config what it says.      *)
Knows(f, st, conf) ==
  /\ f \in Seq(Piece) /\ HasLast(f)
  /\ st = "section" => \A j \in DOMAIN f : Skipped(f[j])
  /\ st = "item" => WellFormed(f) /\ \E j \in DOMAIN f : ~Skipped(f[j])
  /\ st = "error" => ~WellFormed(f)
  /\ st # "error" => \A i \in Item : conf[i] = Read(f, i)

(* While it reads, it knows one of the readings of the file.               *)
Tracks ==
  phase \in {"reading", "defaults"} /\ Fits => \E f \in Readings : Knows(f, state, config)

(* At the end the result is that of one of them.                           *)
Ends ==
  /\ phase = "defaults" => state # "error"
  /\ MeansWhatItSays

MInv == IInv /\ Tracks /\ Ends

(* One line more: g is f with line at its end.                             *)
Longer(f, line, g) ==
  /\ f \in Seq(Piece) /\ g \in Seq(Piece) /\ line \in Piece
  /\ Len(g) = Len(f) + 1 /\ g[Len(g)] = line
  /\ \A j \in 1 .. Len(f) : g[j] = f[j]

LEMMA LongerFacts ==
  ASSUME NEW f, NEW line, NEW g, Longer(f, line, g), NEW n, n = Len(g)
  PROVE  /\ n \in Nat /\ DOMAIN f = 1 .. n - 1 /\ DOMAIN g = 1 .. n
         /\ g[n] = line /\ \A j \in 1 .. n - 1 : g[j] = f[j]
         /\ n \in 1 .. n /\ \A j \in 1 .. n : j = n \/ j \in 1 .. n - 1
         /\ \A j \in 1 .. n - 1 : j \in 1 .. n /\ 1 .. j - 1 \subseteq 1 .. n - 1
<1>1. /\ Len(f) \in Nat /\ n = Len(f) + 1 /\ DOMAIN f = 1 .. Len(f) /\ DOMAIN g = 1 .. Len(g)
  BY SMT DEF Longer
<1>2. n \in Nat /\ n - 1 = Len(f)
  BY <1>1, SMT
<1>3. /\ n \in 1 .. n /\ \A j \in 1 .. n : j = n \/ j \in 1 .. n - 1
      /\ \A j \in 1 .. n - 1 : j \in 1 .. n /\ 1 .. j - 1 \subseteq 1 .. n - 1
  BY <1>2, SMT
<1> QED  BY <1>1, <1>2, <1>3 DEF Longer

(* With one line more the lines for the items it does not set are the      *)
(* same; those of the item it sets have it as their last one.              *)
LEMMA LongerLines ==
  ASSUME NEW f, NEW line, NEW g, Longer(f, line, g), HasLast(f), NEW i \in Item
  PROVE  /\ LinesFor(g, i) # {} =>
              \E j \in LinesFor(g, i) : \A k \in LinesFor(g, i) : k <= j
         /\ Read(g, i) = IF line.kind = "item" /\ line.item = i /\ Accepts(i, line.value)
                         THEN SetTo(i, line.value) ELSE Read(f, i)
<1> DEFINE n == Len(g)
<1>1. /\ n \in Nat /\ DOMAIN f = 1 .. n - 1 /\ DOMAIN g = 1 .. n
      /\ g[n] = line /\ \A j \in 1 .. n - 1 : g[j] = f[j]
      /\ n \in 1 .. n /\ \A j \in 1 .. n : j = n \/ j \in 1 .. n - 1
      /\ \A j \in 1 .. n - 1 : j \in 1 .. n
  BY LongerFacts
<1>2. LinesFor(f, i) \subseteq 1 .. n - 1
  BY <1>1 DEF LinesFor
<1> HIDE DEF n
<1>3. CASE line.kind = "item" /\ line.item = i /\ Accepts(i, line.value)
  <2>1. LinesFor(g, i) = LinesFor(f, i) \cup {n}
    BY <1>1, <1>3 DEF LinesFor
  <2>2. \A k \in LinesFor(g, i) : k <= n
    BY <1>1, <1>2, <2>1, SMT
  <2> DEFINE last == CHOOSE j \in LinesFor(g, i) : \A k \in LinesFor(g, i) : k <= j
  <2>3. last = n
    <3>1. n \in LinesFor(g, i) /\ \A k \in LinesFor(g, i) : k <= n
      BY <2>1, <2>2
    <3>2. last \in LinesFor(g, i) /\ \A k \in LinesFor(g, i) : k <= last
      BY <3>1
    <3>3. last \in 1 .. n
      BY <1>1, <1>2, <2>1, <3>2
    <3> HIDE DEF last
    <3> QED  BY <1>1, <3>1, <3>2, <3>3, SMT
  <2>4. Read(g, i) = SetTo(i, g[last].value)
    BY <2>1 DEF Read
  <2> HIDE DEF last
  <2> QED  BY <1>1, <1>3, <2>1, <2>2, <2>3, <2>4
<1>4. CASE ~(line.kind = "item" /\ line.item = i /\ Accepts(i, line.value))
  <2>1. LinesFor(g, i) = LinesFor(f, i)
    BY <1>1, <1>4 DEF LinesFor
  <2>2. CASE LinesFor(f, i) = {}
    BY <1>4, <2>1, <2>2 DEF Read
  <2>3. CASE LinesFor(f, i) # {}
    <3> DEFINE last == CHOOSE j \in LinesFor(f, i) : \A k \in LinesFor(f, i) : k <= j
    <3>1. \E j \in LinesFor(f, i) : \A k \in LinesFor(f, i) : k <= j
      BY <2>3 DEF HasLast
    <3>2. last \in LinesFor(f, i)
      BY <3>1
    <3>3. Read(f, i) = SetTo(i, f[last].value) /\ Read(g, i) = SetTo(i, g[last].value)
      BY <2>1, <2>3 DEF Read
    <3> HIDE DEF last
    <3>4. g[last] = f[last]
      BY <1>1, <1>2, <3>2
    <3> QED  BY <1>4, <2>1, <3>1, <3>3, <3>4
  <2> QED  BY <2>2, <2>3
<1> QED  BY <1>3, <1>4

(* Whether it is well formed, and has a section, with one line more.       *)
LEMMA LongerWellFormed ==
  ASSUME NEW f, NEW line, NEW g, Longer(f, line, g)
  PROVE  /\ (\A j \in DOMAIN g : Skipped(g[j]))
               <=> (\A j \in DOMAIN f : Skipped(f[j])) /\ Skipped(line)
         /\ WellFormed(g) <=>
              /\ WellFormed(f)
              /\ ~Skipped(line) =>
                   IF \A j \in DOMAIN f : Skipped(f[j])
                   THEN line.kind = "section" ELSE line.kind = "item"
<1> DEFINE n == Len(g)
<1>1. /\ n \in Nat /\ DOMAIN f = 1 .. n - 1 /\ DOMAIN g = 1 .. n
      /\ g[n] = line /\ \A j \in 1 .. n - 1 : g[j] = f[j]
      /\ n \in 1 .. n /\ \A j \in 1 .. n : j = n \/ j \in 1 .. n - 1
      /\ \A j \in 1 .. n - 1 : j \in 1 .. n /\ 1 .. j - 1 \subseteq 1 .. n - 1
  BY LongerFacts
<1> HIDE DEF n
<1> DEFINE Fine(j) == ~Skipped(f[j]) =>
                        IF \A k \in 1 .. j - 1 : Skipped(f[k])
                        THEN f[j].kind = "section" ELSE f[j].kind = "item"
           Then(j) == ~Skipped(g[j]) =>
                        IF \A k \in 1 .. j - 1 : Skipped(g[k])
                        THEN g[j].kind = "section" ELSE g[j].kind = "item"
<1>2. WellFormed(f) = \A j \in 1 .. n - 1 : Fine(j)
  BY <1>1 DEF WellFormed
<1>3. WellFormed(g) = \A j \in 1 .. n : Then(j)
  BY <1>1 DEF WellFormed
<1>4. \A j \in 1 .. n - 1 : Then(j) <=> Fine(j)
  <2> TAKE j \in 1 .. n - 1
  <2>1. g[j] = f[j] /\ \A k \in 1 .. j - 1 : g[k] = f[k]
    BY <1>1
  <2> QED  BY <2>1
<1>5. Then(n) <=> (~Skipped(line) =>
                     IF \A j \in DOMAIN f : Skipped(f[j])
                     THEN line.kind = "section" ELSE line.kind = "item")
  BY <1>1
<1> HIDE DEF Fine, Then
<1>6. WellFormed(g) <=> WellFormed(f) /\ Then(n)
  BY <1>1, <1>2, <1>3, <1>4
<1> QED  BY <1>1, <1>5, <1>6

(* After one piece more: if the lines fit, all pieces before have been     *)
(* read as they are, and the last one as what is left of it.               *)
LEMMA FgetsReadings ==
  ASSUME file \in Seq(Piece), NEW piece \in Piece, NEW line \in Cut(piece),
         file' = Append(file, piece), Fits'
  PROVE  Fits /\ Readings = {file} /\ \E g \in Readings' : Longer(file, line, g)
<1> DEFINE n == Len(file) + 1
<1>1. /\ Len(file) \in Nat /\ Len(file') = n /\ file' # <<>> /\ file' \in Seq(Piece)
      /\ n \in 1 .. n /\ n - 1 = Len(file)
      /\ file'[n] = piece /\ \A j \in 1 .. Len(file) : file'[j] = file[j]
      /\ \A j \in 1 .. Len(file) : j \in 1 .. n /\ j # n
      /\ \A j \in 1 .. Len(file) - 1 : j \in 1 .. Len(file)
      /\ file # <<>> => Len(file) \in 1 .. Len(file)
  BY SMT
<1>2. line \in Piece
  BY CutTyped
<1> HIDE DEF n
<1>3. \A j \in 1 .. Len(file) : file[j].newline
  BY <1>1 DEF Fits
<1>4. Fits
  BY <1>1, <1>3 DEF Fits
<1>5. Readings = {file}
  <2>1. CASE file = <<>>
    BY <2>1 DEF Readings
  <2>2. CASE file # <<>>
    <3>1. Cut(file[Len(file)]) = {file[Len(file)]}
      BY <1>1, <1>3, <2>2 DEF Cut
    <3>2. [file EXCEPT ![Len(file)] = file[Len(file)]] = file
      BY SMT
    <3> QED  BY <2>2, <3>1, <3>2 DEF Readings
  <2> QED  BY <2>1, <2>2
<1> DEFINE g == [file' EXCEPT ![n] = line]
<1>6. g \in Seq(Piece) /\ Len(g) = n /\ g[n] = line /\ \A j \in 1 .. n : j # n => g[j] = file'[j]
  <2>1. ASSUME NEW s \in Seq(Piece), Len(s) = n
        PROVE  /\ [s EXCEPT ![n] = line] \in Seq(Piece) /\ Len([s EXCEPT ![n] = line]) = n
               /\ [s EXCEPT ![n] = line][n] = line
               /\ \A j \in 1 .. n : j # n => [s EXCEPT ![n] = line][j] = s[j]
    BY <1>1, <1>2, <2>1, ExceptSeq
  <2> QED  BY <1>1, <2>1
<1>7. g \in Readings'
  BY <1>1 DEF Readings
<1> HIDE DEF g
<1>8. Longer(file, line, g)
  <2>1. Len(g) = Len(file) + 1 /\ g[Len(g)] = line
    BY <1>6 DEF n
  <2>2. \A j \in 1 .. Len(file) : g[j] = file[j]
    BY <1>1, <1>6
  <2> QED  BY <1>2, <1>6, <2>1, <2>2 DEF Longer
<1> QED  BY <1>4, <1>5, <1>7, <1>8

(* A piece more of the file, of which line is left.                        *)
LEMMA FgetsMInv ==
  ASSUME MInv, IInv', NEW piece \in Pieces, NEW line \in Cut(piece), Fgets(piece),
         \/ Skipped(piece) /\ line = piece /\ state' = state
         \/ /\ ~Skipped(piece) /\ state = "section"
            /\ state' = IF line.kind = "section" THEN "item" ELSE "error"
         \/ ~Skipped(piece) /\ state = "item" /\ line.kind = "item" /\ state' = state
         \/ ~Skipped(piece) /\ state = "item" /\ line.kind # "item" /\ state' = "error",
         config' = IF ~Skipped(piece) /\ state = "item" /\ line.kind = "item"
                      /\ Accepts(line.item, line.value)
                   THEN [config EXCEPT ![line.item] = SetTo(line.item, line.value)]
                   ELSE config
  PROVE  MInv'
<1>1. /\ piece \in Piece /\ file \in Seq(Piece) /\ file' = Append(file, piece)
      /\ phase = "reading" /\ phase' = "reading" /\ state \in {"section", "item"}
  BY ConfigAssumption DEF Fgets, MInv, IInv, TypeOK
<1>2. /\ line \in Piece
      /\ line.kind = piece.kind \/ (piece.kind \in {"section", "item"} /\ line.kind = "other")
  BY <1>1, CutTyped
<1>3. Skipped(line) <=> Skipped(piece)
  BY <1>2 DEF Skipped
<1>4. Tracks'
  <2> SUFFICES ASSUME Fits'
               PROVE  \E g \in Readings' : Knows(g, state', config')
    BY DEF Tracks
  <2>1. Fits /\ Readings = {file}
    BY <1>1, FgetsReadings
  <2>2. PICK g \in Readings' : Longer(file, line, g)
    BY <1>1, FgetsReadings
  <2>3. Knows(file, state, config)
    BY <1>1, <2>1 DEF MInv, Tracks
  <2>4. HasLast(g)
    BY <2>2, <2>3, LongerLines DEF Knows, HasLast
  <2>5. WellFormed(file)
    BY <1>1, <2>3 DEF Knows, WellFormed
  <2>6. /\ state' = "section" => \A j \in DOMAIN g : Skipped(g[j])
        /\ state' = "item" => WellFormed(g) /\ \E j \in DOMAIN g : ~Skipped(g[j])
        /\ state' = "error" => ~WellFormed(g)
    BY <1>1, <1>2, <1>3, <2>2, <2>3, <2>5, LongerWellFormed DEF Knows
  <2>7. ASSUME state' # "error", NEW i \in Item
        PROVE  config'[i] = Read(g, i)
    <3>1. config[i] = Read(file, i) /\ i \in DOMAIN config
      BY <1>1, <2>3 DEF Knows, MInv, IInv
    <3>2. Read(g, i) = IF line.kind = "item" /\ line.item = i /\ Accepts(i, line.value)
                       THEN SetTo(i, line.value) ELSE Read(file, i)
      BY <2>2, <2>3, LongerLines DEF Knows
    <3>3. line.kind = "item" => ~Skipped(piece) /\ state = "item"
      BY <1>1, <1>3, <2>7 DEF Skipped
    <3>4. line.item \in Item
      BY <1>2 DEF Piece
    <3> QED  BY <3>1, <3>2, <3>3, <3>4 DEF MInv, IInv
  <2>8. g \in Seq(Piece)
    BY <2>2 DEF Longer
  <2> QED  BY <2>4, <2>6, <2>7, <2>8 DEF Knows
<1>5. Ends'
  BY <1>1 DEF Ends, MeansWhatItSays
<1> QED  BY <1>4, <1>5 DEF MInv

(* Where nothing has been read, nothing is set.                            *)
NoFile ==
  /\ file = <<>> /\ state = "section" /\ phase \in {"idle", "reading", "defaults", "failed"}
  /\ config = [i \in Item |-> UNSET]

LEMMA NoFileMInv == IInv /\ NoFile => MInv
<1> SUFFICES ASSUME IInv, NoFile
             PROVE  MInv
  OBVIOUS
<1>1. /\ file = <<>> /\ DOMAIN file = {} /\ state = "section" /\ phase # "done"
      /\ \A i \in Item : config[i] = UNSET
  BY ConfigAssumption DEF NoFile
<1>2. \A i \in Item : LinesFor(file, i) = {}
  BY <1>1 DEF LinesFor
<1>3. Knows(file, state, config)
  BY <1>1, <1>2 DEF Knows, HasLast, Read, IInv, TypeOK
<1>4. file \in Readings
  BY <1>1 DEF Readings
<1> QED  BY <1>1, <1>3, <1>4 DEF MInv, Tracks, Ends, MeansWhatItSays

LEMMA NoFileMInvNext == IInv' /\ NoFile' => MInv'
  BY NoFileMInv, PTL

(* The file that has been read stays as it is.                             *)
LEMMA SameFile ==
  ASSUME file' = file
  PROVE  (Fits' <=> Fits) /\ Readings' = Readings
  BY DEF Fits, Readings

LEMMA ReadDoneMInv ==
  ASSUME MInv, IInv', ReadDone
  PROVE  MInv'
<1>1. /\ file' = file /\ state' = state /\ config' = config /\ phase = "reading"
      /\ phase' = IF state = "error" THEN "failed" ELSE "defaults"
  BY DEF ReadDone
<1>2. Tracks'
  BY <1>1, SameFile DEF MInv, Tracks
<1>3. Ends'
  <2>1. ASSUME state = "error", Fits'
        PROVE  \E f \in Readings' : ~WellFormed(f)
    BY <1>1, <2>1, SameFile DEF MInv, Tracks, Knows
  <2> QED  BY <1>1, <2>1 DEF Ends, MeansWhatItSays
<1> QED  BY <1>2, <1>3 DEF MInv

(* Where the lines set nothing, the defaults do.                           *)
LEMMA DefaultsMInv ==
  ASSUME MInv, IInv', Defaults
  PROVE  MInv'
<1>1. /\ file' = file /\ phase = "defaults" /\ state # "error" /\ phase' \in {"done", "failed"}
      /\ phase' = "done" <=> PowerOf2(config'["alignsize"])
      /\ \A i \in Item : config'[i] = IF config[i] = UNSET THEN DefVal[i] ELSE config[i]
  BY DEF Defaults, WithDefaults, MInv, Ends
<1>2. ASSUME NEW f, Knows(f, state, config), NEW i \in Item
      PROVE  config'[i] = Says(f, i)
  <2>1. config[i] = Read(f, i)
    BY <1>1, <1>2 DEF Knows
  <2>2. CASE LinesFor(f, i) = {}
    BY <1>1, <2>1, <2>2 DEF Read, Says
  <2>3. CASE LinesFor(f, i) # {}
    <3> DEFINE last == CHOOSE j \in LinesFor(f, i) : \A k \in LinesFor(f, i) : k <= j
    <3>1. last \in LinesFor(f, i)
      BY <1>2, <2>3 DEF Knows, HasLast
    <3>2. Read(f, i) = SetTo(i, f[last].value) /\ Says(f, i) = SetTo(i, f[last].value)
      BY <2>3 DEF Read, Says
    <3> HIDE DEF last
    <3>3. f[last] \in Piece /\ Accepts(i, f[last].value)
      BY <1>2, <3>1 DEF LinesFor, Knows
    <3>4. SetTo(i, f[last].value) # UNSET
      BY <3>3, StoredTyped DEF Piece
    <3> QED  BY <1>1, <2>1, <3>2, <3>4
  <2> QED  BY <2>2, <2>3
<1>3. ASSUME Fits'
      PROVE  \E f \in Readings' :
               /\ phase' = "done" <=> WellFormed(f) /\ PowerOf2(Says(f, "alignsize"))
               /\ phase' = "done" => \A i \in Item : config'[i] = Says(f, i)
  <2>1. PICK f \in Readings' : Knows(f, state, config)
    BY <1>1, <1>3, SameFile DEF MInv, Tracks
  <2>2. WellFormed(f)
    <3>1. state \in {"section", "item"}
      BY <1>1 DEF MInv, IInv, TypeOK
    <3> QED  BY <2>1, <3>1 DEF Knows, WellFormed
  <2>3. \A i \in Item : config'[i] = Says(f, i)
    BY <1>2, <2>1
  <2> QED  BY <1>1, <2>2, <2>3 DEF Item, IntItem
<1>4. Ends'
  BY <1>1, <1>3 DEF Ends, MeansWhatItSays
<1>5. Tracks'
  BY <1>1 DEF Tracks
<1> QED  BY <1>4, <1>5 DEF MInv

LEMMA NextMInv ==
  ASSUME MInv, [Next]_vars
  PROVE  MInv'
<1>1. IInv'
  BY NextIInv DEF MInv
<1>2. ASSUME UNCHANGED vars  PROVE MInv'
  <2>1. file' = file /\ state' = state /\ config' = config /\ phase' = phase
    BY <1>2 DEF vars
  <2>2. Tracks' /\ Ends'
    BY <2>1, SameFile DEF MInv, Tracks, Ends, MeansWhatItSays
  <2> QED  BY <1>1, <2>2 DEF MInv
<1>3. ASSUME ReadFile \/ ReadNoFile \/ FileNotFound  PROVE MInv'
  <2>1. /\ file' = <<>> /\ state' = "section" /\ phase' \in {"reading", "defaults", "failed"}
        /\ config' = [i \in Item |-> UNSET]
    BY <1>3 DEF ReadFile, ReadNoFile, FileNotFound, Begin
  <2>2. NoFile'
    BY <2>1 DEF NoFile
  <2> QED  BY <1>1, <2>2, NoFileMInvNext
<1>4. ASSUME NEW piece \in Pieces, SkipPiece(piece)
      PROVE  MInv'
  <2>1. piece \in Cut(piece)
    BY DEF Cut
  <2> QED  BY <1>1, <1>4, <2>1, FgetsMInv DEF SkipPiece
<1>5. ASSUME NEW piece \in Pieces, ProcessSection(piece)
      PROVE  MInv'
  <2>1. PICK line \in Cut(piece) : state' = IF line.kind = "section" THEN "item" ELSE "error"
    BY <1>5 DEF ProcessSection
  <2> QED  BY <1>1, <1>5, <2>1, FgetsMInv DEF ProcessSection
<1>6. ASSUME NEW piece \in Pieces, ProcessItem(piece)
      PROVE  MInv'
  <2>1. PICK line \in Cut(piece) :
          /\ line.kind = "item"
          /\ config' = IF Accepts(line.item, line.value)
                       THEN [config EXCEPT ![line.item] = SetTo(line.item, line.value)]
                       ELSE config
    BY <1>6 DEF ProcessItem
  <2> QED  BY <1>1, <1>6, <2>1, FgetsMInv DEF ProcessItem
<1>7. ASSUME NEW piece \in Pieces, ProcessItemFails(piece)
      PROVE  MInv'
  <2>1. PICK line \in Cut(piece) : line.kind # "item"
    BY <1>7 DEF ProcessItemFails
  <2> QED  BY <1>1, <1>7, <2>1, FgetsMInv DEF ProcessItemFails
<1>8. ASSUME NEW c \in Own, OpenOwn(c)
      PROVE  MInv'
  <2>1. phase' = "own"
    BY <1>8 DEF OpenOwn
  <2>2. Tracks' /\ Ends'
    BY <2>1 DEF Tracks, Ends, MeansWhatItSays
  <2> QED  BY <1>1, <2>2 DEF MInv
<1> QED
  BY <1>1, <1>2, <1>3, <1>4, <1>5, <1>6, <1>7, <1>8, ReadDoneMInv, DefaultsMInv DEF Next

LEMMA MeaningInvariance == Spec => []MInv
<1>1. Init => MInv
  BY InitIInv, NoFileMInv DEF Init, NoFile
<1> QED  BY <1>1, NextMInv, PTL DEF Spec

(* A file of any length whose lines fit the buffer means what its lines    *)
(* say: for every item the last line for it that has a value of its type   *)
(* counts, or the default, and reading fails just if the file is not well  *)
(* formed or the alignment no power of two.  A last line without newline   *)
(* is taken as it is or without its last character.                        *)
THEOREM FilesMeanWhatTheySay == Spec => []MeansWhatItSays
<1>1. MInv => MeansWhatItSays  BY DEF MInv, Ends
<1> QED  BY <1>1, MeaningInvariance, PTL
=============================================================================
