------------------------------- MODULE Config -------------------------------
(***************************************************************************)
(* ccache_config.c: how a configuration file becomes cache_config and      *)
(* cache_align_size, the process wide variables that ccache_open2 lays out *)
(* a cache with and that ccache_allocate finds freeareas with.             *)
(*                                                                         *)
(* The file is read with fgets into a buffer of 50 characters, so what the *)
(* parser sees are pieces: a line with its newline, or, without one, the   *)
(* beginning of a line that is too long or the end of the file.  The last  *)
(* character of every piece is cut off, as if it were the newline.         *)
(***************************************************************************)
EXTENDS Integers, Sequences

CONSTANTS
  Pieces,      \* the pieces files are made of
  MaxPieces,   \* pieces in a file
  Own,         \* configurations a caller gives to ccache_open2
  UNSET,       \* CCACHE_ITEM_UNSET, -1, which no file can set
  EMPTY,       \* a value without characters
  TEXT,        \* a value that is not a number
  SHORT,       \* the same without its last character
  TextCut      \* what may be left of a value that is not a number

(* ccache_conf_items: the items and their default values.                  *)
DefVal ==
  [mapfile |-> TEXT, min_size |-> 16, max_size |-> 32, hashitem |-> 1000,
   datasize |-> 1000000, prealloc_num |-> 100, alignsize |-> 8, init |-> 1]

IntItem == {"min_size", "max_size", "hashitem", "datasize", "prealloc_num", "alignsize"}
Item    == IntItem \cup {"mapfile", "init"}
Value   == Nat \cup {EMPTY, TEXT, SHORT}

(* kind: "blank" is a newline only, "other" anything the parser does not   *)
(* know, spaces included; item, value: of the kind "item"; newline: whether *)
(* the piece has one.                                                      *)
Piece == [kind : {"blank", "comment", "section", "item", "other"},
          item : Item, value : Value, newline : BOOLEAN]

ASSUME ConfigAssumption ==
  /\ Pieces \subseteq Piece /\ MaxPieces \in Nat
  /\ Own \subseteq [Item -> Value] /\ TextCut \subseteq Value
  /\ {UNSET, EMPTY, TEXT, SHORT} \cap Int = {}
  /\ UNSET \notin {EMPTY, TEXT, SHORT} /\ EMPTY \notin {TEXT, SHORT}

VARIABLES
  file,     \* the file as far as fgets has returned it
  state,    \* the variable state of ccache_read_config
  phase,    \* where ccache_init_config is, or what its end was
  config,   \* cache_config
  align     \* cache_align_size

vars == <<file, state, phase, config, align>>

-----------------------------------------------------------------------------
(* Helpers.                                                                *)

(* ccache_ispowerof2, for 32 bits                                          *)
PowerOf2(n) == \E k \in 0 .. 30 : n = 2 ^ k

(* What a value may be without its last character: a text can become a     *)
(* number, and of nothing, the character lost is the equals sign.          *)
Shorter(v) ==
  IF v \in Nat THEN {IF v < 10 THEN EMPTY ELSE v \div 10}
  ELSE IF v = EMPTY THEN {} ELSE TextCut

(* buffer[len - 1]= '\0', and ccache_string_trim: what may be left of a    *)
(* piece.  Without a newline it loses a blank at its end, or a character   *)
(* of its value, of the section, or the one that makes it an item.         *)
Cut(piece) ==
  IF piece.newline THEN {piece}
  ELSE {piece}
       \cup {[piece EXCEPT !.value = v] : v \in Shorter(piece.value)}
       \cup IF piece.kind = "section" \/ (piece.kind = "item" /\ piece.value = EMPTY)
            THEN {[piece EXCEPT !.kind = "other"]} ELSE {}

(* Whether the set function of item i takes v: it does not report to       *)
(* anyone when it does not.                                                *)
Accepts(i, v) ==
  v \in IF i = "mapfile" THEN Value ELSE IF i = "init" THEN {0, 1} ELSE Nat \cup {EMPTY}

(* Mutant of SetTo: the number is left as it is in the file.               *)
SetToRead(i, v) == v

(* What it sets the item to: atoi of nothing is 0.                         *)
SetTo(i, v) == IF i \in IntItem /\ v = EMPTY THEN 0 ELSE v

Skipped(piece) == piece.kind \in {"blank", "comment"}

-----------------------------------------------------------------------------
Init ==
  /\ file = <<>> /\ state = "section" /\ phase = "idle"
  /\ config = [i \in Item |-> UNSET]
  /\ align = 0

(* ccache_init_config begins: all items are unset.                         *)
Begin(next) ==
  /\ phase \notin {"reading", "defaults"}
  /\ file' = <<>> /\ state' = "section"
  /\ phase' = next
  /\ config' = [i \in Item |-> UNSET]
  /\ UNCHANGED align

ReadFile     == Begin("reading")
ReadNoFile   == Begin("defaults")  \* called with NULL
FileNotFound == Begin("failed")    \* fopen fails

(* Of the lines that are too long those are considered that are comments,  *)
(* unknown, or have a long text as their value.                            *)
LongLine(piece) == piece.kind \in {"comment", "other"} \/ piece.value = TEXT

(* fgets returns one more piece.  After one without its newline there is   *)
(* the rest of the line, or nothing.                                       *)
Fgets(piece) ==
  /\ phase = "reading" /\ state # "error"
  /\ Len(file) < MaxPieces
  /\ \A j \in DOMAIN file : file[j].newline \/ LongLine(file[j])
  /\ file' = Append(file, piece)
  /\ UNCHANGED <<phase, align>>

SkipPiece(piece) ==
  /\ Fgets(piece)
  /\ Skipped(piece)
  /\ UNCHANGED <<state, config>>

(* ccache_process_section                                                  *)
ProcessSection(piece) ==
  /\ Fgets(piece)
  /\ ~Skipped(piece) /\ state = "section"
  /\ \E line \in Cut(piece) :
       state' = IF line.kind = "section" THEN "item" ELSE "error"
  /\ UNCHANGED config

(* Mutant of ProcessItem: the first line for an item counts.               *)
ProcessItemFirst(piece) ==
  /\ Fgets(piece)
  /\ ~Skipped(piece) /\ state = "item"
  /\ \E line \in Cut(piece) :
       /\ line.kind = "item"
       /\ config' = IF Accepts(line.item, line.value) /\ config[line.item] = UNSET
                    THEN [config EXCEPT ![line.item] = SetTo(line.item, line.value)]
                    ELSE config
  /\ UNCHANGED state

(* ccache_process_item, a line with the name of an item                    *)
ProcessItem(piece) ==
  /\ Fgets(piece)
  /\ ~Skipped(piece) /\ state = "item"
  /\ \E line \in Cut(piece) :
       /\ line.kind = "item"
       /\ config' = IF Accepts(line.item, line.value)
                    THEN [config EXCEPT ![line.item] = SetTo(line.item, line.value)]
                    ELSE config
  /\ UNCHANGED state

(* and any other line                                                      *)
ProcessItemFails(piece) ==
  /\ Fgets(piece)
  /\ ~Skipped(piece) /\ state = "item"
  /\ \E line \in Cut(piece) : line.kind # "item"
  /\ state' = "error"
  /\ UNCHANGED config

(* The loop of ccache_read_config ends, at the end of the file or after an *)
(* error.                                                                  *)
ReadDone ==
  /\ phase = "reading"
  /\ phase' = IF state = "error" THEN "failed" ELSE "defaults"
  /\ UNCHANGED <<file, state, config, align>>

WithDefaults == [i \in Item |-> IF config[i] = UNSET THEN DefVal[i] ELSE config[i]]

(* ccache_init_defconfig(0)                                                *)
Defaults ==
  /\ phase = "defaults"
  /\ config' = WithDefaults
  /\ IF PowerOf2(config'["alignsize"])
     THEN phase' = "done" /\ align' = config'["alignsize"]
     ELSE phase' = "failed" /\ align' = align
  /\ UNCHANGED <<file, state>>

(* ccache_open2 with a configuration of the caller, which nobody checks;   *)
(* cache_align_size stays what it was, 0 in a new process.                 *)
OpenOwn(c) ==
  /\ phase \notin {"reading", "defaults"}
  /\ config' = c
  /\ phase' = "own"
  /\ UNCHANGED <<file, state, align>>

Next ==
  \/ ReadFile \/ ReadNoFile \/ FileNotFound
  \/ \E piece \in Pieces :
       \/ SkipPiece(piece) \/ ProcessSection(piece)
       \/ ProcessItem(piece) \/ ProcessItemFails(piece)
  \/ ReadDone \/ Defaults
  \/ \E c \in Own : OpenOwn(c)

Spec == Init /\ [][Next]_vars

-----------------------------------------------------------------------------
(* Properties.                                                             *)

(* Type invariant.                                                         *)
TypeOK ==
  /\ file \in Seq(Piece)
  /\ state \in {"section", "item", "error"}
  /\ phase \in {"idle", "reading", "defaults", "done", "failed", "own"}
  /\ \A i \in Item : config[i] = UNSET \/ Accepts(i, config[i]) \/ phase = "own"
  /\ \A i \in IntItem : config[i] # EMPTY \/ phase = "own"
  /\ align \in Nat

(* What a reader takes a file f to say of an item: its last line that      *)
(* names the item with a value of its type, or else the default.           *)
LinesFor(f, i) ==
  {j \in DOMAIN f : f[j].kind = "item" /\ f[j].item = i /\ Accepts(i, f[j].value)}

Says(f, i) ==
  IF LinesFor(f, i) = {} THEN DefVal[i]
  ELSE LET last == CHOOSE j \in LinesFor(f, i) : \A k \in LinesFor(f, i) : k <= j
       IN  SetTo(i, f[last].value)

(* The section first, then items, with comments and blank lines anywhere.  *)
WellFormed(f) ==
  \A j \in DOMAIN f : ~Skipped(f[j]) =>
    IF \A k \in 1 .. j - 1 : Skipped(f[k]) THEN f[j].kind = "section"
    ELSE f[j].kind = "item"

(* Its lines fit the buffer: only the last one may lack its newline.  Then *)
(* it may have been meant with or without its last character.              *)
Fits == \A j \in 1 .. Len(file) - 1 : file[j].newline

Readings ==
  IF file = <<>> THEN {file}
  ELSE {[file EXCEPT ![Len(file)] = line] : line \in Cut(file[Len(file)])}

(* A file whose lines fit the buffer means what it says: reading it fails  *)
(* just if it is not well formed or the alignment is not a power of two,   *)
(* and otherwise the result is what its lines say.  A last line without    *)
(* its newline loses no more than its last character, and spoils no other. *)
MeansWhatItSays ==
  Fits /\ (phase = "done" \/ (phase = "failed" /\ file # <<>>)) =>
    \E f \in Readings :
      /\ phase = "done" <=> WellFormed(f) /\ PowerOf2(Says(f, "alignsize"))
      /\ phase = "done" => \A i \in Item : config[i] = Says(f, i)
=============================================================================
