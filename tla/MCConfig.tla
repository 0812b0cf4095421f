----------------------------- MODULE MCConfig -----------------------------
(***************************************************************************)
(* Small instances of Config for TLC.                                      *)
(***************************************************************************)
EXTENDS Config

Line(kind)       == [kind |-> kind, item |-> "init", value |-> EMPTY, newline |-> TRUE]
LineFor(i, v)    == [kind |-> "item", item |-> i, value |-> v, newline |-> TRUE]
Unended(piece)   == [piece EXCEPT !.newline = FALSE]

MCPieces ==
  LET lines == {Line(k) : k \in {"comment", "section", "other"}}
               \cup {LineFor("alignsize", v) : v \in {16, 12, EMPTY, TEXT}}
               \cup {LineFor("init", v) : v \in {0, 10}}
               \cup {LineFor("hashitem", 0), LineFor("mapfile", TEXT)}
  IN  {Line("blank")} \cup lines \cup {Unended(l) : l \in lines}

(* The rest of a text: a number, good or bad, nothing, or a text.          *)
MCTextCut == {16, 12, 1, EMPTY, SHORT}

MCOwn == {[DefVal EXCEPT !.alignsize = 12], DefVal}
=============================================================================
