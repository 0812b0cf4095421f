----------------------------- MODULE MCSharing -----------------------------
(***************************************************************************)
(* Small instances of Sharing for TLC.                                     *)
(***************************************************************************)
EXTENDS Sharing

CONSTANTS p1, b1, b2

Conf(size, init, fits) == [size |-> size, init |-> init, fits |-> fits]

(* Two processes that agree on neither; one that comes back to the file at *)
(* another place is played by the other one.                               *)
MCPlaceOf == [p \in Proc |-> IF p = p1 THEN {[base |-> b1, fd |-> 3]}
                             ELSE {[base |-> b2, fd |-> 4]}]

(* Reuse a cache, make it anew, and make another one that is too small.    *)
MCConfig == {Conf(1, FALSE, TRUE), Conf(1, TRUE, TRUE), Conf(2, FALSE, FALSE)}

(* The steps that break a rule; the rule "forks", which every open of a    *)
(* cache that others have breaks, does not count.                          *)
Breach ==
  \E p \in Proc :
    \/ /\ Idle(p) /\ At(p, "stat")'
       /\ OpenBreaks(p, proc'[p].config, proc'[p].file) \ {"forks"} # {}
    \/ At(p, "map") /\ ~Idle(p)' /\ ~At(p, "map")' /\ MapBreaks(p) # {}
    \/ At(p, "ready") /\ Waiting(p)' /\ CallBreaks(p) # {}
    \/ At(p, "store") /\ At(p, "nested")'
    \/ At(p, "see") /\ At(p, "itself")'

(* Bound, as an action constraint: one such step in a behaviour, which may *)
(* break several rules at once.  No step of a call breaks a rule, so that  *)
(* the bound leaves fairness as it is, and liveness can be checked.        *)
OneBreach == Breach => broken \subseteq {"forks"}
=============================================================================
