----------------------------- MODULE MCScoreboard -----------------------------
(***************************************************************************)
(* Instances of Scoreboard for TLC.  p1 is worth one point, half for each  *)
(* of its cases; p2 is worth the points of its cases.                      *)
(***************************************************************************)
EXTENDS Scoreboard, TLC

CONSTANTS w1, w2, p1, p2

Each == {<<0, 0>>, <<1, 0>>, <<0, 1>>, <<1, 1>>}
MCPointsOf == [p \in Problems |-> IF p = p1 THEN 1 ELSE 2]
MCMayBeFor == [i \in 1 .. MaxSubs |-> IF i = 1 THEN {p1} ELSE Problems]
MCAnyProblem == [i \in 1 .. MaxSubs |-> Problems]
Symmetry == Permutations(Workers)
Some == {<<0, 1>>, <<1, 1>>}
=============================================================================
