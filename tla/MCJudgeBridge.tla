---------------------------- MODULE MCJudgeBridge ----------------------------
(***************************************************************************)
(* Instances of JudgeBridge for TLC: up to two submissions that need the   *)
(* same problem, up to two web processes, and two connections of a judge   *)
(* with one name, so that an old connection and a new one overlap.         *)
(***************************************************************************)
EXTENDS JudgeBridge, TLC

CONSTANTS s1, s2, c1, c2, n1, n2, p1, w1, w2

MCSameName == [c \in Conns |-> n1]
MCProblemOf == [s \in Subs |-> p1]
AllDeclared == {Problems}
Symmetry == Permutations(Subs) \cup Permutations(Conns) \cup Permutations(Webs)
AnyOnly == {AnyJudge}
OnlySent == {"sent"}
AllOutcomes == {"sent", "early", "late"}
=============================================================================
