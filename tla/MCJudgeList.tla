----------------------------- MODULE MCJudgeList -----------------------------
(***************************************************************************)
(* Instances of JudgeList for TLC: two judges with a name each, two kinds  *)
(* of problem, and two submissions that need a kind each or three of which *)
(* two need the same.                                                      *)
(***************************************************************************)
EXTENDS JudgeList, TLC

CONSTANTS s1, s2, s3, c1, c2, n1, n2, p1, p2

MCNameOf == c1 :> n1 @@ c2 :> n2
MCProblemOf == s1 :> p1 @@ s2 :> p1 @@ s3 :> p2
MCProblemOf2 == s1 :> p1 @@ s2 :> p2
AllOutcomes == {"sent", "early", "late"}
OnlySent == {"sent"}
=============================================================================
