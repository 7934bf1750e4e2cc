------------------------------ MODULE MCComments ------------------------------
(***************************************************************************)
(* Instances of Comments for TLC: ann has two requests under way, and is   *)
(* the contestant.                                                         *)
(***************************************************************************)
EXTENDS Comments, TLC

CONSTANTS w1, w2, i1, i2, c1, c2, h1, h2, h3, ann, bob, topic

MCVoter == [h \in Visitors |-> IF h = h3 THEN bob ELSE ann]
Symmetry == Permutations(Procs) \cup Permutations(Ids) \cup Permutations(Cases)
=============================================================================
