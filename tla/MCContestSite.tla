---------------------------- MODULE MCContestSite ----------------------------
(***************************************************************************)
(* Contests of one user, the ratings of all and the board of a contest, in *)
(* one run.  They have no row in common, so that the order of their steps  *)
(* makes no difference: one moves, the others are at rest.                 *)
(***************************************************************************)
EXTENDS ContestLife, Ratings, FrozenBoard

CONSTANTS w1, w2, ua, ub

\* The second contest has a ceiling.
MCFloor == [c \in Rateable |-> NoLimit]
MCCeiling == [c \in Rateable |-> IF c = 2 THEN 0 ELSE NoLimit]

\* Of the problems of the board, only the second has partial points.
MCPointsOf == [p \in Problems |-> IF p = 1 THEN 1 ELSE 3]
MCVerdicts == {<<0, 0>>, <<1, 0>>, <<1, 1>>}

VARIABLE part

RatingsRest == RatingsInit /\ \A c \in Rateable : \A u \in Contestants : score[c][u] = 0
BoardRest == BoardInit /\ bformat = "default"

SiteInit ==
  /\ part \in {"contest life", "ratings", "board"}
  /\ Init
  /\ IF part = "ratings" THEN RatingsInit ELSE RatingsRest
  /\ IF part = "board" THEN BoardInit ELSE BoardRest

SiteNext ==
  /\ \/ part = "contest life" /\ Next /\ UNCHANGED <<rvars, bvars>>
     \/ part = "ratings" /\ RatingsNext /\ UNCHANGED <<vars, bvars>>
     \/ part = "board" /\ BoardNext /\ UNCHANGED <<vars, rvars>>
  /\ UNCHANGED part

SiteSpec == SiteInit /\ [][SiteNext]_<<part, vars, rvars, bvars>> /\ Fairness

\* Ratings are as of the contests that they are made of, and nobody who must not
\* learns from a frozen board what came of the submissions after the freeze.
\* Each is judged where it moves: at rest it is as it begins.
StandingsHold ==
  /\ part = "ratings" => RatingsAreRight
  /\ part = "board" => FrozenBoardHolds
=============================================================================
