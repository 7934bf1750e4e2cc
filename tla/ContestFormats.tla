---------------------------- MODULE ContestFormats ----------------------------
(***************************************************************************)
(* What each contest format makes of the submissions of one participation: *)
(* update_participation of the six registered formats.  Pure operators.    *)
(*                                                                         *)
(* A submission is a record; its date is a number counted from the start   *)
(* of the participation.  Points are counted in halves, so that a score of *)
(* one and a half can be told from what an integer column keeps of it.     *)
(***************************************************************************)
EXTENDS Integers, FiniteSets, FiniteSetsExt

CONSTANTS Problems,
          PointsOf,      \* [Problems -> Nat]: whole points of a contest problem
          Partial,       \* the contest problems with partial points
          Penalty,       \* config of icpc and atcoder
          CumTime,       \* config of ioi, ioi16 and ecoo
          FirstBonus, TimeBonus,  \* config of ecoo, in whole points and time per point
          EndTime        \* end of the participation

Half == 2
CaseTotal == 2           \* two batches of one point each
Batches == 1 .. CaseTotal

\* Submission.update_contest; cp is case_points.
ContestPoints(p, cp) ==
  LET scaled == (Half * cp * PointsOf[p]) \div CaseTotal
  IN  IF p \notin Partial /\ scaled # Half * PointsOf[p] THEN 0 ELSE scaled

Of(S, p) == {s \in S : s.problem = p}
Attempted(S) == {s.problem : s \in S}
Dates(S) == {s.date : s \in S}
Best(S, p) == Max({s.points : s \in Of(S, p)})
Solved(S) == {p \in Attempted(S) : Best(S, p) > 0}
\* The date of the first submission with the best points.
FirstBest(S, p) == Min(Dates({s \in Of(S, p) : s.points = Best(S, p)}))
Judged(S) == {s \in S : s.result \notin {"NULL", "IE", "CE"}}
AtLeastZero(n) == IF n < 0 THEN 0 ELSE n
Latest(D) == Max(D \cup {0})
Total(f, S) == MapThenSumSet(LAMBDA p : f[p], S)

\* score is an integer column: Django keeps int() of the sum.
Scored(halves, cumtime, tiebreaker, tries) ==
  [score |-> halves \div Half, cumtime |-> cumtime, tiebreaker |-> tiebreaker,
   tries |-> [p \in Problems |-> IF p \in DOMAIN tries THEN tries[p] ELSE 0]]

BestTotal(S) == Total([p \in Attempted(S) |-> Best(S, p)], Attempted(S))
NoTries == [p \in {} |-> 0]

\* _count_tries, and prev of icpc and atcoder.
CountTries(S, p, time, best) ==
  IF best > 0 THEN Cardinality({s \in Of(Judged(S), p) : s.date <= time}) - 1
              ELSE Cardinality(Of(Judged(S), p))
Previous(S) ==
  [p \in Attempted(S) |-> IF Penalty = 0 THEN 0
                          ELSE CountTries(S, p, FirstBest(S, p), Best(S, p))]
PenaltyTime(S) == Penalty * Total(Previous(S), Solved(S))

\* The time of a problem is that of its last submission of all.
Default(S) ==
  LET last == [p \in Attempted(S) |-> Max(Dates(Of(S, p)))]
  IN  Scored(BestTotal(S), AtLeastZero(Total(last, Solved(S))), 0,
             [p \in Attempted(S) |-> CountTries(S, p, last[p], Best(S, p))])

Icpc(S) ==
  LET first == [p \in Attempted(S) |-> FirstBest(S, p)]
  IN  Scored(BestTotal(S), Total(first, Solved(S)) + PenaltyTime(S),
             Latest({first[p] : p \in Solved(S)}), Previous(S))

AtCoder(S) ==
  Scored(BestTotal(S), Latest({FirstBest(S, p) : p \in Solved(S)}) + PenaltyTime(S), 0,
         Previous(S))

LegacyIoi(S) ==
  LET first == [p \in Attempted(S) |-> FirstBest(S, p)]
  IN  Scored(BestTotal(S),
             IF CumTime THEN AtLeastZero(Total(first, Solved(S))) ELSE 0, 0, NoTries)

\* The best of every batch over all graded submissions; points of the test
\* cases themselves, not scaled to the contest problem.
Ioi(S) ==
  LET graded == {s \in S : s.status = "D" /\ s.cases # <<>>}
      best(p, b) == Max({s.cases[b] : s \in Of(graded, p)})
      first(p, b) == Min(Dates({s \in Of(graded, p) : s.cases[b] = best(p, b)}))
      points == [p \in Attempted(graded) |-> MapThenSumSet(LAMBDA b : best(p, b), Batches)]
      time == [p \in Attempted(graded) |-> Max({first(p, b) : b \in Batches})]
      solved == {p \in Attempted(graded) : points[p] > 0}
  IN  Scored(Half * Total(points, Attempted(graded)),
             IF CumTime THEN AtLeastZero(Total(time, solved)) ELSE 0, 0, NoTries)

\* The last submission counts; one that is not graded yet does too.
Ecoo(S) ==
  LET valid == {s \in S : s.result \notin {"IE", "CE"}}
      last(p) == CHOOSE s \in Of(valid, p) : \A t \in Of(valid, p) : t.date <= s.date
      first_ac(p) == IF Cardinality(Of(valid, p)) = 1 /\ last(p).points = Half * PointsOf[p]
                     THEN FirstBonus ELSE 0
      early(p) == IF TimeBonus > 0 THEN (EndTime - last(p).date) \div TimeBonus ELSE 0
      bonus(p) == IF last(p).points > 0 THEN Half * (first_ac(p) + early(p)) ELSE 0
      points == [p \in Attempted(valid) |-> last(p).points + bonus(p)]
      time == [p \in Attempted(valid) |-> last(p).date]
  IN  Scored(Total(points, Attempted(valid)),
             IF CumTime THEN Total(time, Attempted(valid)) ELSE 0, 0, NoTries)

AllFormats == {"default", "icpc", "atcoder", "ioi", "ioi16", "ecoo"}
\* The formats whose score is the sum of the best points of each problem.
BestFormats == {"default", "icpc", "atcoder", "ioi"}

UpdateParticipation(format, S) ==
  CASE format = "default" -> Default(S)
    [] format = "icpc"    -> Icpc(S)
    [] format = "atcoder" -> AtCoder(S)
    [] format = "ioi"     -> LegacyIoi(S)
    [] format = "ioi16"   -> Ioi(S)
    [] format = "ecoo"    -> Ecoo(S)
=============================================================================
