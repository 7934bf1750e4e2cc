----------------------------- MODULE FrozenBoard -----------------------------
(***************************************************************************)
(* The board of a contest, and what a freeze hides of it.  From freeze_time *)
(* on, who may not edit the contest is shown a snapshot: the submissions    *)
(* before it, summed up by code of its own, and a question mark where one   *)
(* came later.  The rows in the database go on, and the page still reads    *)
(* them.                                                                    *)
(*                                                                         *)
(* All live participations start with the contest, and dates are counted    *)
(* from there.  A row is what the format makes of the submissions (see      *)
(* Scoreboard for when it is not).  The cells of other formats than default *)
(* and icpc are left out as long as nothing is frozen.                      *)
(***************************************************************************)
EXTENDS ContestFormats, Sequences
LOCAL INSTANCE SequencesExt

CONSTANTS Players,      \* participations: 1 .. their number
          Guests,       \* those that are virtual
          BoardFormats,
          Verdicts,     \* bound: cases of a grading
          Freezes,      \* bound: what freeze_time may be set to
          Recent,       \* two minutes
          MaxSent, MaxTime   \* bounds

ASSUME FrozenBoardAssumption ==
  /\ Players = 1 .. Cardinality(Players) /\ Guests \subseteq Players
  /\ BoardFormats \subseteq AllFormats /\ Freezes \subseteq Nat
  /\ Recent \in Nat /\ MaxSent \in Nat /\ MaxTime \in Nat

VARIABLES bformat, freeze_time, now,
          sent       \* the submissions, each in a participation

bvars == <<bformat, freeze_time, now, sent>>

Editor == 0                     \* a viewer who may edit the contest
Viewers == Players \cup {Editor}
Live == Players \ Guests
Unset == MaxTime + 1            \* no freeze_time, and no cutoff
Full(p) == Half * PointsOf[p]
is_frozen == freeze_time # Unset /\ freeze_time <= now

SubmissionsOf(u, subs) == {subs[i] : i \in {j \in DOMAIN subs : subs[j].who = u}}
Before(S, cutoff) == {s \in S : s.date < cutoff}
-----------------------------------------------------------------------------
(* The snapshot, and the row.                                              *)

Entry(points, time, extra) == [points |-> points, time |-> time, extra |-> extra]
PointsIn(data) == Total([p \in DOMAIN data |-> data[p].points], DOMAIN data)
TimesIn(data) ==
  LET scored == {p \in DOMAIN data : data[p].points > 0}
  IN  Total([p \in scored |-> data[p].time], scored)

\* format_data, as update_participation leaves it.
format_data(S) ==
  CASE bformat = "default" ->
         [p \in Attempted(S) |->
            LET last == Max(Dates(Of(S, p))) IN Entry(Best(S, p), last, CountTries(S, p, last, Best(S, p)))]
    [] bformat = "icpc" -> [p \in Attempted(S) |-> Entry(Best(S, p), FirstBest(S, p), Previous(S)[p])]
    [] OTHER -> <<>>

\* DefaultContestFormat.get_frozen_state, which every format but icpc inherits.
default_frozen(S) ==
  LET early == Before(S, freeze_time)
      last(p) == Max(Dates(Of(early, p)))
      data == [p \in Attempted(early) |->
                 Entry(Best(early, p), last(p), CountTries(early, p, last(p), Best(early, p)))]
  IN  [data |-> data, points |-> PointsIn(data), cumtime |-> AtLeastZero(TimesIn(data)), tiebreaker |-> 0]

\* ICPCContestFormat.get_frozen_state.
icpc_frozen(S) ==
  LET early == Before(S, freeze_time)
      best(p) == Best(early, p)
      time(p) == Min({s.date : s \in {t \in Of(early, p) : t.points = best(p)}})
      tried(p) == Before(Of(Judged(S), p), freeze_time)
      prev(p) == IF Penalty = 0 THEN 0
                 ELSE IF best(p) > 0 THEN Cardinality({s \in tried(p) : s.date <= time(p)}) - 1
                 ELSE Cardinality(tried(p))
      data == [p \in Attempted(early) |-> Entry(best(p), time(p), prev(p))]
      scored == {p \in DOMAIN data : data[p].points > 0}
      penalty == Penalty * Total([p \in scored |-> prev(p)], scored)
  IN  [data |-> data, points |-> PointsIn(data), cumtime |-> TimesIn(data) + penalty,
       tiebreaker |-> Latest({data[p].time : p \in scored})]

\* Broken: icpc freezes as the formats do that say nothing of it.
get_frozen_state_inherited(S) == default_frozen(S)
get_frozen_state(S) == IF bformat = "icpc" THEN icpc_frozen(S) ELSE default_frozen(S)
Pending(S) == {s.problem : s \in S \ Before(S, freeze_time)}

AsRow(result, data) ==
  [data |-> data, cumtime |-> result.cumtime, tiebreaker |-> result.tiebreaker,
   points |-> Half * result.score]
RowOf(S) == AsRow(UpdateParticipation(bformat, S), format_data(S))
-----------------------------------------------------------------------------
(* One row as it is shown.                                                 *)

\* Who got full points first, among the live participations; dates differ.
first_blood_map(subs, cutoff) ==
  LET full(p) == {s \in {subs[i] : i \in DOMAIN subs} :
                    /\ s.who \in Live /\ s.problem = p /\ s.date < cutoff
                    /\ PointsOf[p] > 0 /\ s.points >= Full(p)}
  IN  [p \in Problems |-> {s.who : s \in {t \in full(p) : \A r \in full(p) : t.date <= r.date}}]

solve_extra_classes(u, p, entry, subs, cutoff) ==
  IF PointsOf[p] = 0 \/ entry.points # Full(p) THEN {}
  ELSE {c \in {"first-blood", "recent-solve"} :
          /\ c = "first-blood" => u \in first_blood_map(subs, cutoff)[p]
          /\ c = "recent-solve" => entry.time < cutoff /\ now - entry.time <= Recent}

Empty == [kind |-> "empty"]
QuestionMark == [kind |-> "pending"]
Unreadable == [kind |-> "unreadable"]     \* ???: the data lack what the format shows
BestSolutionState(p, n) ==
  IF n = 0 THEN "failed-score" ELSE IF n = Full(p) THEN "full-score" ELSE "partial-score"

\* display_user_problem: default and icpc know of freezes; atcoder and ecoo find
\* neither a penalty nor a bonus in the data that default makes.
display_user_problem(u, p, data, pending, subs, cutoff) ==
  LET aware == bformat \in {"default", "icpc"}
  IN  IF aware /\ p \in pending THEN QuestionMark
      ELSE IF p \notin DOMAIN data THEN Empty
      ELSE IF bformat \in {"atcoder", "ecoo"} THEN Unreadable
      ELSE [kind |-> BestSolutionState(p, data[p].points), points |-> data[p].points,
            time |-> data[p].time, extra |-> IF aware THEN data[p].extra ELSE 0,
            classes |-> IF aware THEN solve_extra_classes(u, p, data[p], subs, cutoff) ELSE {}]

ShownRow(u, display, pending, subs, cutoff) ==
  [who |-> u, points |-> display.points, cumtime |-> display.cumtime, tiebreaker |-> display.tiebreaker,
   cells |-> [p \in Problems |-> display_user_problem(u, p, display.data, pending, subs, cutoff)]]
make_contest_ranking_profile(u, subs, can_see_frozen) ==
  LET S == SubmissionsOf(u, subs)
  IN  IF ~can_see_frozen /\ is_frozen
      THEN ShownRow(u, get_frozen_state(S), Pending(S), subs, freeze_time)
      ELSE ShownRow(u, RowOf(S), {}, subs, Unset)
-----------------------------------------------------------------------------
(* The pages.                                                              *)

StandsBefore(k, l) ==
  \/ k.points > l.points
  \/ k.points = l.points /\ k.cumtime < l.cumtime
  \/ k.points = l.points /\ k.cumtime = l.cumtime /\ k.tiebreaker < l.tiebreaker
IsLevel(k, l) == ~StandsBefore(k, l) /\ ~StandsBefore(l, k)

\* The rows come ordered as they are, and are sorted as they are shown.
\* Rows that are level in both come in any order.
SortedRows(shown, real) ==
  LET before(u, w) ==
        \/ StandsBefore(shown[u], shown[w])
        \/ /\ IsLevel(shown[u], shown[w])
           /\ StandsBefore(real[u], real[w]) \/ (IsLevel(real[u], real[w]) /\ u < w)
  IN  [i \in 1 .. Cardinality(Live) |-> shown[SetToSortSeq(Live, before)[i]]]
contest_ranking_list(subs, can_see_frozen) ==
  SortedRows([u \in Live |-> make_contest_ranking_profile(u, subs, can_see_frozen)],
             [u \in Live |-> RowOf(SubmissionsOf(u, subs))])

\* ranker: a row that is level with the one before it has its rank.
ranker_of(rows) ==
  [i \in DOMAIN rows |->
     [row |-> rows[i],
      rank |-> CHOOSE j \in 1 .. i : /\ \A k \in j .. i : IsLevel(rows[k], rows[i])
                                     /\ j > 1 => ~IsLevel(rows[j - 1], rows[i])]]

\* The ranking, with the viewer's own virtual participation above it.
get_contest_ranking_list(v, subs) ==
  LET sees == v = Editor
  IN  [users |-> ranker_of(contest_ranking_list(subs, sees)),
       own   |-> IF v \in Guests THEN {make_contest_ranking_profile(v, subs, sees)} ELSE {}]

\* The page of one user's participations, of which each has one.
ContestParticipationPage(v, u, subs) == make_contest_ranking_profile(u, subs, v = u \/ v = Editor)
-----------------------------------------------------------------------------
BoardInit ==
  /\ bformat \in BoardFormats /\ freeze_time = Unset /\ now = 1
  /\ sent = <<>>

Advance == now < MaxTime /\ now' = now + 1
Passes == Advance /\ UNCHANGED <<bformat, freeze_time, sent>>

Send(u, p) ==
  /\ Len(sent) < MaxSent /\ Advance
  /\ sent' = Append(sent, [who |-> u, problem |-> p, date |-> now, status |-> "QU", result |-> "NULL",
                           cases |-> <<>>, points |-> 0])
  /\ UNCHANGED <<bformat, freeze_time>>

GradeSent(i, cases) ==
  LET cp == cases[1] + cases[2]
  IN  /\ sent[i].status = "QU"
      /\ sent' = [sent EXCEPT ![i].status = "D", ![i].cases = cases,
                              ![i].result = IF cp = CaseTotal THEN "AC" ELSE "WA",
                              ![i].points = ContestPoints(sent[i].problem, cp)]
      /\ UNCHANGED <<bformat, freeze_time, now>>

FailSent(i) ==
  /\ sent[i].status = "QU"
  /\ sent' = [sent EXCEPT ![i].status = "CE", ![i].result = "CE"]
  /\ UNCHANGED <<bformat, freeze_time, now>>

\* The points stay until the new verdict.
RejudgeSent(i) ==
  /\ sent[i].status = "D"
  /\ sent' = [sent EXCEPT ![i].status = "QU", ![i].result = "NULL", ![i].cases = <<>>]
  /\ UNCHANGED <<bformat, freeze_time, now>>

\* The organizers set, move and clear freeze_time.
Freeze(t) ==
  /\ freeze_time # t /\ freeze_time' = t
  /\ UNCHANGED <<bformat, now, sent>>

BoardNext ==
  \/ Passes
  \/ \E u \in Players, p \in Problems : Send(u, p)
  \/ \E i \in DOMAIN sent : \E cases \in Verdicts : GradeSent(i, cases)
  \/ \E i \in DOMAIN sent : FailSent(i) \/ RejudgeSent(i)
  \/ \E t \in Freezes \cup {Unset} : Freeze(t)

BoardSpec == BoardInit /\ [][BoardNext]_bvars
-----------------------------------------------------------------------------
\* The same submissions, before what came of the late ones of users W.
Masked(W) ==
  [i \in DOMAIN sent |->
     IF sent[i].date >= freeze_time /\ sent[i].who \in W
     THEN [sent[i] EXCEPT !.status = "QU", !.result = "NULL", !.cases = <<>>, !.points = 0]
     ELSE sent[i]]

Elements(s) == {s[i] : i \in DOMAIN s}
Without(row, class) ==
  [row EXCEPT !.cells = [p \in Problems |-> IF "classes" \in DOMAIN @[p]
                                            THEN [@[p] EXCEPT !.classes = @ \ {class}] ELSE @[p]]]

\* While the board is frozen, nothing that it shows to whom may not edit the
\* contest depends on what came of a submission after the freeze: no rank, sum,
\* cell, number of attempts or first blood; nor does another user's page.  The
\* order of rows that are level does: they are read in the order of their true
\* scores.  One's own page tells one's own results, and only by a missing first
\* blood something of the others'.
NothingLeaks ==
  is_frozen =>
    \A v \in Players :
      LET board == get_contest_ranking_list(v, sent)
          masked == get_contest_ranking_list(v, Masked(Players))
      IN  /\ Elements(board.users) = Elements(masked.users) /\ board.own = masked.own
          /\ \A u \in Players \ {v} :
               ContestParticipationPage(v, u, sent) = ContestParticipationPage(v, u, Masked(Players))
          /\ Without(ContestParticipationPage(v, v, sent), "first-blood") =
               Without(ContestParticipationPage(v, v, Masked(Players \ {v})), "first-blood")

\* The frozen board of a default or icpc contest is the board that everybody
\* saw when it froze, with later gradings of earlier submissions taken in and
\* without the rounding of sums; in the other formats only the points are.
FreezeIsThen ==
  is_frozen =>
    \A u \in Live :
      LET early == Before(SubmissionsOf(u, sent), freeze_time)
          frozen == get_frozen_state(SubmissionsOf(u, sent))
          then == UpdateParticipation(bformat, early)
      IN  /\ bformat \in BestFormats => frozen.points \div Half = then.score
          /\ bformat \in {"default", "icpc"} =>
               /\ frozen.data = format_data(early)
               /\ frozen.cumtime = then.cumtime /\ frozen.tiebreaker = then.tiebreaker

\* On whatever board somebody sees, the first blood of a problem is at the live
\* participation that got full points first of what the board counts, at no
\* other and nowhere else, unless a question mark is there; and what pulses was
\* solved, and tried again in a default contest, within the last two minutes.
HighlightsAreTrue ==
  bformat \in {"default", "icpc"} =>
    \A v \in {Editor, 1}, p \in Problems :
      LET cutoff == IF v # Editor /\ is_frozen THEN freeze_time ELSE Unset
          cell == [u \in Live |-> make_contest_ranking_profile(u, sent, v = Editor).cells[p]]
          has(u, class) == "classes" \in DOMAIN cell[u] /\ class \in cell[u].classes
          full(u) == {s \in Of(Before(SubmissionsOf(u, sent), cutoff), p) : s.points = Full(p)}
          first == {u \in Live : full(u) # {} /\ \A w \in Live \ {u} : full(w) # {} =>
                                   Min(Dates(full(u))) < Min(Dates(full(w)))}
      IN  PointsOf[p] > 0 =>
            /\ {u \in Live : has(u, "first-blood")} = {u \in first : cell[u] # QuestionMark}
            /\ \A u \in Live : has(u, "recent-solve") =>
                 /\ full(u) # {}
                 /\ \E s \in IF bformat = "icpc" THEN full(u)
                            ELSE Of(Before(SubmissionsOf(u, sent), cutoff), p) : now - s.date <= Recent

\* Where no question mark is, the cells of a row add up to its sum.
CellsAddUp ==
  bformat \in {"default", "icpc"} =>
    \A v \in {Editor, 1}, u \in Live :
      LET row == make_contest_ranking_profile(u, sent, v = Editor)
          counted == {p \in Problems : "points" \in DOMAIN row.cells[p]}
      IN  QuestionMark \notin {row.cells[p] : p \in Problems}
          => Total([p \in counted |-> row.cells[p].points], counted) \div Half = row.points \div Half

FrozenBoardHolds == NothingLeaks /\ FreezeIsThen /\ HighlightsAreTrue /\ CellsAddUp
=============================================================================
