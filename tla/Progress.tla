------------------------------ MODULE Progress ------------------------------
(***************************************************************************)
(* What the site makes of the submissions of one user: the sums of the     *)
(* profile, the list of best submissions and the breakdown of points, the  *)
(* marks in lists of problems, in tasks and in contests, and what          *)
(* hide_solved hides.  Each is a query of its own; the sums are kept in    *)
(* the profile and the sets behind the marks for a day in the cache, and   *)
(* verdicts, deletions and rescores renew some of them.                    *)
(*                                                                         *)
(* Here every such handler is one step, and the problems stay in their     *)
(* groups (see Standing for threads that overlap).  Points are counted in  *)
(* halves; the weights of the breakdown are left out.                      *)
(***************************************************************************)
EXTENDS Integers, Sequences, FiniteSets
Sets == INSTANCE FiniteSetsExt
Seqs == INSTANCE SequencesExt

CONSTANTS Exercises,    \* problems, numbered as they were made
          Sql,          \* those of the group sql
          Divisible,    \* those with partial points
          Exam,         \* those of a contest of the user, worth a point there
          Handouts,     \* tasks that may exist
          NoEntry,
          PageLength, Entries,   \* of the breakdown: ten, and DMOJ_PP_ENTRIES
          MaxWorks, MaxDeeds     \* bounds

ASSUME ProgressAssumption ==
  /\ Exercises \subseteq Nat /\ Sql \cup Divisible \cup Exam \subseteq Exercises
  /\ PageLength \in Nat \ {0} /\ Entries \in Nat /\ MaxWorks \in Nat /\ MaxDeeds \in Nat

VARIABLES works,      \* the submissions
          price,      \* Problem.points
          public,     \* is_public
          rescores,   \* problems that celery will rescore
          standing,   \* the sums of the profile
          entry,      \* the cache
          in_contest,
          handout,    \* the problems of each task, in the order they were added
          deeds,
          overlooked, \* a problem was published or hidden without a rescore
          unsummed,   \* such a change, a rescore or a deletion was after the last verdict of an sql problem
          erased      \* a submission of the contest was deleted under the contest's entries

wvars == <<works, price, public, rescores, standing, entry, in_contest, handout, deeds, overlooked, unsummed, erased>>

Null == -1
Full(p) == 2 * price[p]
Rows == {works[i] : i \in DOMAIN works}
To(rows, p) == {w \in rows : w.exercise = p}
SumOf(f) == Sets!MapThenSumSet(LAMBDA p : f[p], DOMAIN f)
\* on_grading_end and rescore_problem.
PointsFor(p, cases) == IF p \notin Divisible /\ cases # 2 THEN 0 ELSE cases * price[p]
\* update_contest.
contest_points(w) == IF w.exercise \notin Divisible /\ w.cases # 2 THEN 0 ELSE w.cases
-----------------------------------------------------------------------------
(* The queries.                                                            *)

Granted(rows, p) == {w.points : w \in To(rows, p)} \ {Null}
max_points_of(rows, S) == [p \in {q \in S : Granted(rows, q) # {} /\ Sets!Max(Granted(rows, q)) > 0} |-> Sets!Max(Granted(rows, p))]

\* Broken: the problems of the group sql count too.
calculate_points_of_all(rows) ==
  [points |-> SumOf(max_points_of(rows, public)), problem_count |-> Cardinality(DOMAIN max_points_of(rows, public)),
   accepted |-> Cardinality({p \in public : \E w \in To(rows, p) : w.result = "AC"})]

calculate_points(rows) ==
  LET data == max_points_of(rows, public \ Sql)
  IN  [points |-> SumOf(data), problem_count |-> Cardinality(DOMAIN data),
       accepted |-> Cardinality({p \in public \ Sql : \E w \in To(rows, p) : w.result = "AC"})]

calculate_sql_points(rows) ==
  LET data == max_points_of(rows, public \cap Sql)
  IN  [sql_points |-> SumOf(data), sql_problem_count |-> Cardinality(DOMAIN data)]

Keys == {"user_complete", "user_attempted", "contest_complete", "contest_attempted"}
UserKeys == {"user_complete", "user_attempted"}
ContestKeys == Keys \ UserKeys

user_completed_ids == {w.exercise : w \in {v \in Rows : v.result = "AC" /\ v.points = Full(v.exercise)}}
user_attempted_ids == {p \in Exercises : Granted(Rows, p) # {} /\ Sets!Max(Granted(Rows, p)) < Full(p)}
OfContest == {w \in Rows : w.contest}
contest_completed_ids == {w.exercise : w \in {v \in OfContest : v.result = "AC" /\ contest_points(v) = 2}}
contest_attempted_ids ==
  {p \in Exam : To(OfContest, p) # {} /\ \A w \in To(OfContest, p) : contest_points(w) < 2}

Query(key) ==
  CASE key = "user_complete"     -> user_completed_ids
    [] key = "user_attempted"    -> user_attempted_ids
    [] key = "contest_complete"  -> contest_completed_ids
    [] key = "contest_attempted" -> contest_attempted_ids
Got(key) == IF entry[key] = NoEntry THEN Query(key) ELSE entry[key]

\* The profile's page.
best_submissions(hide_solved) ==
  LET counted == {w \in Rows : w.points > 0 /\ w.exercise \in public}
      hidden == IF ~hide_solved THEN {} ELSE Got(IF in_contest THEN "contest_complete" ELSE "user_complete")
  IN  [p \in {w.exercise : w \in counted} \ hidden |-> Sets!Max({w.points : w \in To(counted, p)})]

\* The breakdown, from start on, and whether to ask for more.  Equal points are in the
\* order of their submissions there, here of the problems.
PPTable ==
  LET best == max_points_of(Rows, public)
      before(p, q) == best[p] > best[q] \/ (best[p] = best[q] /\ p < q)
  IN  Seqs!SetToSortSeq(DOMAIN best, before)
least_of(m, n) == IF m < n THEN m ELSE n
get_pp_breakdown(table, start, end) ==
  LET data == SubSeq(table, start + 1, least_of(Len(table), end + 1))
  IN  [rows |-> SubSeq(data, 1, least_of(Len(data), least_of(end, Entries) - start)),
       has_more |-> end < least_of(Entries, start + Len(data))]

\* The marks of a problem.
Mark(p, completed, attempted) ==
  IF p \in completed THEN "solved" ELSE IF p \in attempted THEN "attempted" ELSE "none"
OrganizationMark(p) == Mark(p, Got("user_complete"), Got("user_attempted"))
ContestMark(p) == Mark(p, Got("contest_complete"), Got("contest_attempted"))
ListMark(p) == IF in_contest THEN ContestMark(p) ELSE OrganizationMark(p)
TaskMark(p) ==
  Mark(p, Got(IF in_contest THEN "contest_complete" ELSE "user_complete"), Got("user_attempted"))

solve_status(p) ==
  IF \E w \in To(Rows, p) : w.result = "AC" THEN "solved"
  ELSE IF To(Rows, p) # {} THEN "attempted" ELSE "unsolved"

\* Without the submissions, hide_solved asks for the points only.
hidden_as_solved == {w.exercise : w \in {v \in Rows : v.points = Full(v.exercise)}}

\* Tasks: which of the two tabs, the order on its page, and its row of the class.
database_task_ids ==
  {t \in Handouts : LET total == Len(handout[t])
                        sql == Cardinality({i \in 1 .. total : handout[t][i] \in Sql})
                    IN  total > 0 /\ total = sql}
task_problems(t) ==
  IF handout[t] # <<>> /\ \A i \in DOMAIN handout[t] : handout[t][i] \in Sql
  THEN handout[t] ELSE Seqs!SetToSortSeq(Seqs!ToSet(handout[t]), <)
\* Of no problems at all it divides by zero.
percent_completed(t) ==
  (100 * Cardinality({i \in DOMAIN handout[t] : handout[t][i] \in Got("user_complete")})) \div Len(handout[t])
-----------------------------------------------------------------------------
Orders(S) == {s \in [1 .. Cardinality(S) -> S] : \A i, j \in DOMAIN s : i # j => s[i] # s[j]}

ProgressInit ==
  /\ works = <<>> /\ price = [p \in Exercises |-> 1] /\ public = Exercises /\ rescores = {}
  /\ standing = [points |-> 0, problem_count |-> 0, accepted |-> 0, sql_points |-> 0, sql_problem_count |-> 0]
  /\ entry = [k \in Keys |-> NoEntry] /\ in_contest = FALSE
  /\ handout \in [Handouts -> {<<>>}] /\ deeds = 0
  /\ overlooked = FALSE /\ unsummed = FALSE /\ erased = FALSE

Deed == deeds < MaxDeeds /\ deeds' = deeds + 1
Forgotten(keys) == entry' = [k \in Keys |-> IF k \in keys THEN NoEntry ELSE entry[k]]
Sums(points, sql) ==
  [points |-> points.points, problem_count |-> points.problem_count, accepted |-> points.accepted,
   sql_points |-> sql.sql_points, sql_problem_count |-> sql.sql_problem_count]
\* The sums of the other kind stay.
Recounted(rows) == Sums(calculate_points(rows), standing)
RowsOf(seq) == {seq[i] : i \in DOMAIN seq}

Hand(p) ==
  /\ Deed /\ Len(works) < MaxWorks
  /\ works' = Append(works, [exercise |-> p, result |-> "none", cases |-> 0, graded |-> FALSE,
                             points |-> Null, contest |-> in_contest /\ p \in Exam])
  /\ UNCHANGED <<price, public, rescores, standing, entry, in_contest, handout, overlooked, unsummed, erased>>

\* on_grading_end.  A case that fails may be worth nothing, and one that is passed
\* bring less than all its points.
GradeWork(i, cases, result) ==
  LET w == works[i]
      p == w.exercise
      graded == [works EXCEPT ![i].result = result, ![i].cases = cases, ![i].graded = TRUE,
                              ![i].points = PointsFor(p, cases)]
      points == calculate_points(RowsOf(graded))
  IN  /\ Deed /\ w.result = "none"
      /\ works' = graded
      /\ standing' = IF p \notin public THEN standing
                     ELSE Sums(points, IF p \in Sql THEN calculate_sql_points(RowsOf(graded)) ELSE standing)
      /\ Forgotten(IF w.contest THEN Keys ELSE UserKeys)
      /\ overlooked' = (overlooked /\ p \notin public)
      /\ unsummed' = (unsummed /\ p \notin public \cap Sql)
      /\ erased' = (erased /\ ~w.contest)
      /\ UNCHANGED <<price, public, rescores, in_contest, handout>>

\* on_compile_error, on_internal_error, on_submission_terminated.
FailWork(i) ==
  /\ Deed /\ works[i].result = "none" /\ works' = [works EXCEPT ![i].result = "CE"]
  /\ UNCHANGED <<price, public, rescores, standing, entry, in_contest, handout, overlooked, unsummed, erased>>

\* judge_submission of a rejudge: the points stay.
RejudgeWork(i) ==
  /\ Deed /\ works[i].result # "none" /\ works' = [works EXCEPT ![i].result = "none"]
  /\ UNCHANGED <<price, public, rescores, standing, entry, in_contest, handout, overlooked, unsummed, erased>>

\* submission_delete: by then its row of the contest is gone.
EraseWork(i) ==
  /\ Deed /\ works' = Seqs!RemoveAt(works, i)
  /\ standing' = Recounted(RowsOf(works'))
  /\ Forgotten(UserKeys)
  /\ overlooked' = FALSE
  /\ unsummed' = (unsummed \/ works[i].exercise \in Sql)
  /\ erased' = (erased \/ works[i].contest)
  /\ UNCHANGED <<price, public, rescores, in_contest, handout>>

\* ProblemAdmin.save_model.
EditPrice(p) ==
  /\ Deed /\ price' = [price EXCEPT ![p] = 3 - @] /\ rescores' = rescores \cup {p}
  /\ UNCHANGED <<works, public, standing, entry, in_contest, handout, overlooked, unsummed, erased>>
\* Or make_public and make_private: they look for the problems to rescore among
\* the selected ones after the update, and where the list is of the hidden
\* problems, or of those the user edits because they are public, none is left.
\* (Nor does save_model, where organization_private is all that changes.)
Publish(p, left) ==
  /\ Deed /\ public' = (public \ {p}) \cup ({p} \ public)
  /\ rescores' = IF left THEN rescores \cup {p} ELSE rescores
  /\ overlooked' = (overlooked \/ ~left)
  /\ unsummed' = (unsummed \/ (~left /\ p \in Sql))
  /\ UNCHANGED <<works, price, standing, entry, in_contest, handout, erased>>

\* rescore_problem: who has submissions gets new sums.  One that was never graded gets no points.
RescoreProblem(p) ==
  /\ p \in rescores /\ rescores' = rescores \ {p}
  /\ works' = [i \in DOMAIN works |-> IF works[i].exercise = p
                                      THEN [works[i] EXCEPT !.points = PointsFor(p, works[i].cases)] ELSE works[i]]
  /\ IF To(Rows, p) = {} THEN UNCHANGED <<standing, entry, overlooked, unsummed>>
     ELSE /\ standing' = Recounted(RowsOf(works'))
          /\ Forgotten(UserKeys)
          /\ overlooked' = FALSE
          /\ unsummed' = (unsummed \/ p \in Sql)
  /\ UNCHANGED <<price, public, in_contest, handout, deeds, erased>>

\* Two actions of the admin: recalculate_score of submissions, and recalculate_points of users.
RescoreWork(i) ==
  /\ Deed
  /\ works' = [works EXCEPT ![i].points = PointsFor(works[i].exercise, works[i].cases)]
  /\ standing' = Recounted(RowsOf(works'))
  /\ Forgotten(UserKeys)
  /\ overlooked' = FALSE
  /\ unsummed' = (unsummed \/ works[i].exercise \in Sql)
  /\ UNCHANGED <<price, public, rescores, in_contest, handout, erased>>
Recalculate ==
  /\ Deed /\ standing' = Recounted(Rows) /\ overlooked' = FALSE
  /\ UNCHANGED <<works, price, public, rescores, entry, in_contest, handout, unsummed, erased>>

\* ContestJoin and ContestLeave, of one participation.
EnterOrLeave ==
  /\ Deed /\ in_contest' = ~in_contest
  /\ UNCHANGED <<works, price, public, rescores, standing, entry, handout, overlooked, unsummed, erased>>

\* A page that needs these sets, and keeps what it had to look up.
OpenWith(keys) ==
  /\ entry' = [k \in Keys |-> IF k \in keys THEN Got(k) ELSE entry[k]] /\ entry' # entry
  /\ erased' = (erased /\ \E k \in ContestKeys : entry[k] # NoEntry)
  /\ UNCHANGED <<works, price, public, rescores, standing, in_contest, handout, deeds, overlooked, unsummed>>
OpenPages ==
  \/ OpenWith(IF in_contest THEN ContestKeys ELSE UserKeys)                        \* lists of problems
  \/ OpenWith({IF in_contest THEN "contest_complete" ELSE "user_complete", "user_attempted"})   \* TaskDetail
  \/ OpenWith({"user_complete"})                                                   \* TaskSolveStatus
ForgetEntry(k) ==
  /\ entry[k] # NoEntry /\ Forgotten({k})
  /\ UNCHANGED <<works, price, public, rescores, standing, in_contest, handout, deeds, overlooked, unsummed, erased>>

\* ProblemTaskAdmin, and TaskClone, where the rows are made in any order.
EditTask(t) ==
  /\ Deed
  /\ \E p \in Exercises : handout' = [handout EXCEPT ![t] = IF p \in Seqs!ToSet(@) THEN Seqs!Remove(@, p) ELSE Append(@, p)]
  /\ UNCHANGED <<works, price, public, rescores, standing, entry, in_contest, overlooked, unsummed, erased>>
CloneTask(t, u) ==
  /\ Deed /\ t # u /\ handout[u] = <<>> /\ \E s \in Orders(Seqs!ToSet(handout[t])) : handout' = [handout EXCEPT ![u] = s]
  /\ UNCHANGED <<works, price, public, rescores, standing, entry, in_contest, overlooked, unsummed, erased>>

ProgressNext ==
  \/ \E p \in Exercises : Hand(p) \/ EditPrice(p) \/ RescoreProblem(p) \/ \E left \in BOOLEAN : Publish(p, left)
  \/ \E i \in DOMAIN works : \/ \E cases \in 0 .. 2, result \in {"AC", "WA"} : GradeWork(i, cases, result)
                             \/ FailWork(i) \/ RejudgeWork(i) \/ EraseWork(i) \/ RescoreWork(i)
  \/ Recalculate \/ EnterOrLeave \/ OpenPages
  \/ \E k \in Keys : ForgetEntry(k)
  \/ \E t \in Handouts : EditTask(t) \/ \E u \in Handouts : CloneTask(t, u)

ProgressSpec == ProgressInit /\ [][ProgressNext]_wvars
-----------------------------------------------------------------------------
\* Nothing waits: no rescore, and no grading of what was graded before.
NothingWaits == rescores = {} /\ \A w \in Rows : w.graded => w.result \in {"AC", "WA"}

\* Once no rescore waits, the sums of the profile, the best submissions of its
\* page and the breakdown are of the same problems and points, unless a problem was
\* published without a rescore; those of sql problems, if the last change was a verdict.  What the breakdown shows first
\* and what the link loads are the table without a gap, up to its length.
SumsAgree ==
  rescores = {} =>
    LET best == best_submissions(FALSE)
        sum(S) == Sets!MapThenSumSet(LAMBDA p : best[p], S \cap DOMAIN best)
        shown == least_of(Len(PPTable), Entries)
        page(k) == get_pp_breakdown(PPTable, k * PageLength, (k + 1) * PageLength)
    IN  /\ ~overlooked => /\ standing.points = sum(Exercises \ Sql)
                          /\ standing.problem_count = Cardinality(DOMAIN best \ Sql)
        /\ ~unsummed => /\ standing.sql_points = sum(Sql)
                        /\ standing.sql_problem_count = Cardinality(DOMAIN best \cap Sql)
        /\ Seqs!ToSet(PPTable) = DOMAIN best
        /\ \A k \in 0 .. shown :
             /\ k * PageLength < shown \/ k = 0
             => /\ page(k).rows = SubSeq(PPTable, k * PageLength + 1, least_of(shown, (k + 1) * PageLength))
                /\ page(k).has_more = ((k + 1) * PageLength < shown)

\* Once nothing waits, whatever is kept in the cache: who has a problem marked as
\* solved has solved it by its own page, and has it hidden; where only one of the
\* three says so, all that was accepted lacked points, or all the points came
\* with a verdict that is not AC.  The bonus of the profile counts as the pages
\* of the problems do.  What a contest marks as solved is solved outside too,
\* unless a deletion left it kept.
MarksAgree ==
  NothingWaits =>
    /\ ~overlooked => standing.accepted = Cardinality({p \in public \ Sql : solve_status(p) = "solved"})
    /\ \A p \in Exercises :
         LET mark == OrganizationMark(p)
             whole == {w \in To(Rows, p) : w.graded /\ w.points = Full(p)}
         IN  /\ mark = "solved" => solve_status(p) = "solved" /\ p \in hidden_as_solved
             /\ mark # "solved" => \A w \in whole : w.result # "AC"
             /\ mark = "attempted" => solve_status(p) # "unsolved" /\ whole = {}
             /\ mark = "none" => whole # {} \/ \A w \in To(Rows, p) : ~w.graded
             /\ ContestMark(p) = "solved" /\ ~erased => mark = "solved"
             /\ mark = "solved" /\ ~erased /\ (\A w \in To(Rows, p) : w.contest) => ContestMark(p) = "solved"

\* A task is in the database tab exactly if its page is in the order it was
\* filled in, and not by number where that differs; outside contests it is at
\* a hundred per cent exactly if every problem on its page is marked as solved.
TasksAgree ==
  \A t \in Handouts :
    /\ t \in database_task_ids => task_problems(t) = handout[t]
    /\ task_problems(t) # Seqs!SetToSortSeq(Seqs!ToSet(handout[t]), <) => t \in database_task_ids
    /\ handout[t] # <<>> /\ ~in_contest =>
         (percent_completed(t) = 100) = (\A i \in DOMAIN handout[t] : TaskMark(task_problems(t)[i]) = "solved")

ProgressAgrees == SumsAgree /\ MarksAgree /\ TasksAgree
=============================================================================
