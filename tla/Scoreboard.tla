------------------------------ MODULE Scoreboard ------------------------------
(***************************************************************************)
(* How the row of one contest participation follows the submissions made   *)
(* in it.  Threads of the bridge save verdicts, celery tasks and           *)
(* administrators rescore, delete and disqualify; each of them copies the  *)
(* points into the ContestSubmission, reads the participation, lets the    *)
(* format add up all submissions and saves the whole row, and nothing      *)
(* keeps two of them apart.                                                *)
(*                                                                         *)
(* lost, undone and behind are history variables: they name the overlaps   *)
(* after which the row is allowed to be wrong.                             *)
(***************************************************************************)
EXTENDS ContestFormats

CONSTANTS Workers,      \* bridge threads, celery workers, web processes
          Formats,      \* the formats the contest may have
          Outcomes,     \* what a grading may find: the minimum of each batch
          Failures,     \* how a judging may fail: a subset of {"CE", "IE", "AB"}
          MaxSubs,      \* bound: submissions
          MayBeFor,     \* bound: [1 .. MaxSubs -> SUBSET Problems]
          MaxRequests   \* bound: rejudges, rescores, deletions, disqualifications

ASSUME FailuresAssumption == Failures \subseteq {"CE", "IE", "AB"}
ASSUME FormatsAssumption == Formats \subseteq AllFormats
ASSUME BoundsAssumption == MaxSubs \in Nat

VARIABLES format, subs, worker,
          row,          \* the participation: is_disqualified and the format's result
          verdict,      \* what an organiser last made of is_disqualified
          lost,         \* the last save was of a sum read before a change
          undone,       \* a save put back is_disqualified as it was read before
          behind,       \* submissions whose points were written from an old verdict
          requests

history == <<verdict, lost, undone, behind>>
vars == <<format, subs, worker, row, history, requests>>

Ids == 1 .. MaxSubs
DisqualifiedScore == -9999
NoResult == Scored(0, 0, 0, NoTries)
NoSubmission == [problem |-> "none", date |-> 0, status |-> "none", result |-> "NULL",
                 cases |-> <<>>, casePoints |-> 0, points |-> 0]
IdleWorker == [at |-> "idle", sub |-> 0, points |-> 0, val |-> NoResult, dq |-> FALSE,
               admin |-> FALSE, removes |-> 0, stale |-> FALSE]

Present == {i \in Ids : subs[i].status \notin {"none", "gone"}}
Submissions(I) == {subs[i] : i \in I}
Result(I) == UpdateParticipation(format, Submissions(I))
IsIdle(w) == worker[w].at = "idle"

TypeOK ==
  /\ format \in Formats
  /\ \A i \in Ids : /\ subs[i].problem \in Problems \cup {"none"}
                    /\ subs[i].date \in {0, i}
                    /\ subs[i].status \in {"none", "QU", "D", "gone"} \cup Failures
                    /\ subs[i].result \in {"NULL", "AC", "WA"} \cup Failures
                    /\ subs[i].cases \in Outcomes \cup {<<>>}
                    /\ subs[i].points \in Nat
  /\ \A w \in Workers : /\ worker[w].at \in {"idle", "contest", "load", "form", "sum", "save"}
                        /\ worker[w].sub \in Ids \cup {0}
                        /\ worker[w].removes \in Ids \cup {0}
                        /\ worker[w].stale \in BOOLEAN
                        /\ worker[w].dq \in BOOLEAN
  /\ row.dq \in BOOLEAN /\ row.val.cumtime \in Nat   \* a PositiveIntegerField
  /\ row.val.score \in Nat \cup {DisqualifiedScore}
  /\ verdict \in BOOLEAN /\ lost \in BOOLEAN /\ undone \in BOOLEAN
  /\ behind \subseteq Ids /\ requests \in 0 .. MaxRequests

Init ==
  /\ format \in Formats
  /\ subs = [i \in Ids |-> NoSubmission]
  /\ worker = [w \in Workers |-> IdleWorker]
  /\ row = [dq |-> FALSE, val |-> NoResult]
  /\ verdict = FALSE /\ lost = FALSE /\ undone = FALSE /\ behind = {}
  /\ requests = 0

Request == requests < MaxRequests /\ requests' = requests + 1

\* A sum that was read is out of date once a submission changes.
OutOfDate(ws) ==
  [w \in Workers |-> IF ws[w].at = "save" THEN [ws[w] EXCEPT !.stale = TRUE] ELSE ws[w]]
\* So are points that were computed from the verdict of i.
Regraded(ws, i) ==
  [w \in Workers |-> IF ws[w].at = "contest" /\ ws[w].sub = i
                     THEN [ws[w] EXCEPT !.stale = TRUE] ELSE ws[w]]
WithPoints(i, n) == [IdleWorker EXCEPT !.at = "contest", !.sub = i, !.points = n]
Becomes(w, state) == [worker EXCEPT ![w] = state]
-----------------------------------------------------------------------------
(* The submissions.                                                        *)

\* ProblemSubmit.form_valid: the ContestSubmission starts with 0 points.
Submit(i, p) ==
  /\ p \in MayBeFor[i]
  /\ subs[i].status = "none" /\ \A j \in 1 .. i - 1 : subs[j].status # "none"
  /\ subs' = [subs EXCEPT ![i] = [NoSubmission EXCEPT !.problem = p, !.date = i,
                                                      !.status = "QU"]]
  /\ worker' = OutOfDate(worker)
  /\ UNCHANGED <<format, row, history, requests>>

\* on_grading_end up to submission.save(); update_contest comes next.
Grade(w, i, o) ==
  LET cp == o[1] + o[2]
  IN  /\ IsIdle(w) /\ subs[i].status = "QU"
      /\ subs' = [subs EXCEPT ![i].status = "D", ![i].cases = o, ![i].casePoints = cp,
                              ![i].result = IF cp = CaseTotal THEN "AC" ELSE "WA"]
      /\ worker' = [Regraded(OutOfDate(worker), i) EXCEPT
                      ![w] = WithPoints(i, ContestPoints(subs[i].problem, cp))]
      /\ UNCHANGED <<format, row, history, requests>>

\* on_compile_error, on_internal_error and on_submission_terminated: the
\* contest is not told, and its points stay.
Fail(i, r) ==
  /\ subs[i].status = "QU"
  /\ subs' = [subs EXCEPT ![i].status = r, ![i].result = r]
  /\ worker' = OutOfDate(worker)
  /\ UNCHANGED <<format, row, history, requests>>

\* judge_submission: result and test cases go, case_points stay.
Rejudge(i) ==
  /\ i \in Present /\ subs[i].status # "QU" /\ Request
  /\ subs' = [subs EXCEPT ![i].status = "QU", ![i].result = "NULL", ![i].cases = <<>>]
  /\ worker' = OutOfDate(worker)
  /\ UNCHANGED <<format, row, history>>
-----------------------------------------------------------------------------
(* The recomputation.                                                      *)

\* rescore_problem and recalculate_score read the submission ...
RescoreSubmission(w, i) ==
  /\ IsIdle(w) /\ i \in Present /\ Request
  /\ worker' = Becomes(w, WithPoints(i, ContestPoints(subs[i].problem, subs[i].casePoints)))
  /\ UNCHANGED <<format, subs, row, history>>

\* ... rescore_contest only the participation.
RescoreContest(w) ==
  /\ IsIdle(w) /\ Request
  /\ worker' = Becomes(w, [IdleWorker EXCEPT !.at = "sum", !.dq = row.dq])
  /\ UNCHANGED <<format, subs, row, history>>

\* Deletion and the signal handler are one transaction: the row goes when the
\* new sum is saved.
Delete(w, i) ==
  /\ IsIdle(w) /\ i \in Present /\ Request
  /\ \A v \in Workers : worker[v].removes # i
  /\ worker' = Becomes(w, [IdleWorker EXCEPT !.at = "sum", !.dq = row.dq, !.removes = i])
  /\ UNCHANGED <<format, subs, row, history>>

\* Broken: the participation is not recomputed.
WriteContestOnly(w) ==
  LET i == worker[w].sub
  IN  /\ worker[w].at = "contest" /\ i \in Present
      /\ subs' = [subs EXCEPT ![i].points = worker[w].points]
      /\ worker' = OutOfDate(Becomes(w, IdleWorker))
      /\ behind' = IF worker[w].stale THEN behind \cup {i} ELSE behind \ {i}
      /\ UNCHANGED <<format, row, verdict, lost, undone, requests>>

\* Broken: points never go down.
WriteContestBetter(w) ==
  LET i == worker[w].sub
  IN  /\ worker[w].at = "contest" /\ i \in Present
      /\ subs' = [subs EXCEPT ![i].points = Max({@, worker[w].points})]
      /\ worker' = OutOfDate(Becomes(w, [IdleWorker EXCEPT !.at = "load"]))
      /\ behind' = IF worker[w].stale THEN behind \cup {i} ELSE behind \ {i}
      /\ UNCHANGED <<format, row, verdict, lost, undone, requests>>

\* update_contest: contest.save().  It waits for a deletion of the row; once
\* that is done it would insert the row again, without its submission, and fails.
WriteContest(w) ==
  LET i == worker[w].sub
  IN  /\ worker[w].at = "contest" /\ \A v \in Workers : worker[v].removes # i
      /\ IF i \in Present
         THEN /\ subs' = [subs EXCEPT ![i].points = worker[w].points]
              /\ worker' = OutOfDate(Becomes(w, [IdleWorker EXCEPT !.at = "load"]))
              /\ behind' = IF worker[w].stale THEN behind \cup {i} ELSE behind \ {i}
         ELSE worker' = Becomes(w, IdleWorker) /\ UNCHANGED <<subs, behind>>
      /\ UNCHANGED <<format, row, verdict, lost, undone, requests>>

\* contest.participation
LoadParticipation(w) ==
  /\ worker[w].at = "load"
  /\ worker' = [worker EXCEPT ![w].at = "sum", ![w].dq = row.dq]
  /\ UNCHANGED <<format, subs, row, history, requests>>

\* Broken: the submission that is being deleted is still added.
AggregateDeleted(w) ==
  /\ worker[w].at = "sum"
  /\ worker' = [worker EXCEPT ![w].at = "save", ![w].val = Result(Present)]
  /\ UNCHANGED <<format, subs, row, history, requests>>

\* recompute_results: the queries of update_participation see one snapshot.
Aggregate(w) ==
  /\ worker[w].at = "sum"
  /\ worker' = [worker EXCEPT ![w].at = "save",
                              ![w].val = Result(Present \ {worker[w].removes})]
  /\ UNCHANGED <<format, subs, row, history, requests>>

\* Broken: the column is signed.
SaveRowSigned(w) ==
  LET me == worker[w]
  IN  /\ me.at = "save" /\ me.removes = 0 /\ ~me.dq
      /\ row' = [dq |-> FALSE, val |-> me.val]
      /\ lost' = me.stale
      /\ worker' = Becomes(w, IdleWorker)
      /\ UNCHANGED <<format, subs, verdict, undone, behind, requests>>

\* Broken: the disqualified keep their score.
SaveRowScored(w) ==
  LET me == worker[w]
  IN  /\ me.at = "save" /\ me.val.cumtime >= 0 /\ me.removes = 0
      /\ row' = [dq |-> me.dq, val |-> me.val]
      /\ lost' = me.stale
      /\ verdict' = IF me.admin THEN me.dq ELSE verdict
      /\ undone' = (~me.admin /\ (undone \/ me.dq # row.dq))
      /\ worker' = Becomes(w, IdleWorker)
      /\ UNCHANGED <<format, subs, behind, requests>>

\* participation.save() and the score of the disqualified, one transaction.
SaveRow(w) ==
  LET me == worker[w]
  IN  /\ me.at = "save" /\ me.val.cumtime >= 0
      /\ row' = [dq |-> me.dq,
                 val |-> IF me.dq THEN [me.val EXCEPT !.score = DisqualifiedScore]
                                  ELSE me.val]
      /\ lost' = me.stale
      /\ verdict' = IF me.admin THEN me.dq ELSE verdict
      /\ undone' = (~me.admin /\ (undone \/ me.dq # row.dq))
      /\ IF me.removes = 0
         THEN worker' = Becomes(w, IdleWorker) /\ UNCHANGED <<subs, behind>>
         ELSE /\ subs' = [subs EXCEPT ![me.removes] = [NoSubmission EXCEPT !.status = "gone"]]
              /\ worker' = OutOfDate(Becomes(w, IdleWorker))
              /\ behind' = behind \ {me.removes}
      /\ UNCHANGED <<format, requests>>

\* cumtime is unsigned: a negative one is refused, and what the transaction
\* did is rolled back.
SaveFails(w) ==
  /\ worker[w].at = "save" /\ worker[w].val.cumtime < 0
  /\ lost' = TRUE /\ undone' = (undone \/ worker[w].admin)
  /\ worker' = Becomes(w, IdleWorker)
  /\ UNCHANGED <<format, subs, row, verdict, behind, requests>>
-----------------------------------------------------------------------------
(* Disqualification.                                                       *)

\* ContestParticipationDisqualify turns around what it read.
ToggleDisqualified(w) ==
  /\ IsIdle(w) /\ Request
  /\ worker' = Becomes(w, [IdleWorker EXCEPT !.at = "sum", !.admin = TRUE, !.dq = ~row.dq])
  /\ UNCHANGED <<format, subs, row, history>>

\* The admin site saves the form with the result as it was read, then calls
\* set_disqualified.
OpenForm(w) ==
  /\ IsIdle(w) /\ Request
  /\ worker' = Becomes(w, [IdleWorker EXCEPT !.at = "form", !.admin = TRUE, !.dq = ~row.dq,
                                           !.val = row.val])
  /\ UNCHANGED <<format, subs, row, history>>

SaveForm(w) ==
  /\ worker[w].at = "form"
  /\ row' = [dq |-> worker[w].dq, val |-> worker[w].val]
  /\ verdict' = worker[w].dq /\ undone' = FALSE
  /\ worker' = [worker EXCEPT ![w].at = "sum", ![w].val = NoResult]
  /\ UNCHANGED <<format, subs, lost, behind, requests>>
-----------------------------------------------------------------------------
Recompute(w) ==
  \/ WriteContest(w) \/ LoadParticipation(w) \/ Aggregate(w)
  \/ SaveRow(w) \/ SaveFails(w) \/ SaveForm(w)

Next ==
  \/ \E i \in Ids, p \in Problems : Submit(i, p)
  \/ \E i \in Ids, r \in Failures : Fail(i, r)
  \/ \E i \in Ids : Rejudge(i)
  \/ \E w \in Workers, i \in Ids, o \in Outcomes : Grade(w, i, o)
  \/ \E w \in Workers, i \in Ids : RescoreSubmission(w, i) \/ Delete(w, i)
  \/ \E w \in Workers : RescoreContest(w) \/ ToggleDisqualified(w) \/ OpenForm(w)
  \/ \E w \in Workers : Recompute(w)

Spec == Init /\ [][Next]_vars
-----------------------------------------------------------------------------
Quiet == \A w \in Workers : IsIdle(w)
AllGraded == Present # {} /\ \A i \in Present : subs[i].status = "D"

\* When nobody is at work, every submission is graded and the last save was
\* not of an old sum, the row is what the format makes of the submissions.
RowIsCurrent ==
  Quiet /\ AllGraded /\ ~lost =>
    LET result == Result(Present)
    IN  row.val = IF row.dq
                  THEN [result EXCEPT !.score = DisqualifiedScore] ELSE result

\* In the formats that add up the best points the score does not wait for
\* submissions that are being judged or have failed.
ScoreIsTheBest ==
  Quiet /\ ~lost /\ format \in BestFormats =>
    row.val.score \in {DisqualifiedScore, BestTotal(Submissions(Present)) \div Half}

\* And the columns hold it: no count of tries that a rejudge has emptied makes a
\* time negative.
BoardIsSound == TypeOK /\ ScoreIsTheBest

\* Points in the contest are those of the last verdict, unless they were
\* written by somebody who had read an earlier one or are about to be.
PointsFollowVerdicts ==
  \A i \in Present \ behind :
    subs[i].status = "D" /\ (\A w \in Workers : worker[w].at = "contest" => worker[w].sub # i)
      => subs[i].points = ContestPoints(subs[i].problem, subs[i].casePoints)

\* is_disqualified is what the organisers last said and the score agrees, unless
\* a recomputation had read the row before they said it.
DisqualificationHolds ==
  Quiet /\ ~undone => /\ row.dq = verdict
                      /\ row.dq => row.val.score = DisqualifiedScore
=============================================================================
