------------------------------ MODULE Standing ------------------------------
(***************************************************************************)
(* What is derived from one user's submissions: the points of the profile, *)
(* and the cached set of solved problems by which the site decides who may *)
(* read an editorial or another's submission.  A verdict, a deletion and a *)
(* rescore each recompute the one and drop the other, in an order of their *)
(* own; a verdict that is not a grading, and a rejudge, do neither.        *)
(*                                                                         *)
(* Each submission is to a problem of its own, and points are the set of   *)
(* the submissions that earn some.  reopened and the marks late, skipped   *)
(* and overtaken do not exist in the program: they say which derivation    *)
(* was of rows that have changed since.                                    *)
(***************************************************************************)
EXTENDS Sequences, Naturals

CONSTANTS Verdicts,     \* submissions
          Derivers,     \* threads of the bridge and of celery, requests of the admin site
          Lookers,      \* requests that want the set of solved problems
          NoSet,
          MaxChanges    \* bound: verdicts, rejudges and deletions

ASSUME NoSetAssumption == NoSet \notin Derivers
ASSUME MaxChangesAssumption == MaxChanges \in Nat

VARIABLES result,     \* Submission.result: "none", "AC", "other"
          performance_points,     \* the profile's
          user_complete,     \* the cache entry user_complete
          deriver, looker, changes,
          reopened,   \* submissions judged again and not graded since
          wrong,      \* the points were saved, or not, by an old sum
          overtaken   \* the entry was made of rows that had changed

stvars == <<result, performance_points, user_complete, deriver, looker, changes, reopened, wrong, overtaken>>

Earning == {s \in Verdicts : result[s] = "AC"}
\* copy: the points in the profile that was read; sum: what they should be.
AtRest == [todo |-> <<>>, copy |-> {}, sum |-> {}, late |-> FALSE]
NotLooking == [at |-> "idle", seen |-> {}, late |-> FALSE]
AfterVerdictKept == <<"add", "save">>   \* broken: nothing is dropped
AfterVerdict == <<"add", "save", "drop">>
AfterDelete == <<"drop", "add", "save">>
\* The profile is read before anything is added up.
Starts(todo) == [todo |-> todo, copy |-> performance_points, sum |-> {}, late |-> FALSE]
Todo(task) == {w \in Derivers : \E i \in DOMAIN deriver[w].todo : deriver[w].todo[i] = task}
IsNext(w, task) == deriver[w].todo # <<>> /\ Head(deriver[w].todo) = task

StandingTypeOK ==
  /\ result \in [Verdicts -> {"none", "AC", "other"}]
  /\ performance_points \subseteq Verdicts /\ (user_complete = NoSet \/ user_complete \subseteq Verdicts)
  /\ \A w \in Derivers : deriver[w].copy \cup deriver[w].sum \subseteq Verdicts
  /\ \A v \in Lookers : looker[v].seen \subseteq Verdicts
  /\ changes \in 0 .. MaxChanges /\ reopened \subseteq Verdicts
  /\ wrong \in BOOLEAN /\ overtaken \in BOOLEAN

StandingInit ==
  /\ result = [s \in Verdicts |-> "none"]
  /\ performance_points = {} /\ user_complete = NoSet
  /\ deriver = [w \in Derivers |-> AtRest]
  /\ looker = [v \in Lookers |-> NotLooking]
  /\ changes = 0 /\ reopened = {} /\ wrong = FALSE /\ overtaken = FALSE
-----------------------------------------------------------------------------
\* A row changes: what was added up or looked up before is late, but for w's.
Change(s, r, w, todo) ==
  /\ changes < MaxChanges /\ changes' = changes + 1
  /\ result' = [result EXCEPT ![s] = r]
  /\ deriver' = [d \in Derivers |->
                   IF d = w THEN Starts(todo)
                   ELSE [deriver[d] EXCEPT !.late = @ \/ IsNext(d, "save")]]
  /\ looker' = [v \in Lookers |-> [looker[v] EXCEPT !.late = @ \/ looker[v].at = "keep"]]
  /\ UNCHANGED <<performance_points, user_complete, wrong, overtaken>>

\* on_grading_end saves the submission.
EndGrading(w, s, r) ==
  /\ deriver[w].todo = <<>> /\ result[s] = "none"
  /\ Change(s, r, w, AfterVerdict)
  /\ reopened' = reopened \ {s}

\* judge_submission of a rejudge.  The points stay until the next verdict, and
\* for good if that is a compile error, an internal error or an abort.
Reopen(s) ==
  /\ result[s] # "none"
  /\ Change(s, "none", NoSet, <<>>)
  /\ reopened' = reopened \cup {s}

\* submission_delete, after the row is gone.
DeleteSubmission(w, s) ==
  /\ deriver[w].todo = <<>> /\ result[s] # "none"
  /\ Change(s, "none", w, AfterDelete)
  /\ UNCHANGED reopened

\* rescore_problem and recalculate_score go through the profiles at the end.
Rescore(w) ==
  /\ deriver[w].todo = <<>> /\ changes < MaxChanges /\ changes' = changes + 1
  /\ deriver' = [deriver EXCEPT ![w] = Starts(AfterVerdict)]
  /\ UNCHANGED <<result, performance_points, user_complete, looker, reopened, wrong, overtaken>>
-----------------------------------------------------------------------------
\* w does the next of its tasks.
Does(w, task, sum, late) ==
  /\ IsNext(w, task)
  /\ deriver' = [deriver EXCEPT ![w] = [todo |-> Tail(deriver[w].todo), copy |-> deriver[w].copy,
                                        sum |-> sum, late |-> late]]

\* Profile.calculate_points: the queries, ...
AddUp(w) ==
  /\ Does(w, "add", Earning, FALSE)
  /\ UNCHANGED <<result, performance_points, user_complete, looker, changes, reopened, wrong, overtaken>>

\* ... and the save, unless the profile that was read has those points.
SavePoints(w) ==
  LET d == deriver[w]
  IN  /\ Does(w, "save", d.sum, d.late)
      /\ performance_points' = IF d.copy # d.sum THEN d.sum ELSE performance_points
      /\ wrong' = (d.late \/ (d.copy = d.sum /\ performance_points # d.copy))
      /\ UNCHANGED <<result, user_complete, looker, changes, reopened, overtaken>>

\* finished_submission; rescores delete the same keys.
DropSolved(w) ==
  /\ Does(w, "drop", deriver[w].sum, deriver[w].late)
  /\ user_complete' = NoSet /\ overtaken' = FALSE
  /\ UNCHANGED <<result, performance_points, looker, changes, reopened, wrong>>

-----------------------------------------------------------------------------
\* user_completed_ids, when there is no entry.
LookUp(v) ==
  /\ looker[v] = NotLooking /\ user_complete = NoSet
  /\ looker' = [looker EXCEPT ![v] = [at |-> "keep", seen |-> Earning, late |-> FALSE]]
  /\ UNCHANGED <<result, performance_points, user_complete, deriver, changes, reopened, wrong, overtaken>>

KeepSolved(v) ==
  /\ looker[v].at = "keep"
  /\ user_complete' = looker[v].seen
  /\ overtaken' = looker[v].late
  /\ looker' = [looker EXCEPT ![v] = NotLooking]
  /\ UNCHANGED <<result, performance_points, deriver, changes, reopened, wrong>>

\* After a day.
ExpireSolved ==
  /\ user_complete # NoSet
  /\ user_complete' = NoSet /\ overtaken' = FALSE
  /\ UNCHANGED <<result, performance_points, deriver, looker, changes, reopened, wrong>>
-----------------------------------------------------------------------------
StandingNext ==
  \/ \E w \in Derivers : \/ AddUp(w) \/ SavePoints(w) \/ DropSolved(w) \/ Rescore(w)
  \/ \E w \in Derivers, s \in Verdicts : \/ DeleteSubmission(w, s)
                                         \/ \E r \in {"AC", "other"} : EndGrading(w, s, r)
  \/ \E s \in Verdicts : Reopen(s)
  \/ \E v \in Lookers : LookUp(v) \/ KeepSolved(v)
  \/ ExpireSolved

StandingSpec == StandingInit /\ [][StandingNext]_stvars
-----------------------------------------------------------------------------
\* Once every change has been worked through and nothing that was judged again
\* waits for its grading, the points are those of the submissions that earn some,
\* and the set of solved problems, if it is kept, is the right one: unless the
\* last save of points was of a sum the rows had left behind, or was not made
\* since it agreed with a profile the row had left behind, or the set was looked
\* up before a change and kept after it.
StandingIsRight ==
  reopened = {} =>
    /\ Todo("save") = {} /\ ~wrong => performance_points = Earning
    /\ Todo("drop") = {} /\ ~overtaken => user_complete \in {NoSet, Earning}
=============================================================================
