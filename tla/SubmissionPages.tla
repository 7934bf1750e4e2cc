--------------------------- MODULE SubmissionPages ---------------------------
(***************************************************************************)
(* The pages about submissions: which rows each list shows, what a row     *)
(* offers, and what the page of one submission and the API say of it.  A   *)
(* submission is known by its author and by whether it was sent inside the *)
(* contest.                                                                *)
(***************************************************************************)
EXTENDS ProblemPages

\* The lists of one problem know that it is accessible and leave out the
\* filter by visible problems.
problem_row(u, author, inside, c) ==
  IF c THEN in_contest_row(u, author, inside) ELSE contest_is_open_to(u, author, inside)

\* ForceContestMixin: the contest of the address instead of one's own.
contest_forced(u) ==
  \/ has_perm(u, "see_private_contest")
  \/ contest.is_visible /\ clock # "before"

\* One user's submissions to the problem in the contest, which joined it.
UserContestSubmissions(u, author, joined) ==
  /\ joined
  /\ is_accessible_by(u, in_contest(u))
  /\ contest_forced(u)
  /\ u = author \/ can_see_own_scoreboard(u, in_contest(u))
  /\ contest.has_problem

\* One user's submissions to any problem of the contest.
UserAllContestSubmissions(u, author, joined) ==
  joined /\ contest_forced(u) /\ (u = author \/ can_see_full_scoreboard(u))

all_contest_row(u, author, inside) ==
  in_contest_row(u, author, inside) /\ get_visible_problems(u)

\* The best solutions in the contest.
ContestRankedSubmission(u) ==
  /\ is_accessible_by(u, in_contest(u)) /\ contest_forced(u)
  /\ can_see_own_scoreboard(u, in_contest(u)) /\ contest.has_problem
-----------------------------------------------------------------------------
(* What a row and the page of a submission offer.                          *)

row_can_edit(u) == has_perm(u, "edit_all_problem") \/ get_editable_problems(u)

\* Broken: testers see the submissions of a problem they have not solved.
row_can_view_tester(u, author, solved) ==
  \/ row_can_edit(u)
  \/ has_perm(u, "view_all_submission")
  \/ u = author
  \/ authenticated(u) /\ ((problem.is_public /\ solved) \/ u \in problem.testers)

\* solved: the problem is in user_completed_ids.
row_can_view(u, author, solved) ==
  \/ row_can_edit(u)
  \/ has_perm(u, "view_all_submission")
  \/ u = author
  \/ authenticated(u) /\ solved /\ (problem.is_public \/ u \in problem.testers)

row_links(u, author, solved) ==
  [ status  |-> row_can_view(u, author, solved),
    problem |-> TRUE,
    rejudge |-> row_can_edit(u) /\ has_perm(u, "rejudge_submission"),
    admin   |-> row_can_edit(u) ]

\* SubmissionAdmin: its list, then its permission for the one row.
admin_submission(u) ==
  /\ has_perm(u, "is_staff") /\ has_perm(u, "edit_own_problem")
  /\ has_perm(u, "edit_all_problem") \/ u \in problem.editors

\* SubmissionAdmin.judge, the action of that list.
admin_judge(u) == admin_submission(u) /\ has_perm(u, "rejudge_submission")

rejudge_submission(u) == for_members(u, is_subs_manageable_by(u))

row_pages(u, author, solved, c) ==
  [ status  |-> for_members(u, can_see_detail(u, author, solved)),
    problem |-> is_accessible_by(u, c),
    rejudge |-> rejudge_submission(u),
    admin   |-> admin_submission(u) ]

status_links(u, author) ==
  [ source   |-> TRUE,
    problem  |-> TRUE,
    resubmit |-> u = author \/ has_perm(u, "resubmit_other"),
    rejudge  |-> has_perm(u, "rejudge_submission"),
    abort    |-> u = author \/ has_perm(u, "abort_any_submission") ]

\* rejudged: the submission has been judged again.
abort_submission(u, author, rejudged) ==
  authenticated(u) /\ ((~rejudged /\ u = author) \/ has_perm(u, "abort_any_submission"))

\* ProblemSubmit.dispatch, of a form that is to be filled with an old submission.
may_resubmit(u, author) == has_perm(u, "resubmit_other") \/ u = author

status_pages(u, author, solved, rejudged, c) ==
  [ source   |-> can_see_detail(u, author, solved),
    problem  |-> is_accessible_by(u, c),
    resubmit |-> is_accessible_by(u, c) /\ may_resubmit(u, author),
    rejudge  |-> rejudge_submission(u),
    abort    |-> abort_submission(u, author, rejudged) ]

(* The API.                                                                *)

api_problem_list(u) == get_visible_problems(u)
api_v1_problem_list(u) == get_visible_problems(u)
api_submission_listed(u) == get_visible_problems(u)
api_submission_detail(u, author, solved) ==
  authenticated(u) /\ can_see_detail(u, author, solved)
api_v1_submission_listed == problem.is_public /\ ~problem.is_organization_private
api_problem_detail(u) == accessible_outside_contests(u)
api_v1_problem_info(u) == accessible_outside_contests(u)
-----------------------------------------------------------------------------
(* Properties.                                                             *)

\* A row of the global list can be refreshed by single_submission for as long
\* as the contest keeps the problem, and is a row of the problem's own list,
\* which is filtered differently; that list adds only rows the user may see.
\* The API's lists have the problems that its pages have.
RowsAgree(u, author, inside, c) ==
  LET listed == submission_listed(u, author, inside, c)
  IN  /\ listed /\ (c => contest.has_problem) => row_accessible(u, c)
      /\ ~c /\ is_accessible_by(u, c) =>
           (listed <=> problem_row(u, author, inside, c))
      /\ listed /\ ~c =>
           api_submission_listed(u) /\ api_problem_detail(u) /\ api_v1_problem_info(u)
      /\ api_v1_submission_listed => api_submission_listed(u)
      /\ api_problem_list(u) <=> api_problem_detail(u)
      /\ api_v1_problem_list(u) <=> api_v1_problem_info(u)

\* What a row offers works: beyond the problem of a contest that dropped it,
\* only the administration and rejudging, for editors who are no staff or who
\* edit the problem through an organization or its being public.
RowLinksOpen(u, author, inside, solved, c) ==
  LET links == row_links(u, author, solved)
      pages == row_pages(u, author, solved, c)
  IN  submission_listed(u, author, inside, c) =>
        \A l \in DOMAIN links :
          links[l] /\ ~pages[l] =>
            \/ l = "problem" /\ c /\ ~contest.has_problem
            \/ l = "rejudge" /\ ~has_perm(u, "is_staff")
            \/ /\ l = "admin"
               /\ \/ ~has_perm(u, "is_staff") \/ ~has_perm(u, "edit_own_problem")
                  \/ ~has_perm(u, "edit_all_problem") /\ u \notin problem.editors

\* The page of a submission opens from its row exactly where the row offers
\* it, editors without edit_own_problem apart; its own links work except
\* where the problem was closed to its author or to whom may see everything,
\* where rejudging is offered to whom may not manage the problem, and where
\* the author would abort a rejudge.  The API lists the submissions it gives
\* the detail of, but for those same closed problems.
StatusLinksOpen(u, author, solved, rejudged, c) ==
  LET links == status_links(u, author)
      pages == status_pages(u, author, solved, rejudged, c)
  IN  /\ can_see_detail(u, author, solved) /\ ~row_can_view(u, author, solved) =>
           is_editable_by(u) /\ ~has_perm(u, "edit_own_problem")
      /\ can_see_detail(u, author, solved) =>
           \A l \in DOMAIN links :
             links[l] /\ ~pages[l] =>
               \/ /\ l \in {"problem", "resubmit"} /\ ~is_editable_by(u)
                  /\ \/ u = author \/ has_perm(u, "view_all_submission")
                     \/ solved /\ problem.is_public /\ problem.is_organization_private
               \/ l = "rejudge" /\ ~is_subs_manageable_by(u)
               \/ l = "abort" /\ rejudged /\ u = author
      /\ api_submission_detail(u, author, solved) /\ ~api_submission_listed(u) =>
           /\ ~is_editable_by(u)
           /\ \/ u = author \/ has_perm(u, "view_all_submission")
              \/ solved /\ problem.is_public /\ problem.is_organization_private

\* Whoever rejudges in the administration may do so from the page; from the page
\* alone it is done by editors who edit the problem in another way.
RejudgingAgrees(u) ==
  authenticated(u) =>
    /\ admin_judge(u) => is_subs_manageable_by(u) /\ rejudge_submission(u)
    /\ rejudge_submission(u) /\ ~admin_judge(u) =>
         \/ ~has_perm(u, "edit_own_problem")
         \/ ~has_perm(u, "edit_all_problem") /\ u \notin problem.editors

\* The lists, the rows, the pages and the API agree about which submissions a
\* user may see: six filters of queries, two checks of objects and the
\* template's own decision, over the same permissions.
SubmissionsAgree ==
  request = NoRequest =>
    \A u \in User, author \in Author :
      LET c == in_contest(u)
      IN  /\ RejudgingAgrees(u)
          /\ \A inside \in BOOLEAN : RowsAgree(u, author, inside, c)
          /\ \A inside, solved \in BOOLEAN : RowLinksOpen(u, author, inside, solved, c)
          /\ \A solved, rejudged \in BOOLEAN :
               StatusLinksOpen(u, author, solved, rejudged, c)
=============================================================================
