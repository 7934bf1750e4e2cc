----------------------------- MODULE ProblemPages -----------------------------
(***************************************************************************)
(* The problem's pages: which links the page of a problem shows, and which *)
(* of the views behind them open.  The template decides the first from the *)
(* context of ProblemDetail, every view decides the second for itself.     *)
(* Throughout, u is the user and c says whether u is in the contest as the *)
(* middleware left the profile.                                            *)
(***************************************************************************)
EXTENDS Access

CONSTANT PageForms     \* what the page may depend on beside the rows of Access

\* The guide, the database a SQL or Mongo problem is about, an editorial
\* (published or not), test data kept by hand; of the user: a submission to
\* the problem, none left in the contest, a ticket, muted.
Forms == [guide : {"none", "draft", "public"},
          database : {"none", "readable", "broken"},
          solution : BOOLEAN, manual : BOOLEAN, submitted : BOOLEAN,
          limit_reached : BOOLEAN, ticketed : BOOLEAN, mute : BOOLEAN]

ASSUME PageFormsAssumption == PageForms \subseteq Forms

\* A view for members sends a visitor to the login page, whatever it guards.
for_members(u, opens) == authenticated(u) => opens

in_contest(u) == authenticated(u) /\ update_contest(u)[u] # "none"

can_see_own_scoreboard(u, c) ==
  \/ can_see_full_scoreboard(u)
  \/ can_join /\ (show_scoreboard \/ c)

is_subs_manageable_by(u) ==
  has_perm(u, "is_staff") /\ has_perm(u, "rejudge_submission") /\ is_editable_by(u)

guide_accessible(u, x) ==
  x.guide = "public" \/ (x.guide = "draft" /\ is_editable_by(u))
-----------------------------------------------------------------------------
(* The lists of problems.                                                  *)

\* ProblemList outside contests; the permission is asked for without the
\* name of its application, so that only a superuser has it.
get_normal_queryset(u) ==
  /\ problem.is_public \/ u \in problem.editors \cup problem.testers
  /\ \/ has_perm(u, "is_superuser")
     \/ ~problem.is_organization_private
     \/ authenticated(u) /\ in_organization(u)

problem_listed(u, c) == IF c THEN contest.has_problem ELSE get_normal_queryset(u)

\* The problems of an organization's statistics are chosen by a copy of it.
by_organization_listed(u, c) == problem_listed(u, c)

\* RandomProblem draws from the list, and only outside contests.
random_problem(u, c) == ~c /\ get_normal_queryset(u)
-----------------------------------------------------------------------------
(* The links of the problem's page.                                        *)

editorial_link(u, c, x) == x.solution /\ solution_accessible(u) /\ ~c

submit_link(u, c, x) ==
  ~(authenticated(u) /\ c /\ contest.has_problem /\ x.limit_reached)

problem_links(u, c, x) ==
  [ guide        |-> guide_accessible(u, x) /\ ~c,
    schema       |-> x.database # "none",
    submit       |-> submit_link(u, c, x),
    mine         |-> authenticated(u) /\ x.submitted,
    all          |-> TRUE,
    best         |-> TRUE,
    voted        |-> TRUE,
    solve_status |-> ~c,
    editorial    |-> editorial_link(u, c, x),
    tickets      |-> is_editable_by(u) \/ (authenticated(u) /\ x.ticketed),
    edit         |-> is_editable_by(u),
    data         |-> is_editable_by(u) /\ ~x.manual,
    manage       |-> is_subs_manageable_by(u),
    clone        |-> has_perm(u, "clone_problem"),
    new_ticket   |-> authenticated(u) /\ ~x.mute,
    pdf          |-> TRUE ]
-----------------------------------------------------------------------------
(* The views behind them.                                                  *)

ProblemGuide(u, c, x) ==
  is_accessible_by(u, c) /\ guide_accessible(u, x) /\ ~c

ProblemDatabaseSchema(u, c, x) == is_accessible_by(u, c) /\ x.database = "readable"

ProblemSolution(u, c, x) ==
  is_accessible_by(u, c) /\ x.solution /\ solution_accessible(u) /\ ~c

ProblemSubmit(u, c) == for_members(u, is_accessible_by(u, c))

SolveStatus(u, c) == for_members(u, is_accessible_by(u, c))

\* The lists of submissions to the problem.  All but one's own ask the
\* contest one is in for its scoreboard, and all ask whether it has the
\* problem.
UserProblemSubmissions(u, author, c) ==
  /\ is_accessible_by(u, c)
  /\ u = author \/ (c => can_see_own_scoreboard(u, c))
  /\ c => contest.has_problem

ProblemSubmissions(u, c) ==
  /\ is_accessible_by(u, c)
  /\ c => can_see_own_scoreboard(u, c) /\ contest.has_problem

ProblemTicketListView(u, c) ==
  for_members(u, is_editable_by(u) \/ is_accessible_by(u, c))

\* ProblemAdmin: its list, then its permission for the one row.
admin_problem(u) ==
  has_perm(u, "is_staff") /\ get_editable_problems(u) /\ is_editable_by(u)

ProblemDataView(u, c, x) ==
  for_members(u, /\ is_accessible_by(u, c) /\ ~x.manual
                 /\ has_perm(u, "is_superuser") \/ is_editable_by(u))

ManageProblemSubmissionView(u, c) == is_accessible_by(u, c) /\ is_subs_manageable_by(u)

ProblemClone(u, c) == has_perm(u, "clone_problem") /\ is_accessible_by(u, c)

NewProblemTicketView(u, c) == for_members(u, is_accessible_by(u, c))

ProblemPdfView(u, c) == is_accessible_by(u, c)

problem_pages(u, c, x) ==
  [ guide        |-> ProblemGuide(u, c, x),
    schema       |-> ProblemDatabaseSchema(u, c, x),
    submit       |-> ProblemSubmit(u, c),
    mine         |-> UserProblemSubmissions(u, u, c),
    all          |-> ProblemSubmissions(u, c),
    best         |-> ProblemSubmissions(u, c),
    voted        |-> ProblemSubmissions(u, c),
    solve_status |-> SolveStatus(u, c),
    editorial    |-> ProblemSolution(u, c, x),
    tickets      |-> ProblemTicketListView(u, c),
    edit         |-> admin_problem(u),
    data         |-> ProblemDataView(u, c, x),
    manage       |-> ManageProblemSubmissionView(u, c),
    clone        |-> ProblemClone(u, c),
    new_ticket   |-> NewProblemTicketView(u, c),
    pdf          |-> ProblemPdfView(u, c) ]
-----------------------------------------------------------------------------
(* Properties.  They speak of the rows, so that it is enough to ask them   *)
(* between requests.                                                       *)

\* The links that the code shows and does not honour: the lists of
\* submissions while one is in a contest without the problem, or in one that
\* has not begun and whose board is closed; the administration for editors
\* who are no staff or lack edit_own_problem; a database that cannot be read.
dead_problem_links(u, c, x) ==
  (IF c /\ ~contest.has_problem THEN {"mine", "all", "best", "voted"} ELSE {})
    \cup (IF c /\ ~can_see_own_scoreboard(u, c) THEN {"all", "best", "voted"} ELSE {})
    \cup (IF has_perm(u, "is_staff") /\ has_perm(u, "edit_own_problem") THEN {} ELSE {"edit"})
    \cup (IF x.database = "broken" THEN {"schema"} ELSE {})

\* A problem that is listed opens, and whoever sees its page can follow each
\* of its links, those above apart: sixteen conditions of a template against
\* the checks of fifteen views, with and without a contest around them.
ProblemLinksOpen ==
  request = NoRequest =>
    \A u \in User :
      LET c == in_contest(u)
      IN  /\ problem_listed(u, c) \/ by_organization_listed(u, c) \/ random_problem(u, c)
               => is_accessible_by(u, c)
          /\ is_accessible_by(u, c) =>
               \A x \in PageForms :
                 LET links == problem_links(u, c, x)
                     pages == problem_pages(u, c, x)
                 IN  \A l \in DOMAIN links :
                       links[l] => (pages[l] <=> l \notin dead_problem_links(u, c, x))
===============================================================================
