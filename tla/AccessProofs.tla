---------------------------- MODULE AccessProofs ----------------------------
(***************************************************************************)
(* Proofs about Access.  The agreements of lists and pages hold in every   *)
(* well-typed state, whatever the roles and the rows; the rule about the   *)
(* contest door needs the invariant that a request which found its user in *)
(* a contest had access to it.                                             *)
(***************************************************************************)
EXTENDS ContestPages, TLAPS

\* The rows and the request stay well typed through every edit and request.
THEOREM AccessTypes == Spec => []TypeOK
<1>1. Init => TypeOK
  <2>1. SUFFICES ASSUME Init PROVE TypeOK
    OBVIOUS
  <2>2. perms \in [Profile -> SUBSET Perm]
    BY <2>1, RolesAssumption DEF Init
  <2>3. PICK m \in [Profile -> Memberships] :
          /\ member = [u \in Profile |-> m[u][1]]
          /\ admin_of = [u \in Profile |-> m[u][2]]
    BY <2>1 DEF Init
  <2>4. \A u \in Profile : m[u] \in (SUBSET Org) \X (SUBSET Org)
    BY <2>3, MembershipsAssumption
  <2>5. member \in [Profile -> SUBSET Org] /\ admin_of \in [Profile -> SUBSET Org]
    BY <2>3, <2>4
  <2>6. problem \in Problems /\ contest \in Contests
    BY <2>1, FormsAssumption DEF Init
  <2>7. ticket \in Tickets
    BY <2>1 DEF Init, Tickets
  <2>8. clock \in Clock /\ current \in [Profile -> Window] /\ request \in Requests
    BY <2>1 DEF Init, Clock, Window, Requests
  <2> QED
    BY <2>2, <2>5, <2>6, <2>7, <2>8 DEF TypeOK
<1>2. TypeOK /\ [Next]_vars => TypeOK'
  <2> SUFFICES ASSUME TypeOK, [Next]_vars PROVE TypeOK'
    OBVIOUS
  <2>1. ASSUME NEW f \in ProblemForms, SaveProblem(f) PROVE TypeOK'
    BY <2>1, FormsAssumption DEF TypeOK, SaveProblem, people
  <2>2. ASSUME NEW f \in ContestForms, SaveContest(f) PROVE TypeOK'
    BY <2>2, FormsAssumption DEF TypeOK, SaveContest, people
  <2>3. CASE Tick
    BY <2>3 DEF TypeOK, Tick, people, Clock, Window
  <2>4. ASSUME NEW u \in Profile, WindowCloses(u) \/ Join(u) \/ Leave(u) PROVE TypeOK'
    BY <2>4 DEF TypeOK, WindowCloses, Join, Leave, people, Window
  <2>5. ASSUME NEW u \in User, Middleware(u) PROVE TypeOK'
    <3>1. current' \in [Profile -> Window]
      BY <2>5 DEF TypeOK, Middleware, update_contest, Window
    <3>2. request' \in Requests
      <4>1. contest_accessible(u) \in BOOLEAN
        BY DEF contest_accessible, has_perm, contest_editable
      <4>2. (authenticated(u) /\ current'[u] # "none") \in BOOLEAN
        BY DEF authenticated
      <4> QED
        BY <2>5, <4>1, <4>2 DEF Middleware, Requests
    <3> QED
      BY <2>5, <3>1, <3>2 DEF TypeOK, Middleware, people
  <2>6. CASE GetObject
    <3>1. request.user \in User /\ request.allowed \in BOOLEAN
      BY <2>6 DEF TypeOK, GetObject, Requests, NoRequest
    <3>2. is_accessible_by(request.user, request.in_contest) \in BOOLEAN
      BY DEF is_accessible_by, accessible_outside_contests
    <3>3. request' \in Requests
      BY <2>6, <3>1, <3>2 DEF GetObject, Requests
    <3> QED
      BY <2>6, <3>3 DEF TypeOK, GetObject, people
  <2>7. CASE UNCHANGED vars
    BY <2>7 DEF TypeOK, vars
  <2> QED
    BY <2>1, <2>2, <2>3, <2>4, <2>5, <2>6, <2>7 DEF Next
<1> QED
  BY <1>1, <1>2, PTL DEF Spec

\* Only profiles hold permissions and appear in the rows' relations.
LEMMA VisitorsHaveNothing ==
  ASSUME TypeOK, NEW u \in User, u \notin Profile
  PROVE  /\ u \notin problem.editors /\ u \notin problem.testers
         /\ u \notin contest.organizers /\ u \notin contest.private_contestants
         /\ u \notin contest.view_contest_scoreboard
         /\ ~authenticated(u) /\ \A p : ~has_perm(u, p)
BY DEF TypeOK, Problems, Contests, authenticated, has_perm

\* get_visible_problems and is_accessible_by agree for every user, role and
\* problem.
THEOREM ProblemListIsRight == Spec => []ListedIffAccessible
<1>1. TypeOK => ListedIffAccessible
  <2> SUFFICES ASSUME TypeOK, NEW u \in User
               PROVE get_visible_problems(u) <=> accessible_outside_contests(u)
    BY DEF ListedIffAccessible
  <2>1. CASE u \notin Profile
    BY <2>1, VisitorsHaveNothing
       DEF get_visible_problems, accessible_outside_contests, get_public_problems
  <2>2. CASE u \in Profile
    BY <2>2 DEF get_visible_problems, accessible_outside_contests, is_editable_by,
                authenticated, has_perm
  <2> QED
    BY <2>1, <2>2
<1> QED
  BY <1>1, AccessTypes, PTL

\* get_editable_problems is is_editable_by for holders of edit_own_problem.
THEOREM EditableListIsRight == Spec => []EditableListAgrees
<1>1. EditableListAgrees
  BY DEF EditableListAgrees, get_editable_problems, is_editable_by, has_perm,
         authenticated
<1> QED
  BY <1>1, PTL

\* get_visible_contests is is_accessible_by and the organizers.
LEMMA VisibleContests ==
  ASSUME TypeOK, NEW u \in User
  PROVE  get_visible_contests(u) <=> contest_accessible(u) \/ u \in contest.organizers
<1>1. CASE u \notin Profile
  BY <1>1, VisitorsHaveNothing
     DEF get_visible_contests, contest_accessible, contest_editable, invited, TypeOK, Contests
<1>2. CASE u \in Profile
  BY <1>2 DEF get_visible_contests, contest_accessible, contest_editable, invited,
              authenticated, has_perm, TypeOK, Contests
<1> QED
  BY <1>1, <1>2

\* The list of contests has those that open and those of its organizers.
THEOREM ContestListIsRight == Spec => []ContestListAgrees
<1>1. TypeOK => ContestListAgrees
  BY VisibleContests DEF ContestListAgrees
<1> QED
  BY <1>1, AccessTypes, PTL

\* The API lists participations only where the scoreboard may be seen.
THEOREM ApiIsRight == Spec => []ApiRespectsScoreboard
<1>1. ApiRespectsScoreboard
  BY DEF ApiRespectsScoreboard, api_participations, can_see_full_scoreboard,
         show_scoreboard, contest_editable, can_join, ended
<1> QED
  BY <1>1, PTL

\* The ticket list and the ticket page agree.
THEOREM TicketListIsRight == Spec => []TicketListAgrees
<1>1. TicketListAgrees
  BY DEF TicketListAgrees, filter_visible_tickets, ticket_readable,
         get_editable_problems, is_editable_by, has_perm, authenticated
<1> QED
  BY <1>1, PTL

\* The lists of problems, of editable problems, of contests and of tickets
\* show what their pages open, the known exceptions apart, and the API lists
\* participations only where the scoreboard may be seen.
THEOREM ListsAreRight == Spec => []ListsAgree
BY ProblemListIsRight, EditableListIsRight, ContestListIsRight, TicketListIsRight,
   ApiIsRight, PTL
   DEF ListsAgree

\* An editor of a problem is refused nowhere.
THEOREM EditorsSeeAll == Spec => []EditorIsRefusedNowhere
<1>1. EditorIsRefusedNowhere
  <2> SUFFICES ASSUME NEW u \in User, is_editable_by(u)
               PROVE /\ is_accessible_by(u, FALSE) /\ get_visible_problems(u)
                     /\ solution_accessible(u) /\ most_recent(u, FALSE)
                     /\ comment_accessible(u)
                     /\ ticket_readable(u) /\ is_evaluable_by(u)
                     /\ \A a \in Author, solved \in BOOLEAN : can_see_detail(u, a, solved)
    BY DEF EditorIsRefusedNowhere
  <2>1. authenticated(u)
    BY DEF is_editable_by
  <2>2. is_accessible_by(u, FALSE)
    BY <2>1 DEF is_accessible_by, accessible_outside_contests
  <2>3. get_visible_problems(u)
    BY <2>1 DEF get_visible_problems, is_editable_by
  <2>4. solution_accessible(u)
    BY DEF solution_accessible
  <2>5. ticket_readable(u) /\ is_evaluable_by(u)
    BY <2>1 DEF ticket_readable, is_evaluable_by
  <2>6. \A a \in Author, solved \in BOOLEAN : can_see_detail(u, a, solved)
    BY <2>1 DEF can_see_detail
  <2> QED
    BY <2>2, <2>3, <2>4, <2>5, <2>6 DEF most_recent, comment_accessible
<1> QED
  BY <1>1, PTL

\* The rules agree with one another: the two together.
THEOREM RulesAreRight == Spec => []RulesAgree
BY ListsAreRight, EditorsSeeAll, PTL DEF RulesAgree

\* A request that holds a participation had access to the contest.
InContestWasAllowed ==
  request.phase = "view" /\ request.in_contest => request.allowed

\* Who is in a contest could enter it.
LEMMA InContestInvariant == Spec => []InContestWasAllowed
<1>1. Init => InContestWasAllowed
  BY DEF Init, InContestWasAllowed, NoRequest
<1>2. TypeOK /\ InContestWasAllowed /\ [Next]_vars => InContestWasAllowed'
  <2> SUFFICES ASSUME TypeOK, InContestWasAllowed, [Next]_vars
               PROVE InContestWasAllowed'
    OBVIOUS
  <2>1. ASSUME NEW f, SaveProblem(f) \/ SaveContest(f) PROVE InContestWasAllowed'
    BY <2>1 DEF InContestWasAllowed, SaveProblem, SaveContest
  <2>2. CASE Tick \/ UNCHANGED vars
    BY <2>2 DEF InContestWasAllowed, Tick, vars
  <2>3. ASSUME NEW u, WindowCloses(u) \/ Join(u) \/ Leave(u) PROVE InContestWasAllowed'
    BY <2>3 DEF InContestWasAllowed, WindowCloses, Join, Leave
  <2>4. ASSUME NEW u \in User, Middleware(u) PROVE InContestWasAllowed'
    <3>1. SUFFICES ASSUME authenticated(u), current'[u] # "none"
                   PROVE contest_accessible(u)
      BY <2>4 DEF InContestWasAllowed, Middleware
    <3>2. current' = update_contest(u) /\ u \in DOMAIN current /\ current[u] \in Window
      BY <2>4, <3>1 DEF Middleware, TypeOK, authenticated
    <3>3. current[u] = "open" \/ current[u] = "none" \/ current[u] = "over"
      BY <3>2 DEF Window
    <3>4. SUFFICES ASSUME ~contest_accessible(u) PROVE FALSE
      OBVIOUS
    <3>5. CASE current[u] = "none"
      BY <3>1, <3>2, <3>5 DEF update_contest
    <3>6. CASE current[u] # "none"
      <4>1. update_contest(u) = [current EXCEPT ![u] = "none"]
        BY <3>3, <3>4, <3>6 DEF update_contest
      <4>2. current'[u] = "none"
        BY <3>2, <4>1
      <4> QED
        BY <3>1, <4>2
    <3> QED
      BY <3>5, <3>6
  <2>5. CASE GetObject
    BY <2>5 DEF InContestWasAllowed, GetObject
  <2> QED
    BY <2>1, <2>2, <2>3, <2>4, <2>5 DEF Next
<1> QED
  BY <1>1, <1>2, AccessTypes, PTL DEF Spec

\* A problem opens through the contest only to those the contest was open to
\* when the middleware ran.
THEOREM ContestDoor == Spec => ContestDoorIsChecked
<1>1. InContestWasAllowed /\ [Next]_vars =>
        [request.phase = "view" /\ request'.phase = "answered" /\ request'.granted
           /\ ~accessible_outside_contests(request.user)
           => request.allowed /\ contest.has_problem]_vars
  <2> SUFFICES ASSUME InContestWasAllowed, [Next]_vars,
                      request.phase = "view", request'.phase = "answered",
                      request'.granted, ~accessible_outside_contests(request.user)
               PROVE request.allowed /\ contest.has_problem
    OBVIOUS
  <2>1. request' # request
    BY DEF vars
  <2>2. GetObject
    <3>1. ASSUME NEW f, SaveProblem(f) \/ SaveContest(f) PROVE FALSE
      BY <2>1, <3>1 DEF SaveProblem, SaveContest
    <3>2. CASE Tick \/ UNCHANGED vars
      BY <2>1, <3>2 DEF Tick, vars
    <3>3. ASSUME NEW u, WindowCloses(u) \/ Join(u) \/ Leave(u) PROVE FALSE
      BY <2>1, <3>3 DEF WindowCloses, Join, Leave
    <3>4. ASSUME NEW u, Middleware(u) PROVE FALSE
      BY <3>4 DEF Middleware
    <3> QED
      BY <3>1, <3>2, <3>3, <3>4 DEF Next
  <2>3. is_accessible_by(request.user, request.in_contest)
    BY <2>2 DEF GetObject
  <2> QED
    BY <2>3 DEF is_accessible_by, InContestWasAllowed
<1> QED
  BY <1>1, InContestInvariant, PTL DEF Spec, ContestDoorIsChecked

-----------------------------------------------------------------------------
(* The pages about problems, submissions and contests *)

\* Roles are handed out once: a superuser holds every permission.
RolesHold == \A u \in Profile : perms[u] \in Roles

\* Nobody's role changes.
LEMMA RolesStay == Spec => []RolesHold
<1>1. Init => RolesHold
  BY DEF Init, RolesHold
<1>2. RolesHold /\ [Next]_vars => RolesHold'
  BY DEF RolesHold, Next, vars, people, SaveProblem, SaveContest, Tick, WindowCloses, Join, Leave,
         Middleware, GetObject
<1> QED
  BY <1>1, <1>2, PTL DEF Spec

\* A superuser passes every check of a permission.
LEMMA SuperusersHaveAll ==
  ASSUME RolesHold, NEW u \in User, has_perm(u, "is_superuser"), NEW p \in Perm
  PROVE  has_perm(u, p)
BY RolesAssumption DEF RolesHold, has_perm, authenticated

\* What the problem list shows to whom.
LEMMA ProblemList ==
  ASSUME TypeOK, NEW u \in User
  PROVE  get_visible_problems(u) <=> accessible_outside_contests(u)
<1>1. CASE u \notin Profile
  BY <1>1, VisitorsHaveNothing
     DEF get_visible_problems, accessible_outside_contests, get_public_problems
<1>2. CASE u \in Profile
  BY <1>2 DEF get_visible_problems, accessible_outside_contests, is_editable_by,
              authenticated, has_perm
<1> QED
  BY <1>1, <1>2

\* Whatever lists a problem, its page opens.
LEMMA ListedOpens ==
  ASSUME TypeOK, RolesHold, NEW u \in User, NEW c \in BOOLEAN, c => authenticated(u), problem_listed(u, c)
  PROVE  is_accessible_by(u, c)
<1>1. CASE c
  BY <1>1 DEF problem_listed, is_accessible_by
<1>2. CASE ~c
  <2>1. get_normal_queryset(u)
    BY <1>2 DEF problem_listed
  <2>2. CASE ~authenticated(u)
    BY <2>1, <2>2, VisitorsHaveNothing
       DEF get_normal_queryset, is_accessible_by, accessible_outside_contests, authenticated
  <2>3. CASE authenticated(u)
    <3>1. has_perm(u, "is_superuser") => has_perm(u, "see_organization_problem")
      BY SuperusersHaveAll DEF Perm
    <3> QED
      BY <2>1, <2>3, <3>1 DEF get_normal_queryset, is_accessible_by, accessible_outside_contests
  <2> QED
    BY <2>2, <2>3
<1> QED
  BY <1>1, <1>2

\* The links of the problem's page, one by one: l is shown, and opens unless it
\* is one of those that are known not to.
LinkHolds(u, c, x, l) ==
  problem_links(u, c, x)[l] => (problem_pages(u, c, x)[l] <=> l \notin dead_problem_links(u, c, x))

\* The two links that may open nothing lead where the page says.
LEMMA DeadLinks ==
  ASSUME NEW u, NEW c, NEW x
  PROVE  /\ \A l : l \in dead_problem_links(u, c, x) <=>
              \/ l \in {"mine", "all", "best", "voted"} /\ c /\ ~contest.has_problem
              \/ l \in {"all", "best", "voted"} /\ c /\ ~can_see_own_scoreboard(u, c)
              \/ l = "edit" /\ ~(has_perm(u, "is_staff") /\ has_perm(u, "edit_own_problem"))
              \/ l = "schema" /\ x.database = "broken"
BY DEF dead_problem_links

\* The links a problem page may have.
LEMMA ProblemLinkNames ==
  \A u, c, x : DOMAIN problem_links(u, c, x) =
    {"guide", "schema", "submit", "mine", "all", "best", "voted", "solve_status", "editorial", "tickets", "edit", "data", "manage", "clone", "new_ticket", "pdf"}
BY DEF problem_links

\* When a problem page has which link.
LEMMA ProblemLinks ==
  ASSUME TypeOK, NEW u \in User, NEW c \in BOOLEAN, c => authenticated(u), NEW x \in Forms,
         is_accessible_by(u, c), NEW l \in DOMAIN problem_links(u, c, x)
  PROVE  LinkHolds(u, c, x, l)
<1> USE DeadLinks DEF LinkHolds, problem_links, problem_pages
<1>1. LinkHolds(u, c, x, "guide")
  BY DEF ProblemGuide
<1>2. LinkHolds(u, c, x, "schema")
  BY DEF ProblemDatabaseSchema, Forms
<1>3. LinkHolds(u, c, x, "submit")
  BY DEF ProblemSubmit, for_members, submit_link
<1>4. LinkHolds(u, c, x, "mine")
  BY DEF UserProblemSubmissions
<1>5. LinkHolds(u, c, x, "all")
  BY DEF ProblemSubmissions
<1>6. LinkHolds(u, c, x, "best")
  BY DEF ProblemSubmissions
<1>7. LinkHolds(u, c, x, "voted")
  BY DEF ProblemSubmissions
<1>8. LinkHolds(u, c, x, "solve_status")
  BY DEF SolveStatus, for_members
<1>9. LinkHolds(u, c, x, "editorial")
  BY DEF editorial_link, ProblemSolution
<1>10. LinkHolds(u, c, x, "tickets")
  BY DEF ProblemTicketListView, for_members
<1>11. LinkHolds(u, c, x, "edit")
  <2>1. is_editable_by(u) \in BOOLEAN /\ admin_problem(u) \in BOOLEAN
    BY DEF is_editable_by, admin_problem
  <2>2. get_editable_problems(u) <=> is_editable_by(u) /\ has_perm(u, "edit_own_problem")
    BY DEF get_editable_problems, is_editable_by, has_perm, authenticated
  <2>3. is_editable_by(u) => (admin_problem(u) <=> has_perm(u, "is_staff") /\ has_perm(u, "edit_own_problem"))
    BY <2>2 DEF admin_problem
  <2> QED
    BY <2>1, <2>3
<1>12. LinkHolds(u, c, x, "data")
  BY DEF ProblemDataView, for_members
<1>13. LinkHolds(u, c, x, "manage")
  BY DEF ManageProblemSubmissionView, is_subs_manageable_by, has_perm
<1>14. LinkHolds(u, c, x, "clone")
  BY DEF ProblemClone, has_perm
<1>15. LinkHolds(u, c, x, "new_ticket")
  BY DEF NewProblemTicketView, for_members
<1>16. LinkHolds(u, c, x, "pdf")
  BY DEF ProblemPdfView
<1> QED
  BY <1>1, <1>2, <1>3, <1>4, <1>5, <1>6, <1>7, <1>8, <1>9, <1>10, <1>11, <1>12, <1>13, <1>14, <1>15, <1>16, ProblemLinkNames

\* What is listed opens, and the problem's page shows no link that its view does
\* not honour, the known ones apart.
THEOREM ProblemPagesAreRight == Spec => []ProblemLinksOpen
<1>1. TypeOK /\ RolesHold => ProblemLinksOpen
  <2> SUFFICES ASSUME TypeOK, RolesHold, NEW u \in User, NEW c, c = in_contest(u)
               PROVE  /\ problem_listed(u, c) \/ by_organization_listed(u, c) \/ random_problem(u, c)
                           => is_accessible_by(u, c)
                      /\ is_accessible_by(u, c) =>
                           \A x \in PageForms : \A l \in DOMAIN problem_links(u, c, x) :
                             LinkHolds(u, c, x, l)
    BY DEF ProblemLinksOpen, LinkHolds
  <2>1. c \in BOOLEAN /\ (c => authenticated(u))
    BY DEF in_contest, authenticated
  <2>2. problem_listed(u, c) \/ by_organization_listed(u, c) \/ random_problem(u, c)
          => is_accessible_by(u, c)
    BY <2>1, ListedOpens DEF by_organization_listed, random_problem, problem_listed
  <2>3. ASSUME is_accessible_by(u, c), NEW x \in PageForms, NEW l \in DOMAIN problem_links(u, c, x)
        PROVE  LinkHolds(u, c, x, l)
    BY <2>1, <2>3, PageFormsAssumption, ProblemLinks
  <2> QED
    BY <2>2, <2>3
<1> QED
  BY <1>1, AccessTypes, RolesStay, PTL
-----------------------------------------------------------------------------
\* Who may edit, as the rows decide it by the filter for editable problems.
LEMMA RowEditors ==
  ASSUME NEW u
  PROVE  /\ row_can_edit(u) <=>
              has_perm(u, "edit_all_problem") \/ (is_editable_by(u) /\ has_perm(u, "edit_own_problem"))
         /\ row_can_edit(u) => is_editable_by(u) /\ authenticated(u)
<1>1. get_editable_problems(u) <=> is_editable_by(u) /\ has_perm(u, "edit_own_problem")
  BY DEF get_editable_problems, is_editable_by, has_perm, authenticated
<1> QED
  BY <1>1 DEF row_can_edit, is_editable_by, has_perm

\* What a page of a submission may show.
LEMMA PageValues ==
  ASSUME NEW u, NEW author, NEW solved
  PROVE  /\ row_can_edit(u) \in BOOLEAN /\ row_can_view(u, author, solved) \in BOOLEAN
         /\ can_see_detail(u, author, solved) \in BOOLEAN /\ is_editable_by(u) \in BOOLEAN
         /\ is_subs_manageable_by(u) \in BOOLEAN /\ rejudge_submission(u) \in BOOLEAN
         /\ admin_submission(u) \in BOOLEAN
         /\ \A c : is_accessible_by(u, c) \in BOOLEAN
         /\ \A p : has_perm(u, p) \in BOOLEAN
BY DEF row_can_edit, row_can_view, can_see_detail, is_editable_by, is_subs_manageable_by,
       rejudge_submission, for_members, admin_submission, is_accessible_by, has_perm

\* The row of a submission shows what its page would.
LEMMA RowsAgreeAlways ==
  ASSUME TypeOK, NEW u \in User, NEW author, NEW inside \in BOOLEAN,
         NEW c \in BOOLEAN, c => authenticated(u)
  PROVE  RowsAgree(u, author, inside, c)
<1>1. get_visible_problems(u) <=> accessible_outside_contests(u)
  BY ProblemList
<1>2. api_v1_submission_listed => accessible_outside_contests(u)
  BY DEF api_v1_submission_listed, accessible_outside_contests
<1>3. CASE c
  BY <1>1, <1>2, <1>3 DEF RowsAgree, submission_listed, row_accessible, is_accessible_by,
                          api_submission_listed, api_problem_detail, api_v1_problem_info,
                          api_problem_list, api_v1_problem_list
<1>4. CASE ~c
  BY <1>1, <1>2, <1>4 DEF RowsAgree, submission_listed, problem_row, row_accessible, is_accessible_by,
                          api_submission_listed, api_problem_detail, api_v1_problem_info,
                          api_problem_list, api_v1_problem_list, contest_is_open_to
<1> QED
  BY <1>3, <1>4

\* The links of a row open.
LEMMA RowLinksOpenAlways ==
  ASSUME TypeOK, NEW u \in User, NEW author, NEW inside \in BOOLEAN, NEW solved \in BOOLEAN,
         NEW c \in BOOLEAN, c => authenticated(u)
  PROVE  RowLinksOpen(u, author, inside, solved, c)
<1> DEFINE links == row_links(u, author, solved)
           pages == row_pages(u, author, solved, c)
<1> SUFFICES ASSUME submission_listed(u, author, inside, c), NEW l \in DOMAIN links, links[l], ~pages[l]
             PROVE  \/ l = "problem" /\ c /\ ~contest.has_problem
                    \/ l = "rejudge" /\ ~has_perm(u, "is_staff")
                    \/ /\ l = "admin"
                       /\ \/ ~has_perm(u, "is_staff") \/ ~has_perm(u, "edit_own_problem")
                          \/ ~has_perm(u, "edit_all_problem") /\ u \notin problem.editors
  BY DEF RowLinksOpen
<1>1. l \in {"status", "problem", "rejudge", "admin"}
  BY DEF row_links
<1>2. CASE l = "status"
  <2>1. row_can_view(u, author, solved) /\ ~for_members(u, can_see_detail(u, author, solved))
    BY <1>2, PageValues DEF row_links, row_pages
  <2> QED
    BY <2>1, RowEditors DEF for_members, row_can_view, can_see_detail
<1>3. CASE l = "problem"
  <2>1. ~is_accessible_by(u, c)
    BY <1>3, PageValues DEF row_links, row_pages
  <2>2. get_visible_problems(u) <=> accessible_outside_contests(u)
    BY ProblemList
  <2> QED
    BY <1>3, <2>1, <2>2 DEF submission_listed, is_accessible_by
<1>4. CASE l = "rejudge"
  <2>1. row_can_edit(u) /\ has_perm(u, "rejudge_submission") /\ ~rejudge_submission(u)
    BY <1>4, PageValues DEF row_links, row_pages
  <2> QED
    BY <1>4, <2>1, RowEditors DEF rejudge_submission, for_members, is_subs_manageable_by
<1>5. CASE l = "admin"
  <2>1. ~admin_submission(u)
    BY <1>5, PageValues DEF row_links, row_pages
  <2> QED
    BY <1>5, <2>1 DEF admin_submission
<1> QED
  BY <1>1, <1>2, <1>3, <1>4, <1>5

\* A submission whose page opens although the problem's own does not.
LEMMA DetailWithoutProblem ==
  ASSUME NEW u, NEW author, NEW solved, NEW c, can_see_detail(u, author, solved),
         ~accessible_outside_contests(u)
  PROVE  /\ ~is_editable_by(u)
         /\ \/ u = author \/ has_perm(u, "view_all_submission")
            \/ solved /\ problem.is_public /\ problem.is_organization_private
BY DEF can_see_detail, accessible_outside_contests

\* The links of the status page open.
LEMMA StatusLinksOpenAlways ==
  ASSUME TypeOK, NEW u \in User, NEW author, NEW solved \in BOOLEAN, NEW rejudged \in BOOLEAN, NEW c \in BOOLEAN
  PROVE  StatusLinksOpen(u, author, solved, rejudged, c)
<1> DEFINE links == status_links(u, author)
           pages == status_pages(u, author, solved, rejudged, c)
<1>1. can_see_detail(u, author, solved) /\ ~row_can_view(u, author, solved) =>
        is_editable_by(u) /\ ~has_perm(u, "edit_own_problem")
  BY RowEditors DEF can_see_detail, row_can_view
<1>2. ASSUME can_see_detail(u, author, solved), NEW l \in DOMAIN links, links[l], ~pages[l]
      PROVE  \/ /\ l \in {"problem", "resubmit"} /\ ~is_editable_by(u)
                /\ \/ u = author \/ has_perm(u, "view_all_submission")
                   \/ solved /\ problem.is_public /\ problem.is_organization_private
             \/ l = "rejudge" /\ ~is_subs_manageable_by(u)
             \/ l = "abort" /\ rejudged /\ u = author
  <2>1. l \in {"source", "problem", "resubmit", "rejudge", "abort"}
    BY <1>2 DEF status_links
  <2>2. authenticated(u)
    BY <1>2 DEF can_see_detail
  <2>3. CASE l = "source"
    BY <1>2, <2>3, PageValues DEF status_pages
  <2>4. CASE l \in {"problem", "resubmit"}
    <3>1. ~is_accessible_by(u, c)
      BY <1>2, <2>4, PageValues DEF status_links, status_pages, may_resubmit
    <3>2. ~accessible_outside_contests(u)
      BY <3>1 DEF is_accessible_by
    <3> QED
      BY <1>2, <2>4, <3>2, DetailWithoutProblem
  <2>5. CASE l = "rejudge"
    <3>1. ~rejudge_submission(u)
      BY <1>2, <2>5, PageValues DEF status_pages
    <3> QED
      BY <2>5, <3>1 DEF rejudge_submission, for_members
  <2>6. CASE l = "abort"
    <3>1. (u = author \/ has_perm(u, "abort_any_submission")) /\ ~abort_submission(u, author, rejudged)
      BY <1>2, <2>6, PageValues DEF status_links, status_pages, abort_submission
    <3> QED
      BY <2>2, <2>6, <3>1 DEF abort_submission
  <2> QED
    BY <2>1, <2>3, <2>4, <2>5, <2>6
<1>3. api_submission_detail(u, author, solved) /\ ~api_submission_listed(u) =>
        /\ ~is_editable_by(u)
        /\ \/ u = author \/ has_perm(u, "view_all_submission")
           \/ solved /\ problem.is_public /\ problem.is_organization_private
  BY ProblemList, DetailWithoutProblem DEF api_submission_detail, api_submission_listed
<1> QED
  BY <1>1, <1>2, <1>3 DEF StatusLinksOpen

\* The lists, the rows, the pages and the API agree about submissions.
THEOREM SubmissionPagesAreRight == Spec => []SubmissionsAgree
<1>1. TypeOK => SubmissionsAgree
  <2> SUFFICES ASSUME TypeOK, NEW u \in User, NEW author \in Author, NEW c, c = in_contest(u)
               PROVE  /\ RejudgingAgrees(u)
                      /\ \A inside \in BOOLEAN : RowsAgree(u, author, inside, c)
                      /\ \A inside, solved \in BOOLEAN : RowLinksOpen(u, author, inside, solved, c)
                      /\ \A solved, rejudged \in BOOLEAN :
                           StatusLinksOpen(u, author, solved, rejudged, c)
    BY DEF SubmissionsAgree
  <2>1. c \in BOOLEAN /\ (c => authenticated(u))
    BY DEF in_contest, authenticated
  <2>2. RejudgingAgrees(u)
    BY DEF RejudgingAgrees, admin_judge, admin_submission, rejudge_submission, for_members,
           is_subs_manageable_by, is_editable_by
  <2> QED
    BY <2>1, <2>2, RowsAgreeAlways, RowLinksOpenAlways, StatusLinksOpenAlways
<1> QED
  BY <1>1, AccessTypes, PTL
-----------------------------------------------------------------------------
\* What the pages of a contest may show.
LEMMA ContestValues ==
  ASSUME NEW u
  PROVE  /\ in_contest(u) \in BOOLEAN /\ contest_accessible(u) \in BOOLEAN
         /\ contest_editable(u) \in BOOLEAN /\ contest_opens(u) \in BOOLEAN
         /\ can_join \in BOOLEAN /\ ended \in BOOLEAN /\ is_organizer(u) \in BOOLEAN
         /\ authenticated(u) \in BOOLEAN /\ board_tab(u) \in BOOLEAN
         /\ \A c : can_see_own_scoreboard(u, c) \in BOOLEAN
         /\ \A p : has_perm(u, p) \in BOOLEAN
BY DEF in_contest, contest_accessible, contest_editable, contest_opens, can_join, ended,
       is_organizer, authenticated, board_tab, can_see_own_scoreboard, has_perm

\* The tabs of a contest open.
LEMMA TabsOpenAlways == ASSUME NEW u PROVE TabsOpen(u)
<1> DEFINE tabs == contest_tabs(u)
           pages == contest_pages(u)
<1> SUFFICES ASSUME contest_opens(u), NEW t \in DOMAIN tabs, tabs[t]
             PROVE  pages[t] <=>
                      ~(t = "edit" /\ ~(has_perm(u, "is_staff") /\ has_perm(u, "edit_own_contest")))
  BY DEF TabsOpen
<1> USE ContestValues
<1>1. t \in {"stats", "ranking", "participation", "moss", "edit", "clone", "leave", "join"}
  BY DEF contest_tabs
<1>2. CASE t = "stats"
  BY <1>2 DEF contest_tabs, contest_pages, ContestStats
<1>3. CASE t = "ranking"
  BY <1>3 DEF contest_tabs, contest_pages, board_tab, ContestRanking
<1>4. CASE t = "participation"
  BY <1>4 DEF contest_tabs, contest_pages, board_tab, ContestParticipationList, for_members
<1>5. CASE t = "moss"
  BY <1>5 DEF contest_tabs, contest_pages, ContestMossView
<1>6. CASE t = "edit"
  <2>1. contest_editable(u)
    BY <1>6 DEF contest_tabs
  <2>2. pages[t] <=> admin_contest(u)
    BY <1>6 DEF contest_pages
  <2> QED
    BY <1>6, <2>1, <2>2 DEF admin_contest, contest_editable, is_organizer
<1>7. CASE t = "clone"
  BY <1>7 DEF contest_tabs, contest_pages, ContestClone
<1>8. CASE t \in {"leave", "join"}
  <2>1. /\ authenticated(u) /\ (can_join \/ is_organizer(u))
        /\ t = "leave" => in_contest(u)
    BY <1>8 DEF contest_tabs
  <2>2. /\ pages.leave <=> contest_opens(u) /\ in_contest(u)
        /\ pages.join <=> contest_opens(u) /\ (can_join \/ is_organizer(u))
    BY DEF contest_pages
  <2> QED
    BY <1>8, <2>1, <2>2
<1> QED
  BY <1>1, <1>2, <1>3, <1>4, <1>5, <1>6, <1>7, <1>8

\* The problems a contest page lists open.
LEMMA ContestProblemsOpenAlways ==
  ASSUME TypeOK, NEW u, NEW scheduled PROVE ContestProblemsOpen(u, scheduled)
<1> DEFINE links == contest_problem_links(u, scheduled)
           pages == contest_problem_pages(u)
           c == in_contest(u)
<1> SUFFICES ASSUME contest.has_problem, NEW l \in DOMAIN links, links[l], ~pages[l]
             PROVE  \/ problem.is_organization_private /\ ~is_accessible_by(u, c)
                    \/ l = "editorial" /\ (c \/ ~problem.editorial)
                    \/ l = "best" /\ c /\ ~can_see_own_scoreboard(u, c)
  BY DEF ContestProblemsOpen
<1>1. l \in {"problem", "best", "editorial"}
  BY DEF contest_problem_links
<1>2. problem.is_public
  <2>1. problem.is_public \in BOOLEAN
    BY DEF TypeOK, Problems
  <2> QED
    BY <1>1, <2>1 DEF contest_problem_links
<1>3. is_accessible_by(u, c) \/ problem.is_organization_private
  BY <1>2 DEF is_accessible_by, accessible_outside_contests
<1>4. is_accessible_by(u, c) \in BOOLEAN
  BY PageValues
<1>5. CASE l = "problem"
  BY <1>3, <1>4, <1>5 DEF contest_problem_pages
<1>6. CASE l = "best"
  BY <1>3, <1>4, <1>6 DEF contest_problem_pages, ProblemSubmissions
<1>7. CASE l = "editorial"
  BY <1>3, <1>4, <1>7 DEF contest_problem_pages, solution_accessible
<1> QED
  BY <1>1, <1>5, <1>6, <1>7

\* A scoreboard that is linked opens.
LEMMA BoardOpensAlways == ASSUME NEW u PROVE BoardOpens(u)
<1> SUFFICES ASSUME ContestRanking(u), can_see_full_scoreboard(u)
             PROVE  /\ contest_accessible(u) => contest_ranking_ajax(u) /\ contest_user_search(u)
                    /\ contest_editable(u) => ContestParticipationDisqualify(u)
                    /\ \A p \in Author :
                         /\ ContestParticipationList(u, p)
                         /\ is_accessible_by(u, in_contest(u)) /\ contest_forced(u) /\ contest.has_problem =>
                              UserContestSubmissions(u, p, TRUE) /\ ContestRankedSubmission(u)
                         /\ contest_forced(u) /\ get_visible_problems(u) =>
                              UserAllContestSubmissions(u, p, TRUE) /\ all_contest_row(u, p, TRUE)
  BY DEF BoardOpens
<1>1. contest_accessible(u) => contest_ranking_ajax(u) /\ contest_user_search(u)
  BY DEF contest_ranking_ajax, contest_user_search
<1>2. contest_editable(u) => ContestParticipationDisqualify(u)
  BY DEF ContestRanking, ContestParticipationDisqualify
<1>3. ASSUME NEW p \in Author PROVE ContestParticipationList(u, p)
  BY DEF ContestRanking, ContestParticipationList, for_members
<1>4. ASSUME NEW p \in Author, is_accessible_by(u, in_contest(u)), contest_forced(u), contest.has_problem
      PROVE  UserContestSubmissions(u, p, TRUE) /\ ContestRankedSubmission(u)
  BY <1>4 DEF ContestRanking, UserContestSubmissions, can_see_own_scoreboard, ContestRankedSubmission
<1>5. ASSUME NEW p \in Author, contest_forced(u), get_visible_problems(u)
      PROVE  UserAllContestSubmissions(u, p, TRUE) /\ all_contest_row(u, p, TRUE)
  BY <1>5 DEF UserAllContestSubmissions, all_contest_row, in_contest_row
<1> QED
  BY <1>1, <1>2, <1>3, <1>4, <1>5

\* A scoreboard that is hidden is not shown by another page.
LEMMA BoardIsHiddenAlways == ASSUME NEW u PROVE BoardIsHidden(u)
<1> SUFFICES ASSUME ~can_see_full_scoreboard(u)
             PROVE  /\ ~contest_ranking_ajax(u) /\ ~contest_user_search(u)
                    /\ ~api_can_see_rankings(u) /\ ~api_v1_contest_detail(u, TRUE)
                    /\ ~api_participations(u) /\ ~api_history(u)
                    /\ \A p \in Author \ {u} :
                         /\ authenticated(u) => ~ContestParticipationList(u, p)
                         /\ ~UserAllContestSubmissions(u, p, TRUE)
                         /\ ~in_contest_row(u, p, TRUE)
  BY DEF BoardIsHidden
<1>1. /\ ~ended /\ ~has_perm(u, "see_private_contest") /\ ~contest_editable(u)
      /\ u \notin contest.view_contest_scoreboard
  BY DEF can_see_full_scoreboard, show_scoreboard, can_join, ended
<1>2. ~api_participations(u) /\ ~api_history(u)
  BY <1>1 DEF api_participations, api_history, contest_editable
<1>3. /\ ~contest_ranking_ajax(u) /\ ~contest_user_search(u)
      /\ ~api_can_see_rankings(u) /\ ~api_v1_contest_detail(u, TRUE)
  BY DEF contest_ranking_ajax, contest_user_search, api_can_see_rankings, api_v1_contest_detail
<1>4. \A p \in Author \ {u} :
        /\ authenticated(u) => ~ContestParticipationList(u, p)
        /\ ~UserAllContestSubmissions(u, p, TRUE)
        /\ ~in_contest_row(u, p, TRUE)
  BY DEF ContestParticipationList, for_members, UserAllContestSubmissions, in_contest_row
<1> QED
  BY <1>2, <1>3, <1>4

\* The API's lists of contests.
LEMMA ApiListsOpenAlways ==
  ASSUME TypeOK, NEW u \in User
  PROVE  ApiListsOpen(u)
<1>1. u \in contest.organizers /\ has_perm(u, "edit_own_contest") => contest_editable(u)
  BY VisitorsHaveNothing DEF contest_editable, authenticated, TypeOK, Contests
<1>2. contest_editable(u) => contest_accessible(u)
  BY DEF contest_accessible
<1> QED
  BY <1>1, <1>2, VisibleContests
     DEF ApiListsOpen, api_contest_opens, api_contest_list, api_v1_contest_list,
         api_v1_contest_detail, is_organizer

\* The contest's pages lead where they say, and what its board hides no other
\* page shows.
THEOREM ContestPagesAreRight == Spec => []ContestPagesAgree
<1>1. TypeOK => ContestPagesAgree
  <2> SUFFICES ASSUME TypeOK, NEW u \in User
               PROVE  /\ TabsOpen(u) /\ \A scheduled \in BOOLEAN : ContestProblemsOpen(u, scheduled)
                      /\ BoardOpens(u) /\ BoardIsHidden(u) /\ ApiListsOpen(u)
                      /\ api_contest_opens(u) => contest_opens(u)
                      /\ api_v1_contest_detail(u, FALSE) <=>
                           api_contest_opens(u) /\ api_can_see_problems(u)
    BY DEF ContestPagesAgree
  <2>1. /\ api_contest_opens(u) => contest_opens(u)
        /\ api_v1_contest_detail(u, FALSE) <=> api_contest_opens(u) /\ api_can_see_problems(u)
    BY DEF api_contest_opens, contest_opens, api_v1_contest_detail, api_can_see_problems
  <2> QED
    BY <2>1, TabsOpenAlways, ContestProblemsOpenAlways, BoardOpensAlways, BoardIsHiddenAlways,
       ApiListsOpenAlways
<1> QED
  BY <1>1, AccessTypes, PTL

\* The pages about problems, submissions and contests lead where they say.
THEOREM PagesAreRight == Spec => []PagesAgree
BY ProblemPagesAreRight, SubmissionPagesAreRight, ContestPagesAreRight, PTL
   DEF PagesAgree
=============================================================================
