----------------------------- MODULE ContestPages -----------------------------
(***************************************************************************)
(* The contest's pages: the tabs of a contest and the links of its board   *)
(* against the views behind them, and what the pages and the API show of   *)
(* it.                                                                     *)
(***************************************************************************)
EXTENDS SubmissionPages

\* ContestMixin.get_object: whoever is in the contest passes unchecked.
contest_opens(u) == in_contest(u) \/ contest_accessible(u)

is_organizer(u) == u \in contest.organizers

board_tab(u) ==
  /\ clock # "before" \/ has_perm(u, "see_private_contest")
  /\ can_see_own_scoreboard(u, in_contest(u))

contest_tabs(u) ==
  [ stats         |-> ended \/ contest_editable(u),
    ranking       |-> board_tab(u),
    participation |-> board_tab(u) /\ authenticated(u),
    moss          |-> contest_editable(u) /\ has_perm(u, "moss_contest"),
    edit          |-> contest_editable(u),
    clone         |-> has_perm(u, "clone_contest"),
    leave         |-> authenticated(u) /\ (can_join \/ is_organizer(u)) /\ in_contest(u),
    join          |-> authenticated(u) /\ (can_join \/ is_organizer(u)) /\ ~in_contest(u) ]

\* The table of problems, once the contest has ended or for those who run
\* it; scheduled: the editorial is public from a later time on.
problems_shown(u) == ended \/ has_perm(u, "is_superuser") \/ is_organizer(u)

contest_problem_links(u, scheduled) ==
  [ problem   |-> problem.is_public,
    best      |-> problem.is_public,
    editorial |-> problem.is_public /\ (problem.editorial \/ scheduled) ]
-----------------------------------------------------------------------------
(* The views behind them.                                                  *)

ContestStats(u) == contest_opens(u) /\ (ended \/ contest_editable(u))

\* Without the full board, it holds one's own row.
ContestRanking(u) == contest_opens(u) /\ can_see_own_scoreboard(u, in_contest(u))

contest_ranking_ajax(u) == contest_accessible(u) /\ can_see_full_scoreboard(u)

ContestParticipationList(u, profile) ==
  for_members(u, /\ contest_opens(u) /\ can_see_own_scoreboard(u, in_contest(u))
                 /\ u = profile \/ can_see_full_scoreboard(u))

ContestMossView(u) ==
  has_perm(u, "moss_contest") /\ contest_opens(u) /\ contest_editable(u)

\* ContestAdmin: its list, then its permission for the one row.
admin_contest(u) ==
  /\ has_perm(u, "is_staff") /\ has_perm(u, "edit_own_contest")
  /\ has_perm(u, "edit_all_contest") \/ is_organizer(u)

ContestClone(u) == has_perm(u, "clone_contest") /\ contest_opens(u)

ContestParticipationDisqualify(u) == contest_opens(u) /\ contest_editable(u)

\* ContestUserSearchSelect2View, behind the search box of the board.
contest_user_search(u) == contest_accessible(u) /\ can_see_full_scoreboard(u)

contest_pages(u) ==
  [ stats         |-> ContestStats(u),
    ranking       |-> ContestRanking(u),
    participation |-> ContestParticipationList(u, u),
    moss          |-> ContestMossView(u),
    edit          |-> admin_contest(u),
    clone         |-> ContestClone(u),
    leave         |-> contest_opens(u) /\ in_contest(u),
    join          |-> contest_opens(u) /\ (can_join \/ is_organizer(u)) ]

contest_problem_pages(u) ==
  LET c == in_contest(u)
  IN  [ problem   |-> is_accessible_by(u, c),
        best      |-> ProblemSubmissions(u, c),
        editorial |-> is_accessible_by(u, c) /\ solution_accessible(u) /\ ~c ]

(* The API: the contest with its problems and its board.                   *)

api_contest_list(u) == get_visible_contests(u)
api_v1_contest_list(u) == get_visible_contests(u)
api_contest_opens(u) == contest_accessible(u)
api_can_see_problems(u) == in_contest(u) \/ ended \/ contest_editable(u)
api_can_see_rankings(u) == can_see_full_scoreboard(u)
api_v1_contest_detail(u, board) ==
  /\ contest_accessible(u)
  /\ IF board THEN can_see_full_scoreboard(u)
     ELSE in_contest(u) \/ ended \/ contest_editable(u)

\* A user's history: the contests that ended and that u may see.
api_history(u) == get_visible_contests(u) /\ ended
-----------------------------------------------------------------------------
(* Properties.                                                             *)

\* The tabs that the page of the contest shows and the site does not honour:
\* the administration needs a member of the staff with edit_own_contest, and
\* with edit_all_contest alone that is missing.
TabsOpen(u) ==
  LET tabs == contest_tabs(u)
      pages == contest_pages(u)
  IN  contest_opens(u) =>
        \A t \in DOMAIN tabs :
          tabs[t] =>
            (pages[t] <=>
               ~(t = "edit" /\ ~(has_perm(u, "is_staff") /\ has_perm(u, "edit_own_contest"))))

\* The problems of the contest's page open to everyone unless an organization
\* keeps them, an editorial also not before its time and not to those who are
\* in the contest again, and the best submissions not to those who are in it
\* without seeing its board.
ContestProblemsOpen(u, scheduled) ==
  LET links == contest_problem_links(u, scheduled)
      pages == contest_problem_pages(u)
      c == in_contest(u)
  IN  contest.has_problem /\ contest_opens(u) /\ problems_shown(u) =>
        \A l \in DOMAIN links :
          links[l] /\ ~pages[l] =>
            \/ problem.is_organization_private /\ ~is_accessible_by(u, c)
            \/ l = "editorial" /\ (c \/ ~problem.editorial)
            \/ l = "best" /\ c /\ ~can_see_own_scoreboard(u, c)

\* The board, where it is whole: its rows refresh and its search box answers,
\* but not to whom the contest was closed while inside; each row leads to the
\* participations and, where the problem and the contest are open, to the
\* submissions of its user; who may edit the contest may disqualify.
BoardOpens(u) ==
  ContestRanking(u) /\ can_see_full_scoreboard(u) =>
    /\ contest_accessible(u) => contest_ranking_ajax(u) /\ contest_user_search(u)
    /\ contest_editable(u) => ContestParticipationDisqualify(u)
    /\ \A p \in Author :
         /\ ContestParticipationList(u, p)
         /\ is_accessible_by(u, in_contest(u)) /\ contest_forced(u) /\ contest.has_problem =>
              UserContestSubmissions(u, p, TRUE) /\ ContestRankedSubmission(u)
         /\ contest_forced(u) /\ get_visible_problems(u) =>
              UserAllContestSubmissions(u, p, TRUE) /\ all_contest_row(u, p, TRUE)

\* Whoever is kept from the whole board is kept from it everywhere: on the
\* ranking page and its refresh, in the participations and the submissions of
\* others, and in the API.
BoardIsHidden(u) ==
  ~can_see_full_scoreboard(u) =>
    /\ ~contest_ranking_ajax(u) /\ ~contest_user_search(u)
    /\ ~api_can_see_rankings(u) /\ ~api_v1_contest_detail(u, TRUE)
    /\ ~api_participations(u) /\ ~api_history(u)
    /\ \A p \in Author \ {u} :
         /\ authenticated(u) => ~ContestParticipationList(u, p)
         /\ ~UserAllContestSubmissions(u, p, TRUE)
         /\ ~in_contest_row(u, p, TRUE)

\* A contest in the API's lists opens there, but not to organizers without
\* edit_own_contest while it is not theirs to see; one that opens is listed.
ApiListsOpen(u) ==
  /\ api_contest_opens(u) => api_contest_list(u) /\ api_v1_contest_list(u)
  /\ api_contest_list(u) /\ ~api_contest_opens(u) =>
       is_organizer(u) /\ ~has_perm(u, "edit_own_contest")
  /\ api_v1_contest_list(u) /\ ~api_v1_contest_detail(u, FALSE) =>
       \/ is_organizer(u) /\ ~has_perm(u, "edit_own_contest")
       \/ ~in_contest(u) /\ ~ended /\ ~contest_editable(u)

\* The contest's tabs, tables and boards lead where they say, and what the
\* board hides no other page shows: eight tabs, three links of a table and
\* the links of the board against a dozen views and the API.
ContestPagesAgree ==
  request = NoRequest =>
    \A u \in User : /\ TabsOpen(u)
                    /\ \A scheduled \in BOOLEAN : ContestProblemsOpen(u, scheduled)
                    /\ BoardOpens(u) /\ BoardIsHidden(u) /\ ApiListsOpen(u)
                    /\ api_contest_opens(u) => contest_opens(u)
                    /\ api_v1_contest_detail(u, FALSE) <=>
                         api_contest_opens(u) /\ api_can_see_problems(u)

\* Every page of the site leads where the one it leads to lets in, and shows
\* what that one would.
PagesAgree == ProblemLinksOpen /\ SubmissionsAgree /\ ContestPagesAgree
=============================================================================
