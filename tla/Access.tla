------------------------------- MODULE Access -------------------------------
(***************************************************************************)
(* Who may see a problem, its editorial, its tickets, its submissions and  *)
(* the contest that may contain it.  The site answers each question twice: *)
(* a method of the row decides for one page, a query filter decides for    *)
(* the lists and the API, and the two are written separately.  A page      *)
(* request runs in two steps, the middleware that may take the user out of *)
(* a contest and the view, and other requests change the rows between      *)
(* them.                                                                   *)
(*                                                                         *)
(* One problem and one contest: the code looks at no other.                *)
(***************************************************************************)
EXTENDS FiniteSets, Naturals

CONSTANTS Profile,      \* the registered users whose requests are followed ...
          Others,       \* ... and those of whom only their submissions matter
          Anonymous,    \* a visitor who is not logged in
          Org,          \* the organizations
          Roles,        \* the sets of permissions the site hands out
          Memberships,  \* the pairs <<member, admin_of>> a profile may have
          ProblemForms, \* what an administrator may make of the problem ...
          ContestForms  \* ... and of the contest

\* The permissions and the two flags of an account; a superuser has them all.
Perm == {"see_private_problem", "edit_all_problem", "edit_public_problem",
         "edit_own_problem", "see_organization_problem", "see_extended_answers",
         "see_private_solution", "see_private_contest", "edit_all_contest",
         "edit_own_contest", "change_ticket", "view_all_submission",
         "clone_problem", "clone_contest", "moss_contest", "rejudge_submission",
         "resubmit_other", "abort_any_submission", "is_staff", "is_superuser"}

ASSUME AnonymousAssumption == Anonymous \notin Profile
ASSUME RolesAssumption ==
  Roles \subseteq SUBSET Perm /\ \A r \in Roles : "is_superuser" \in r => r = Perm
ASSUME MembershipsAssumption == Memberships \subseteq (SUBSET Org) \X (SUBSET Org)

User == Profile \cup {Anonymous}
Author == Profile \cup Others

Problems == [is_public : BOOLEAN, is_organization_private : BOOLEAN,
             organizations : SUBSET Org, editors : SUBSET Profile,
             testers : SUBSET Profile, editorial : BOOLEAN]

Contests == [is_visible : BOOLEAN, is_private : BOOLEAN,
             is_organization_private : BOOLEAN, organizations : SUBSET Org,
             organizers : SUBSET Profile, private_contestants : SUBSET Profile,
             view_contest_scoreboard : SUBSET Profile,
             hide_scoreboard : BOOLEAN, has_problem : BOOLEAN]

ASSUME FormsAssumption == ProblemForms \subseteq Problems /\ ContestForms \subseteq Contests

Tickets == [user : Profile, assignees : SUBSET Profile]

Clock == {"before", "running", "ended"}
Window == {"none", "open", "over"}
NoRequest == [phase |-> "none"]
Requests == {NoRequest} \cup
            [phase : {"view"}, user : User, in_contest : BOOLEAN, allowed : BOOLEAN] \cup
            [phase : {"answered"}, user : User, granted : BOOLEAN, allowed : BOOLEAN]

VARIABLES perms,        \* the permissions of each profile
          member,       \* the organizations it is in ...
          admin_of,     \* ... and those it administers
          problem, contest, ticket,
          clock,        \* where the contest stands
          current,      \* the window of each profile's current participation
          request       \* the request for the problem's page

vars == <<perms, member, admin_of, problem, contest, ticket, clock, current,
          request>>
people == <<perms, member, admin_of>>

authenticated(u) == u \in Profile
has_perm(u, p) == authenticated(u) /\ p \in perms[u]
-----------------------------------------------------------------------------
(* Problems: the decision for one of them.                                 *)

administers(u) == \E o \in problem.organizations : o \in admin_of[u]
in_organization(u) == \E o \in problem.organizations : o \in member[u]

is_editable_by(u) ==
  /\ authenticated(u)
  /\ \/ has_perm(u, "edit_all_problem")
     \/ has_perm(u, "edit_public_problem") /\ problem.is_public
     \/ /\ has_perm(u, "edit_own_problem")
        /\ \/ u \in problem.editors
           \/ problem.is_organization_private /\ administers(u)

is_evaluable_by(u) ==
  authenticated(u) /\ (is_editable_by(u) \/ has_perm(u, "see_extended_answers"))

\* The branches of is_accessible_by up to skip_contest_problem_check ...
accessible_outside_contests(u) ==
  \/ /\ problem.is_public
     /\ \/ ~problem.is_organization_private
        \/ has_perm(u, "see_organization_problem")
        \/ authenticated(u) /\ in_organization(u)
  \/ /\ authenticated(u)
     /\ \/ has_perm(u, "see_private_problem")
        \/ is_editable_by(u)
        \/ u \in problem.editors
        \/ u \in problem.testers

\* ... and the whole of it; inContest is the current_contest_id of the
\* profile object that the request holds.
is_accessible_by(u, inContest) ==
  \/ accessible_outside_contests(u)
  \/ authenticated(u) /\ inContest /\ contest.has_problem

solution_accessible(u) ==
  \/ problem.editorial
  \/ has_perm(u, "see_private_solution")
  \/ is_editable_by(u)

\* solved: u has a full-score AC submission to the problem.
can_see_detail(u, author, solved) ==
  /\ authenticated(u)
  /\ \/ is_editable_by(u)
     \/ has_perm(u, "view_all_submission")
     \/ u = author
     \/ (problem.is_public \/ u \in problem.testers) /\ solved

(* Problems: the query filters.                                            *)

get_public_problems == problem.is_public /\ ~problem.is_organization_private

\* Broken: editors of public problems miss those of organizations.
get_visible_without_public_editors(u) ==
  IF ~authenticated(u) THEN get_public_problems
  ELSE \/ has_perm(u, "see_private_problem")
       \/ has_perm(u, "edit_all_problem")
       \/ /\ problem.is_public
          /\ \/ has_perm(u, "see_organization_problem")
             \/ ~problem.is_organization_private
             \/ in_organization(u)
       \/ /\ has_perm(u, "edit_own_problem")
          /\ problem.is_organization_private
          /\ administers(u)
       \/ u \in problem.editors
       \/ u \in problem.testers

get_visible_problems(u) ==
  IF ~authenticated(u) THEN get_public_problems
  ELSE \/ has_perm(u, "see_private_problem")
       \/ has_perm(u, "edit_all_problem")
       \/ /\ problem.is_public
          /\ \/ has_perm(u, "see_organization_problem")
             \/ has_perm(u, "edit_public_problem")
             \/ ~problem.is_organization_private
             \/ in_organization(u)
       \/ /\ has_perm(u, "edit_own_problem")
          /\ problem.is_organization_private
          /\ administers(u)
       \/ u \in problem.editors
       \/ u \in problem.testers

get_editable_problems(u) ==
  /\ has_perm(u, "edit_own_problem")
  /\ \/ has_perm(u, "edit_all_problem")
     \/ u \in problem.editors
     \/ problem.is_organization_private /\ administers(u)
     \/ has_perm(u, "edit_public_problem") /\ problem.is_public
-----------------------------------------------------------------------------
(* Contests.                                                               *)

can_join == clock \in {"running", "ended"}
ended == clock = "ended"

contest_editable(u) ==
  \/ has_perm(u, "edit_all_contest")
  \/ has_perm(u, "edit_own_contest") /\ u \in contest.organizers

invited(u) ==
  LET in_org == authenticated(u) /\ \E o \in contest.organizations : o \in member[u]
      in_users == u \in contest.private_contestants
  IN  /\ contest.is_organization_private => in_org
      /\ contest.is_private => in_users

contest_accessible(u) ==
  \/ has_perm(u, "see_private_contest")
  \/ contest_editable(u)
  \/ /\ contest.is_visible
     /\ \/ ~contest.is_private /\ ~contest.is_organization_private
        \/ u \in contest.view_contest_scoreboard
        \/ invited(u)

get_visible_contests(u) ==
  IF ~authenticated(u)
  THEN contest.is_visible /\ ~contest.is_private /\ ~contest.is_organization_private
  ELSE \/ has_perm(u, "see_private_contest")
       \/ has_perm(u, "edit_all_contest")
       \/ contest.is_visible /\ (u \in contest.view_contest_scoreboard \/ invited(u))
       \/ u \in contest.organizers

show_scoreboard == can_join /\ (contest.hide_scoreboard => ended)

can_see_full_scoreboard(u) ==
  \/ show_scoreboard
  \/ has_perm(u, "see_private_contest")
  \/ contest_editable(u)
  \/ u \in contest.view_contest_scoreboard

\* The participations that API v2 lists to u.
api_participations(u) ==
  /\ get_visible_contests(u)
  /\ \/ has_perm(u, "see_private_contest")
     \/ ended
     \/ has_perm(u, "edit_own_contest") /\ u \in contest.organizers
     \/ u \in contest.view_contest_scoreboard
-----------------------------------------------------------------------------
(* Tickets about the problem, comments on its editorial, submissions.      *)

ticket_readable(u) ==
  /\ authenticated(u)
  /\ \/ has_perm(u, "change_ticket")
     \/ u = ticket.user
     \/ u \in ticket.assignees
     \/ is_editable_by(u)

filter_visible_tickets(u) ==
  /\ authenticated(u)
  /\ u \in ticket.assignees \/ u = ticket.user \/ get_editable_problems(u)

\* A comment on the editorial: shown among the most recent ones, and opened.
most_recent(u, inContest) == is_accessible_by(u, inContest) /\ solution_accessible(u)
comment_accessible(u) == solution_accessible(u)

\* A submission of author, sent inside the contest or outside any.  In the
\* contest u sees its submissions or only the own ones, outside those of the
\* contests that are open to u; the organizers of no contest are nobody, and
\* a visitor's missing profile is found among them.
in_contest_row(u, author, inside) ==
  inside /\ (can_see_full_scoreboard(u) \/ u = author)

contest_is_open_to(u, author, inside) ==
  \/ has_perm(u, "see_private_contest")
  \/ ~inside
  \/ u = author
  \/ IF authenticated(u) THEN u \in contest.organizers ELSE contest.organizers = {}
  \/ ~contest.hide_scoreboard
  \/ ended

\* The rows of the submission list.
submission_listed(u, author, inside, inContest) ==
  IF inContest
  THEN in_contest_row(u, author, inside)
  ELSE get_visible_problems(u) /\ contest_is_open_to(u, author, inside)

\* single_submission renders one row again when an event about it arrives.
row_accessible(u, inContest) == is_accessible_by(u, inContest)
-----------------------------------------------------------------------------
(* The site.  An administrator saves a form; that matters while a request  *)
(* is between its two steps, since any rows may be there at the start.     *)

TypeOK ==
  /\ perms \in [Profile -> SUBSET Perm]
  /\ member \in [Profile -> SUBSET Org]
  /\ admin_of \in [Profile -> SUBSET Org]
  /\ problem \in Problems /\ contest \in Contests /\ ticket \in Tickets
  /\ clock \in Clock
  /\ current \in [Profile -> Window]
  /\ request \in Requests

Init ==
  /\ perms \in [Profile -> Roles]
  /\ \E m \in [Profile -> Memberships] :
       /\ member = [u \in Profile |-> m[u][1]]
       /\ admin_of = [u \in Profile |-> m[u][2]]
  /\ problem \in ProblemForms /\ contest \in ContestForms
  /\ ticket \in [user : Profile, assignees : {{}}]
  /\ clock = "before"
  /\ current = [u \in Profile |-> "none"]
  /\ request = NoRequest

SaveProblem(f) ==
  /\ request.phase = "view"
  /\ problem' = f
  /\ UNCHANGED <<people, contest, ticket, clock, current, request>>

SaveContest(f) ==
  /\ request.phase = "view"
  /\ contest' = f
  /\ UNCHANGED <<people, problem, ticket, clock, current, request>>

\* The contest starts, then ends; the live participations end with it, the
\* virtual ones do not.
Tick ==
  /\ \/ clock = "before" /\ clock' = "running" /\ UNCHANGED current
     \/ /\ clock = "running" /\ clock' = "ended"
        /\ \E live \in SUBSET {u \in Profile : current[u] = "open"} :
             current' = [u \in Profile |-> IF u \in live THEN "over" ELSE current[u]]
  /\ UNCHANGED <<people, problem, contest, ticket, request>>

\* The time limit of a participation runs out.
WindowCloses(u) ==
  /\ current[u] = "open"
  /\ current' = [current EXCEPT ![u] = "over"]
  /\ UNCHANGED <<people, problem, contest, ticket, clock, request>>

\* join_contest and ContestLeave of another tab, of which only this matters
\* here (ContestLife has the handlers): whom the first lets in has access.
Join(u) ==
  /\ current[u] = "none" /\ contest_accessible(u)
  /\ can_join \/ u \in contest.organizers
  /\ current' = [current EXCEPT ![u] = "open"]
  /\ UNCHANGED <<people, problem, contest, ticket, clock, request>>

Leave(u) ==
  /\ current[u] # "none"
  /\ current' = [current EXCEPT ![u] = "none"]
  /\ UNCHANGED <<people, problem, contest, ticket, clock, request>>
-----------------------------------------------------------------------------
(* The request for the problem's page: the middleware, then the view.      *)

\* Broken: access_check is left out.
update_contest_when_over(u) ==
  IF current[u] = "over" THEN [current EXCEPT ![u] = "none"] ELSE current

update_contest(u) ==
  IF current[u] = "over" \/ (current[u] = "open" /\ ~contest_accessible(u))
  THEN [current EXCEPT ![u] = "none"] ELSE current

\* request.allowed remembers, for the property about it, whether the user had
\* access to the contest when the middleware ran.
Middleware(u) ==
  /\ request.phase # "view"
  /\ current' = IF authenticated(u) THEN update_contest(u) ELSE current
  /\ request' = [phase |-> "view", user |-> u,
                 in_contest |-> authenticated(u) /\ current'[u] # "none",
                 allowed |-> contest_accessible(u)]
  /\ UNCHANGED <<people, problem, contest, ticket, clock>>

\* ProblemMixin.get_object: the rows as they are now, the profile as the
\* middleware left it.
GetObject ==
  /\ request.phase = "view"
  /\ request' = [phase |-> "answered", user |-> request.user,
                 granted |-> is_accessible_by(request.user, request.in_contest),
                 allowed |-> request.allowed]
  /\ UNCHANGED <<people, problem, contest, ticket, clock, current>>

Next ==
  \/ \E f \in ProblemForms : SaveProblem(f)
  \/ \E f \in ContestForms : SaveContest(f)
  \/ Tick
  \/ \E u \in Profile : WindowCloses(u) \/ Join(u) \/ Leave(u)
  \/ \E u \in User : Middleware(u)
  \/ GetObject

Spec == Init /\ [][Next]_vars
-----------------------------------------------------------------------------
(* Properties.                                                             *)

\* The problem list, the API list and random problem (get_visible_problems)
\* offer a problem exactly when its page opens outside contests
\* (is_accessible_by with skip_contest_problem_check): eight permissions, two
\* flags and four relations, written once as Q objects and once as early
\* returns.
ListedIffAccessible ==
  \A u \in User : get_visible_problems(u) <=> accessible_outside_contests(u)

\* get_editable_problems lists what is_editable_by allows, to those who hold
\* edit_own_problem; to the others it lists nothing, whatever they may edit.
EditableListAgrees ==
  \A u \in User : get_editable_problems(u) <=>
                    is_editable_by(u) /\ has_perm(u, "edit_own_problem")

\* The contest list has every contest whose page opens, and beyond those only
\* contests of organizers who may not edit them.
ContestListAgrees ==
  \A u \in User : get_visible_contests(u) <=>
                    contest_accessible(u) \/ u \in contest.organizers

\* The API lists the participations of a contest only to a user who may see
\* its full scoreboard.
ApiRespectsScoreboard ==
  \A u \in User : api_participations(u) => can_see_full_scoreboard(u)

\* A ticket in a user's list opens; one that opens is missing from the list
\* only for those who may change every ticket, and for editors to whom
\* get_editable_problems lists nothing.
TicketListAgrees ==
  \A u \in User :
    /\ filter_visible_tickets(u) => ticket_readable(u)
    /\ ticket_readable(u) /\ ~filter_visible_tickets(u) =>
         \/ has_perm(u, "change_ticket")
         \/ is_editable_by(u) /\ ~has_perm(u, "edit_own_problem")

\* Each of these rules is written once as a filter of a query and once as a
\* check of one object, and a page uses the one for its list and the other for
\* its links.
ListsAgree ==
  /\ ListedIffAccessible /\ EditableListAgrees /\ ContestListAgrees
  /\ TicketListAgrees /\ ApiRespectsScoreboard

\* Who may edit a problem is refused nowhere: its page, its list entry, its
\* editorial, the comments on it, its tickets, everybody's submissions and
\* their extended feedback.
EditorIsRefusedNowhere ==
  \A u \in User : is_editable_by(u) =>
    /\ is_accessible_by(u, FALSE) /\ get_visible_problems(u)
    /\ solution_accessible(u) /\ most_recent(u, FALSE) /\ comment_accessible(u)
    /\ ticket_readable(u) /\ is_evaluable_by(u)
    /\ \A a \in Author, solved \in BOOLEAN : can_see_detail(u, a, solved)

\* The rules about problems, contests and tickets agree with one another.
RulesAgree == ListsAgree /\ EditorIsRefusedNowhere

\* A problem that opens only because of the contest opens to those who could
\* enter the contest when their request began: a participation that is over,
\* or of a contest that was closed to its user, opens nothing, even though
\* the profile still names it until the next request.
ContestDoorIsChecked ==
  [][request.phase = "view" /\ request'.phase = "answered" /\ request'.granted
       /\ ~accessible_outside_contests(request.user)
       => request.allowed /\ contest.has_problem]_vars
=============================================================================
