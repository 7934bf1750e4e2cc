------------------------------ MODULE MCAccess ------------------------------
(***************************************************************************)
(* An instance of Access and its pages for TLC: one profile beside the     *)
(* anonymous visitor, another of whom only submissions are looked at, one  *)
(* organization, and the permission sets of the site's groups with the     *)
(* combinations in which one permission decides.                           *)
(***************************************************************************)
EXTENDS ContestPages

CONSTANTS ana, bob, org1

MCRoles == { {}, Perm,
             {"edit_own_problem", "edit_own_contest", "is_staff", "moss_contest"},
             {"edit_own_problem", "edit_public_problem", "is_staff", "rejudge_submission"},
             {"edit_public_problem", "see_private_contest", "clone_problem"},
             {"edit_all_problem", "edit_all_contest", "is_staff", "rejudge_submission"},
             {"see_private_problem", "see_organization_problem", "resubmit_other"},
             {"see_organization_problem", "change_ticket", "clone_contest",
              "view_all_submission", "abort_any_submission"} }
MCMemberships == { <<{}, {}>>, <<{org1}, {}>>, <<{}, {org1}>> }

Relations == { <<{}, {}>>, <<{ana}, {}>>, <<{}, {ana}>> }

MCProblemForms ==
  { [is_public |-> p, is_organization_private |-> o # {}, organizations |-> o,
     editors |-> r[1], testers |-> r[2], editorial |-> p] :
       p \in BOOLEAN, o \in {{}, {org1}},
       r \in Relations }

\* Open, for invited users, for others, for an organization, for both.
Audiences == { <<FALSE, {}, {}>>, <<TRUE, {ana}, {}>>, <<TRUE, {}, {}>>,
               <<FALSE, {}, {org1}>>, <<TRUE, {ana}, {org1}>> }

ContestForm(v, h, a, r) ==
  [is_visible |-> v, is_private |-> a[1], private_contestants |-> a[2],
   is_organization_private |-> a[3] # {}, organizations |-> a[3],
   organizers |-> r[1], view_contest_scoreboard |-> r[2],
   hide_scoreboard |-> h, has_problem |-> ~(v /\ a[1] /\ a[2] = {})]

MCContestForms ==
  { ContestForm(v, FALSE, a, r) : v \in BOOLEAN, a \in Audiences, r \in Relations }
    \cup { ContestForm(TRUE, TRUE, <<FALSE, {}, {}>>, r) : r \in Relations }
PageForm(g, d, s, b) ==
  [guide |-> g, database |-> d, solution |-> s, manual |-> b, submitted |-> b,
   limit_reached |-> ~b, ticketed |-> b, mute |-> ~b]

\* Each of the fields matters to links of its own.
MCPageForms == { PageForm("none", "none", FALSE, FALSE),
                 PageForm("draft", "readable", TRUE, TRUE),
                 PageForm("public", "broken", TRUE, FALSE) }
=============================================================================
