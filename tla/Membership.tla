----------------------------- MODULE Membership -----------------------------
(***************************************************************************)
(* Who is in which organization.  An open organization is joined at once;  *)
(* a closed one has members its administrators approve, as many as it has  *)
(* slots.  Members leave, are kicked, and choose their organizations on    *)
(* the page of their profile, which replaces the whole set.                *)
(*                                                                         *)
(* A web process checks first and writes later, one row at a time, without *)
(* a transaction.  letIn and raced do not exist in the program: the checks *)
(* that let somebody in and that no departure followed, and the checks     *)
(* that another request overtook.                                          *)
(***************************************************************************)
EXTENDS Naturals, FiniteSets

CONSTANTS Users, Orgs,
          Open,        \* organizations with is_open
          Slots,       \* of the organizations that have a number of slots
          MaxPublic,   \* DMOJ_USER_MAX_ORGANIZATION_COUNT
          EditAll,     \* users with edit_all_organization
          Asked,       \* requests to join that may come to be
          Clerks,      \* web processes
          Nobody,
          MaxVisits    \* bound: requests that these serve

ASSUME OrgsAssumption == Open \subseteq Orgs /\ EditAll \subseteq Users /\ Nobody \notin Orgs \cup Users
ASSUME SlotsAssumption == /\ DOMAIN Slots \subseteq Orgs /\ \A o \in DOMAIN Slots : Slots[o] \in Nat
                          /\ MaxPublic \in Nat /\ MaxVisits \in Nat
ASSUME RowsAssumption == IsFiniteSet(Users) /\ IsFiniteSet(Orgs) /\ IsFiniteSet(Asked)

VARIABLES joined,    \* rows of Profile.organizations
          asked,   \* OrganizationRequest rows
          clerk,     \* the request a web process is at work on
          visits, letIn, raced

mvars == <<joined, asked, clerk, visits, letIn, raced>>

NotAsked == [state |-> "none", user |-> Nobody, org |-> Nobody]
\* todo: rows to be saved; add: members to be added; chosen: what a profile is
\* to be set to.
Job(at, user, org, todo, add, chosen) ==
  [at |-> at, user |-> user, org |-> org, todo |-> todo, add |-> add, chosen |-> chosen]
Unoccupied == Job("idle", Nobody, Nobody, {}, {}, {})
Calm == [pairs |-> {}, orgs |-> {}, users |-> {}]

Members(o) == {u \in Users : <<u, o>> \in joined}
OrgsOf(u) == {o \in Orgs : <<u, o>> \in joined}
Free(c) == clerk[c] = Unoccupied
Visit == visits < MaxVisits /\ visits' = visits + 1
Works(c, job) == clerk' = [clerk EXCEPT ![c] = job]
Ends(c) == Works(c, Unoccupied)

\* Rows that are decided upon and not written yet.
Coming == UNION {clerk[c].add \cup ({clerk[c].user} \X clerk[c].chosen) : c \in Clerks}
\* Departures, some of which a row that is coming will undo.
Departs(pairs) ==
  /\ letIn' = letIn \ pairs
  /\ raced' = [raced EXCEPT !.pairs = @ \cup (pairs \cap Coming)]
\* A second request that counts the open organizations of u, or the members of o.
CountsOpen(u) ==
  raced' = IF \E c \in Clerks : clerk[c].at \in {"join", "profile"} /\ clerk[c].user = u
           THEN [raced EXCEPT !.users = @ \cup {u}] ELSE raced
CountsMembers(o) ==
  raced' = IF \E c \in Clerks : clerk[c].at \in {"decide", "approve"} /\ clerk[c].org = o
           THEN [raced EXCEPT !.orgs = @ \cup {o}] ELSE raced

MembershipTypeOK ==
  /\ joined \subseteq Users \X Orgs /\ letIn \subseteq Users \X Orgs
  /\ \A r \in Asked : asked[r] = NotAsked
                        \/ asked[r] \in [state : {"P", "A", "R"}, user : Users, org : Orgs]
  /\ \A c \in Clerks : /\ clerk[c].at \in {"idle", "join", "decide", "approve", "profile"}
                       /\ clerk[c].add \subseteq Users \X Orgs
  /\ visits \in 0 .. MaxVisits

MembershipInit ==
  /\ joined = {} /\ letIn = {}
  /\ asked = [r \in Asked |-> NotAsked]
  /\ clerk = [c \in Clerks |-> Unoccupied]
  /\ visits = 0 /\ raced = Calm
-----------------------------------------------------------------------------
\* JoinOrganization.handle
JoinOpen(c, u, o) ==
  /\ Free(c) /\ Visit
  /\ <<u, o>> \notin joined /\ o \in Open
  /\ Cardinality(OrgsOf(u) \cap Open) < MaxPublic
  /\ Works(c, Job("join", u, Nobody, {}, {<<u, o>>}, {}))
  /\ letIn' = letIn \cup {<<u, o>>}
  /\ CountsOpen(u)
  /\ UNCHANGED <<joined, asked>>

AddJoined(c) ==
  /\ clerk[c].at = "join"
  /\ joined' = joined \cup clerk[c].add
  /\ Ends(c)
  /\ UNCHANGED <<asked, visits, letIn, raced>>

\* LeaveOrganization.handle; an administrator's KickUserWidgetView.post.
LeaveOrganization(u, o) ==
  /\ <<u, o>> \in joined /\ Visit
  /\ joined' = joined \ {<<u, o>>}
  /\ Departs({<<u, o>>})
  /\ UNCHANGED <<asked, clerk>>
-----------------------------------------------------------------------------
\* RequestJoinOrganization.form_valid.  The form is not shown for an open
\* organization; a membership or a pending request is no obstacle.
AskToJoin(r, u, o) ==
  /\ asked[r] = NotAsked /\ o \notin Open /\ Visit
  /\ asked' = [asked EXCEPT ![r] = [state |-> "P", user |-> u, org |-> o]]
  /\ UNCHANGED <<joined, clerk, letIn, raced>>

Decided(r, state) ==
  IF state = "none" THEN NotAsked
  ELSE [state |-> state, user |-> asked[r].user, org |-> asked[r].org]

\* OrganizationRequestView.post, up to formset.is_valid().  decisions are the
\* forms of a page that may be old; "none" deletes.  A form that agrees with its
\* row is not saved.
Decide(c, o, decisions) ==
  LET about == DOMAIN decisions
  IN  /\ Free(c) /\ Visit
      /\ about # {} /\ \A r \in about : asked[r].org = o
      /\ o \in DOMAIN Slots =>
           Cardinality({r \in about : decisions[r] = "A"}) + Cardinality(Members(o)) <= Slots[o]
      /\ LET differing == {r \in about : decisions[r] # asked[r].state}
         IN  Works(c, Job("decide", Nobody, o, {<<r, Decided(r, decisions[r])>> : r \in differing}, {}, {}))
      /\ CountsMembers(o)
      /\ UNCHANGED <<joined, asked, letIn>>

\* formset.save().  Saving a row that was deleted meanwhile brings it back.
SaveDecision(c, r, row) ==
  LET admitted == IF row.state = "A" THEN {<<row.user, row.org>>} ELSE {}
  IN  /\ clerk[c].at = "decide" /\ <<r, row>> \in clerk[c].todo
      /\ asked' = [asked EXCEPT ![r] = row]
      /\ Works(c, Job("decide", Nobody, clerk[c].org, clerk[c].todo \ {<<r, row>>},
                      clerk[c].add \cup admitted, {}))
      /\ letIn' = letIn \cup admitted
      /\ UNCHANGED <<joined, visits, raced>>

StartApproving(c) ==
  /\ clerk[c].at = "decide" /\ clerk[c].todo = {}
  /\ Works(c, Job("approve", Nobody, clerk[c].org, {}, clerk[c].add, {}))
  /\ UNCHANGED <<joined, asked, visits, letIn, raced>>

AddApproved(c) ==
  /\ clerk[c].at = "approve"
  /\ \/ \E pair \in clerk[c].add :
          /\ joined' = joined \cup {pair}
          /\ Works(c, Job("approve", Nobody, clerk[c].org, {}, clerk[c].add \ {pair}, {}))
     \/ clerk[c].add = {} /\ Ends(c) /\ UNCHANGED joined
  /\ UNCHANGED <<asked, visits, letIn, raced>>
-----------------------------------------------------------------------------
\* Broken: a form opened earlier may name any organization.
AnyChoice(u) == Orgs

\* The queryset of ProfileForm: what the user may choose from.
Choice(u) == IF u \in EditAll THEN Orgs ELSE Open \cup OrgsOf(u)

\* edit_profile, up to form.is_valid().
PostProfile(c, u, chosen) ==
  /\ Free(c) /\ Visit
  /\ Choice(u) # {} /\ chosen \subseteq Choice(u)
  /\ Cardinality(chosen \cap Open) <= MaxPublic
  /\ Works(c, Job("profile", u, Nobody, {}, {}, chosen))
  /\ letIn' = letIn \cup ({u} \X (chosen \cap (IF u \in EditAll THEN Orgs ELSE Open)))
  /\ CountsOpen(u)
  /\ UNCHANGED <<joined, asked>>

\* form.save(), in a transaction of its own: the set is replaced.
SaveProfile(c) ==
  LET u == clerk[c].user
  IN  /\ clerk[c].at = "profile"
      /\ joined' = (joined \ ({u} \X Orgs)) \cup ({u} \X clerk[c].chosen)
      /\ Departs({u} \X (OrgsOf(u) \ clerk[c].chosen))
      /\ Ends(c)
      /\ UNCHANGED <<asked, visits>>
-----------------------------------------------------------------------------
MembershipNext ==
  \/ \E c \in Clerks : AddJoined(c) \/ StartApproving(c) \/ AddApproved(c) \/ SaveProfile(c)
  \/ \E c \in Clerks, u \in Users, o \in Orgs : JoinOpen(c, u, o)
  \/ \E u \in Users, o \in Orgs : LeaveOrganization(u, o)
  \/ \E r \in Asked, u \in Users, o \in Orgs : AskToJoin(r, u, o)
  \/ \E c \in Clerks, o \in Orgs, about \in SUBSET Asked :
       \E decisions \in [about -> {"P", "A", "R", "none"}] : Decide(c, o, decisions)
  \/ \E c \in Clerks : \E todo \in clerk[c].todo : SaveDecision(c, todo[1], todo[2])
  \/ \E c \in Clerks, u \in Users, chosen \in SUBSET Orgs : PostProfile(c, u, chosen)

MembershipSpec == MembershipInit /\ [][MembershipNext]_mvars
-----------------------------------------------------------------------------
MembersWereLetIn == joined \ raced.pairs \subseteq letIn

SlotsHold ==
  \A o \in DOMAIN Slots \ (Open \cup raced.orgs) :
    Cardinality({u \in Members(o) \ EditAll : <<u, o>> \notin raced.pairs}) <= Slots[o]

OpenLimitHolds ==
  \A u \in Users \ raced.users :
    Cardinality({o \in OrgsOf(u) \cap Open : <<u, o>> \notin raced.pairs}) <= MaxPublic

\* Whoever is in an organization was let in, by its being open or by a decision,
\* and has not left or been kicked since; a closed organization has no more
\* members than slots, and nobody is in too many open ones.  Pages that were
\* opened long ago, requests that are decided twice and requests in any other
\* order change nothing of that.  The one excuse is a departure, or a second
\* count, between the check and the write of the same rows.
MembershipHolds == MembersWereLetIn /\ SlotsHold /\ OpenLimitHolds
=============================================================================
