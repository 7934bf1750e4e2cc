----------------------------- MODULE MCCommunity -----------------------------
(***************************************************************************)
(* Comments and submissions, and eight more parts of the site, in one run. *)
(* They have no row in common, so that the order of the steps of two of    *)
(* them makes no difference: one moves, the others are at rest.            *)
(***************************************************************************)
EXTENDS MCComments, Membership, PageCache, Paging, Standing, Tickets, Progress, Desk

MCSlots == "club" :> 1

\* Tickets: who follows them is the author of one problem and edits it.
MCAuthors == "p" :> {"ann"} @@ "q" :> {"bob"}
MCEditable == {<<"ann", "p">>}
MCAccessible == People \X Subjects
ListOf(own, about, elsewhere) == [own |-> own, about |-> about, elsewhere |-> elsewhere]
MCLists == {ListOf(TRUE, "all", {}), ListOf(FALSE, "all", {1}), ListOf(FALSE, "p", {}), ListOf(FALSE, "q", {})}

\* The staff: ann may do everything, bob organizes contests and may show them only
\* to some, cal may show them to everybody.
MCHolds ==
  "ann" :> {"edit_own_contest", "edit_all_contest", "change_contest_visibility", "create_private_contest", "lock_contest"}
  @@ "bob" :> {"edit_own_contest", "create_private_contest"}
  @@ "cal" :> {"edit_own_contest", "change_contest_visibility"}

\* Contests of one day, over midnight, up to midnight, and over the whole calendar.
MCTerms == {<<0, 12>>, <<1, 2>>, <<1, 3>>, <<2, 4>>, <<4, 12>>, <<3, 8>>, <<6, 7>>, <<9, 10>>}

CommunitySymmetry == Permutations(Procs) \cup Permutations(Ids)

VARIABLE part

PagingRests == PagingInit /\ came = "list" /\ list = <<>>
PageCacheRests == PageCacheInit /\ row = "post"
TicketsRest == TicketsInit /\ messages = <<>>
AgendaRest ==
  /\ AgendaInit
  /\ \A k \in Meets : agenda[k].start_time = 0 /\ agenda[k].end_time = 12
                       /\ agenda[k].time_limit = NoLimit /\ agenda[k].is_visible

CommunityInit ==
  /\ part \in {"comments", "membership", "paging", "page cache", "standing", "tickets", "progress",
              "office", "agenda"}
  /\ Init /\ MembershipInit /\ StandingInit /\ ProgressInit /\ OfficeInit
  /\ IF part = "paging" THEN PagingInit ELSE PagingRests
  /\ IF part = "page cache" THEN PageCacheInit ELSE PageCacheRests
  /\ IF part = "tickets" THEN TicketsInit ELSE TicketsRest
  /\ IF part = "agenda" THEN AgendaInit ELSE AgendaRest

CommunityNext ==
  /\ \/ part = "comments" /\ Next /\ UNCHANGED <<mvars, gvars, pvars, stvars, kvars, wvars, dvars>>
     \/ part = "membership" /\ MembershipNext /\ UNCHANGED <<svars, requests, cvars, gvars, pvars, stvars, kvars, wvars, dvars>>
     \/ part = "paging" /\ PagingNext /\ UNCHANGED <<svars, requests, cvars, mvars, pvars, stvars, kvars, wvars, dvars>>
     \/ part = "page cache" /\ PageCacheNext /\ UNCHANGED <<svars, requests, cvars, mvars, gvars, stvars, kvars, wvars, dvars>>
     \/ part = "standing" /\ StandingNext /\ UNCHANGED <<svars, requests, cvars, mvars, gvars, pvars, kvars, wvars, dvars>>
     \/ part = "tickets" /\ TicketsNext /\ UNCHANGED <<svars, requests, cvars, mvars, gvars, pvars, stvars, wvars, dvars>>
     \/ part = "progress" /\ ProgressNext /\ UNCHANGED <<svars, requests, cvars, mvars, gvars, pvars, stvars, kvars, dvars>>
     \/ part = "office" /\ OfficeNext /\ UNCHANGED <<svars, requests, cvars, mvars, gvars, pvars, stvars, kvars, wvars>>
     \/ part = "agenda" /\ AgendaNext /\ UNCHANGED <<svars, requests, cvars, mvars, gvars, pvars, stvars, kvars, wvars>>
  /\ UNCHANGED part

CommunitySpec == CommunityInit /\ [][CommunityNext]_<<part, svars, requests, cvars, mvars, gvars, pvars, stvars, kvars, wvars, dvars>>

\* The lists of the site hold what they say: a walk through the pages of a list
\* meets every entry once, with its rank; the sums, marks and tasks of a user
\* agree with each other and with the user's submissions; and every contest is in
\* its section of the list and on its days of the calendar.
\* Each is judged where it moves: at rest it is as it begins.
ListsHold ==
  /\ part = "paging" => PagesHold
  /\ part = "progress" => ProgressAgrees
  /\ part = "agenda" => AgendaHolds

\* What the staff answer and decide holds: a ticket is shown as it is, and a contest
\* is visible or locked only as somebody decided who may.
StaffHolds ==
  /\ part = "tickets" => TicketsAreShown
  /\ part = "office" => DeskHolds
=============================================================================
