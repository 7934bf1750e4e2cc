------------------------------- MODULE Paging -------------------------------
(***************************************************************************)
(* Lists that are read a page at a time while they change: a visitor goes  *)
(* through lists of problems, tasks or submissions, most of whose pages    *)
(* are counted first, and is sent to the page of the leaderboard that      *)
(* should have somebody on it.                                             *)
(*                                                                         *)
(* A page is a query of its own.  shaken, bare and moved do not exist in   *)
(* the program: they say whether a row has left the list, or one has come  *)
(* between the count and the rows of a page; whether the first page was    *)
(* filtered by the session alone; and whether anybody's points have        *)
(* changed since the page was looked up.                                   *)
(***************************************************************************)
EXTENDS Integers, Sequences, FiniteSets

CONSTANTS Things,      \* problems, tasks or submissions: 1 .. the number of them
          Fans,        \* users on the leaderboard, by id
          PageSize,    \* rows of a page of a list ...
          BoardSize,   \* ... and of the leaderboard
          MaxPoints,
          MaxPages,    \* bound: pages of the lists whose links are looked at
          MaxUpsets    \* bound: changes of the lists

ASSUME PagingAssumption ==
  /\ PageSize \in Nat \ {0} /\ BoardSize \in Nat \ {0} /\ MaxPages \in Nat \ {0}
  /\ MaxPoints \in Nat /\ MaxUpsets \in Nat
  /\ Things = 1 .. Cardinality(Things) /\ Fans \subseteq Nat

VARIABLES came,       \* what the visitor looks at: visits share nothing, and are looked at one by one
          list,       \* the rows in their order
          solved,     \* those the visitor has solved
          session,    \* hide_solved in the session
          walk,       \* the page the visitor is on
          links,      \* the numbers under some page of some list
          points,     \* performance points and solved problems of each
          board, upsets

gvars == <<came, list, solved, session, walk, links, points, board, upsets>>

Gap == 0              \* False in page_range: dots
NotWalking == [at |-> "out", kind |-> "problems", query |-> "bare", hides |-> FALSE, number |-> 1, count |-> 0,
               seen |-> {}, first |-> {}, more |-> FALSE, shaken |-> FALSE, bare |-> FALSE]
NoLinks == [flat |-> <<1>>, number |-> 1, total |-> 1, closed |-> TRUE]
NoBoard == [fan |-> -1, number |-> 0, shown |-> <<>>, moved |-> FALSE]
least(S) == CHOOSE m \in S : \A k \in S : m <= k
\* The performance points of a user, and how many problems are solved.
Standings == [points : 0 .. MaxPoints, solved : 0 .. 1]
larger(m, n) == IF m > n THEN m ELSE n
smaller(m, n) == IF m < n THEN m ELSE n
pages(n) == (n + PageSize - 1) \div PageSize
Span(m, n) == [i \in 1 .. larger(0, n - m + 1) |-> m + i - 1]
\* What a slice of a query returns, as far as it goes.
Slice(s, m, n) == SubSeq(s, m + 1, smaller(n, Len(s)))
Elements(s) == {s[i] : i \in DOMAIN s}
-----------------------------------------------------------------------------
\* DiggPaginator.page: the blocks of numbers before, around and after the page.
middle(number, num_pages, body) ==
  LET low  == number - ((body + 1) \div 2) + 1
      high == number + (body \div 2)
      up   == larger(0, 1 - low)
      down == larger(0, high + up - num_pages)
  IN  <<low + up - down, high + up - down>>

page_ranges(number, num_pages, body, tail, padding, margin, align_left) ==
  LET around   == middle(number, num_pages, body)
      near     == around[1] <= tail + margin
      leading  == IF near THEN <<>> ELSE Span(1, tail)
      first    == IF near THEN <<1, larger(body, smaller(number + padding, around[2]))>> ELSE around
      far      == first[2] < num_pages - (tail + margin) + 1
      trailing == IF align_left \/ ~far THEN <<>> ELSE Span(num_pages - tail + 1, num_pages)
      last     == CASE align_left \/ far -> first
                    [] ~align_left /\ ~far /\ near -> <<1, num_pages>>
                    [] ~align_left /\ ~far /\ ~near ->
                         <<smaller(num_pages - body + 1, larger(number - padding, first[1])), num_pages>>
      main     == Span(larger(last[1], 1), smaller(last[2], num_pages))
  IN  (IF leading = <<>> THEN main ELSE leading \o <<Gap>> \o main)
      \o (IF trailing = <<>> THEN <<>> ELSE <<Gap>> \o trailing)

\* InfinitePage.page_range, of a list of which the page has looked at so much.
infinite_range(number, after, pad_pages) ==
  LET start   == larger(1, number - pad_pages)
      main    == Span(start, number + smaller(pages(after), pad_pages))
      leading == Span(1, smaller(3, start) - 1)
      gap     == leading # <<>> /\ leading[Len(leading)] + 1 < start
  IN  leading \o (IF gap THEN <<Gap>> ELSE <<>>) \o main
      \o (IF after > pad_pages * PageSize THEN <<Gap>> ELSE <<>>)

after_up_to_pad(total, number, pad_pages) ==
  smaller(larger(0, total - number * PageSize), pad_pages * PageSize + 1)
-----------------------------------------------------------------------------
PagingTypeOK ==
  /\ came \in {"list", "numbers", "ranking"}
  /\ Elements(list) \subseteq Things /\ solved \subseteq Things
  /\ session \in BOOLEAN /\ walk.seen \cup walk.first \subseteq Things
  /\ points \in [Fans -> Standings] /\ upsets \in 0 .. MaxUpsets

PagingInit ==
  /\ came \in {"list", "numbers", "ranking"}
  /\ list \in IF came = "list" THEN {Span(1, n) : n \in 0 .. Cardinality(Things)} ELSE {<<>>}
  /\ solved \in SUBSET Elements(list)
  /\ session = FALSE /\ walk = NotWalking
  /\ links = NoLinks
  /\ points \in IF came = "ranking" THEN [Fans -> Standings] ELSE [Fans -> {[points |-> 0, solved |-> 0]}]
  /\ board = NoBoard /\ upsets = 0

\* GET_with_session: the session counts only for an address without parameters.
hide_solved(query) == IF query = "bare" THEN session ELSE query = "on"
Unsolved(hides) == IF hides THEN SelectSeq(list, LAMBDA t : t \notin solved) ELSE list
ProblemList(hides) == Unsolved(hides)
ProblemsByOrganization(hides) == Unsolved(hides)
TaskList == list
SubmissionsListBase == list

Listed(kind, hides) ==
  CASE kind = "problems" -> ProblemList(hides)
    [] kind = "organization" -> ProblemsByOrganization(hides)
    [] kind = "tasks" -> TaskList
    [] kind \in {"submissions", "of user"} -> SubmissionsListBase

PagesCounted(kind) == kind # "submissions"
ByTime(kind) == kind \in {"submissions", "of user"}

\* ProblemList.post and its redirect: what the address has, and nothing else.
Choose(query) ==
  /\ session' = (query = "on")
  /\ UNCHANGED <<came, list, solved, walk, links, points, board, upsets>>
-----------------------------------------------------------------------------
\* A page of problems: the number of pages first, then the rows.  A link to
\* another page has the parameters of this one, and its number.
Enter(kind, query) ==
  LET rows == Listed(kind, hide_solved(query))
  IN  /\ walk = NotWalking
      /\ kind \in {"problems", "organization"} \/ query = "bare"
      /\ walk' = [NotWalking EXCEPT !.at = "count", !.kind = kind, !.query = query, !.hides = hide_solved(query),
                                    !.first = Elements(rows), !.count = Len(rows),
                                    !.bare = kind \in {"problems", "organization"} /\ query = "bare" /\ session]
      /\ UNCHANGED <<came, list, solved, session, links, points, board, upsets>>

CountPages ==
  /\ walk.at = "follow"
  /\ LET rows == Listed(walk.kind, hide_solved(walk.query))
     IN  walk' = IF PagesCounted(walk.kind) /\ walk.number > larger(1, pages(Len(rows))) THEN NotWalking   \* 404
                 ELSE [walk EXCEPT !.at = "count", !.count = Len(rows), !.hides = hide_solved(walk.query)]
  /\ UNCHANGED <<came, list, solved, session, links, points, board, upsets>>

ShowRows ==
  LET rows == Slice(Listed(walk.kind, walk.hides), (walk.number - 1) * PageSize,
                    IF PagesCounted(walk.kind) THEN smaller(walk.number * PageSize, walk.count)
                    ELSE walk.number * PageSize)
  IN  /\ walk.at = "count"
      /\ walk' = IF ~PagesCounted(walk.kind) /\ walk.number > 1 /\ rows = <<>> THEN NotWalking   \* 404
                 ELSE [walk EXCEPT !.at = "rows", !.seen = @ \cup Elements(rows)]
      /\ UNCHANGED <<came, list, solved, session, links, points, board, upsets>>

\* The template asks whether there is a next page: of the count that was made,
\* or, for submissions, with a query of what comes after.
ShowLinks ==
  LET total == Len(Listed(walk.kind, walk.hides))
      more  == IF PagesCounted(walk.kind) THEN walk.number < pages(walk.count)
               ELSE after_up_to_pad(total, walk.number, 2) > 0
  IN  /\ walk.at = "rows"
      /\ walk' = [walk EXCEPT !.at = "shown", !.more = more]
      /\ UNCHANGED <<came, list, solved, session, links, points, board, upsets>>

Follow ==
  /\ walk.at = "shown" /\ walk.more
  /\ walk' = [walk EXCEPT !.at = "follow", !.number = @ + 1,
                          !.query = IF @ = "bare" THEN "off" ELSE @]
  /\ UNCHANGED <<came, list, solved, session, links, points, board, upsets>>

GoAway ==
  /\ walk.at = "shown"
  /\ walk' = NotWalking
  /\ UNCHANGED <<came, list, solved, session, links, points, board, upsets>>

Upset == upsets < MaxUpsets /\ upsets' = upsets + 1
\* A row appears, a submission before all others; or leaves the list.
Appear(t, i) ==
  /\ Upset /\ t \notin Elements(list)
  /\ ByTime(walk.kind) => i = 0
  /\ i \in 0 .. Len(list)
  /\ list' = SubSeq(list, 1, i) \o <<t>> \o SubSeq(list, i + 1, Len(list))
  /\ walk' = [walk EXCEPT !.shaken = @ \/ walk.at = "count"]
  /\ UNCHANGED <<came, solved, session, links, points, board>>

Disappear(t) ==
  /\ Upset /\ t \in Elements(list)
  /\ list' = SelectSeq(list, LAMBDA s : s # t)
  /\ walk' = [walk EXCEPT !.shaken = TRUE]
  /\ UNCHANGED <<came, solved, session, links, points, board>>

Solve(t) ==
  /\ Upset /\ t \in Elements(list) \ solved
  /\ solved' = solved \cup {t}
  /\ walk' = [walk EXCEPT !.shaken = TRUE]
  /\ UNCHANGED <<came, list, session, links, points, board>>
-----------------------------------------------------------------------------
\* The numbers under page n of a list of so many pages.
LinkDigg(n, total, body, padding, left) ==
  /\ links = NoLinks
  /\ links' = [flat |-> page_ranges(n, total, body, 2, padding, 4, left), number |-> n, total |-> total,
               closed |-> ~left]
  /\ UNCHANGED <<came, list, solved, session, walk, points, board, upsets>>

LinkInfinite(n, rows) ==
  /\ links = NoLinks
  /\ n = 1 \/ rows > (n - 1) * PageSize
  /\ links' = [flat |-> infinite_range(n, after_up_to_pad(rows, n, 2), 2), number |-> n,
               total |-> larger(1, pages(rows)), closed |-> FALSE]
  /\ UNCHANGED <<came, list, solved, session, walk, points, board, upsets>>
-----------------------------------------------------------------------------
\* ranker, over the users of a page: neighbours with the same points and as
\* many solved problems share a rank.
ranker(rows, rank) ==
  LET ranked[i \in 0 .. Len(rows)] ==
        IF i = 0 THEN [rank |-> rank, delta |-> 1, given |-> <<>>]
        ELSE LET b == ranked[i - 1]
                 new == i = 1 \/ points[rows[i]] # points[rows[i - 1]]
                 r == IF new THEN b.rank + b.delta ELSE b.rank
             IN  [rank |-> r, delta |-> IF new THEN 1 ELSE b.delta + 1,
                  given |-> Append(b.given, [rank |-> r, fan |-> rows[i]])]
  IN  ranked[Len(rows)].given

better(f) == {g \in Fans : points[g].points > points[f].points}

\* Broken: the first user is counted as number one.
board_page_from_one(rank) == (rank + 1) \div BoardSize + 1
board_page(rank) == rank \div BoardSize + 1

\* user_ranking_redirect counts who has more points, and of those who have as
\* many, the smaller ids.
RankingRedirect(f) ==
  LET rank == Cardinality(better(f))
              + Cardinality({g \in Fans : points[g].points = points[f].points /\ g < f})
  IN  /\ board' = [fan |-> f, number |-> board_page(rank), shown |-> <<>>, moved |-> FALSE]
      /\ UNCHANGED <<came, list, solved, session, walk, links, points, upsets>>

\* The lists are ordered by points only: rows of equal points come in any order.
Ordered(F) ==
  {s \in [1 .. Cardinality(F) -> F] :
     Elements(s) = F /\ \A i, j \in DOMAIN s : i < j => points[s[i]].points >= points[s[j]].points}
PageOf(order, n) == ranker(Slice(order, BoardSize * (n - 1), BoardSize * n), BoardSize * (n - 1))

LeaderBoard ==
  /\ board.number > 0 /\ board.shown = <<>>
  /\ \E order \in Ordered(Fans) : board' = [board EXCEPT !.shown = PageOf(order, board.number)]
  /\ UNCHANGED <<came, list, solved, session, walk, links, points, upsets>>

\* The list of a league, or of databases, has those with points in it.
LeagueBoard(n) ==
  LET F == {f \in Fans : points[f].points > 0}
  IN  /\ board.number = 0 /\ n \in 1 .. larger(1, (Cardinality(F) + BoardSize - 1) \div BoardSize)
      /\ \E order \in Ordered(F) : board' = [NoBoard EXCEPT !.number = n, !.shown = PageOf(order, n)]
      /\ UNCHANGED <<came, list, solved, session, walk, links, points, upsets>>

\* Points change: before a page of the board is looked up they may be any.
Score(f, p) ==
  /\ Upset /\ points[f] # p /\ board.number > 0
  /\ points' = [points EXCEPT ![f] = p]
  /\ board' = [board EXCEPT !.moved = TRUE]
  /\ UNCHANGED <<came, list, solved, session, walk, links>>
-----------------------------------------------------------------------------
PagingNext ==
  \/ /\ came = "list"
     /\ \/ \E q \in {"bare", "on", "off"} :
             Choose(q) \/ \E k \in {"problems", "organization", "tasks", "submissions", "of user"} : Enter(k, q)
        \/ CountPages \/ ShowRows \/ ShowLinks \/ Follow \/ GoAway
        \/ \E t \in Things : Disappear(t) \/ Solve(t) \/ \E i \in 0 .. Len(list) : Appear(t, i)
  \/ /\ came = "ranking"
     /\ \/ LeaderBoard \/ \E n \in 1 .. Cardinality(Fans) : LeagueBoard(n)
        \/ \E f \in Fans : RankingRedirect(f) \/ \E p \in Standings : Score(f, p)
  \/ /\ came = "numbers"
     /\ \E n \in 1 .. MaxPages, m \in 1 .. MaxPages :
          \/ n <= m /\ \E b \in {<<6, 2>>, <<10, 4>>}, l \in BOOLEAN : LinkDigg(n, m, b[1], b[2], l)
          \/ LinkInfinite(n, m)

PagingSpec == PagingInit /\ [][PagingNext]_gvars
-----------------------------------------------------------------------------
\* Who has followed the links to the end has seen all that was listed at the
\* beginning, whatever has appeared since, unless something has left the list or
\* was solved, or solved problems were hidden by the session alone: the links
\* then lead to pages of the list with them.
WalkIsWhole ==
  walk.at = "shown" /\ ~walk.more /\ ~walk.shaken /\ ~(walk.bare /\ walk.number > 1) =>
    walk.first \subseteq walk.seen

\* The numbers under a page go up, have the page among them and no page that
\* does not exist, and dots where and only where some are left out; and a
\* leaderboard page that was looked up for a user has the user, unless somebody
\* has as many points or points have changed since; it ranks nobody above those
\* who have more points, and right who shares the points with nobody.
LinksAndRanksHold ==
  /\ LET flat == links.flat
         Shown == {i \in DOMAIN flat : flat[i] # Gap}
     IN  /\ links.number \in Elements(flat) /\ Elements(flat) \subseteq {Gap} \cup 1 .. links.total
         /\ 1 \in Elements(flat) /\ flat[1] = 1
         /\ \A i \in DOMAIN flat : flat[i] = Gap /\ i < Len(flat) => flat[i + 1] > flat[i - 1] + 1
         /\ \A i \in DOMAIN flat : i + 1 \in Shown /\ i \in Shown => flat[i + 1] = flat[i] + 1
         /\ links.closed => flat[Len(flat)] = links.total
  /\ board.shown # <<>> /\ ~board.moved =>
       LET even(f) == {g \in Fans \ {f} : points[g].points = points[f].points}
       IN  /\ board.fan \in Fans /\ even(board.fan) = {} => \E i \in DOMAIN board.shown : board.shown[i].fan = board.fan
           /\ \A i \in DOMAIN board.shown :
                LET f == board.shown[i].fan
                    first == Cardinality(better(f)) + 1
                IN  board.shown[i].rank >= first /\ (even(f) = {} => board.shown[i].rank = first)

\* A reader who follows the links of a list, or looks somebody up in it, finds
\* what is there.
PagesHold == WalkIsWhole /\ LinksAndRanksHold
=============================================================================
