------------------------------- MODULE Ratings -------------------------------
(***************************************************************************)
(* The ratings that users get for contests.  A contest is rated by what    *)
(* each of its users was rated before it, so that rating one again rates   *)
(* all that ended later, one after the other; the row of a user's profile  *)
(* keeps the last rating.                                                  *)
(*                                                                         *)
(* The temporary table that rate_contest drops commits what is before it:  *)
(* deleting the old ratings and rating a contest are steps, also where the *)
(* admin site begins a transaction.  A rating is the list of the contests  *)
(* it is made of, with the rank in each; the formula, and how often a user *)
(* was rated, are left out.  Contests are numbered in the order they end   *)
(* in, no two at once.  since, all and deprived do not exist in the        *)
(* program: the first contest from which on ratings are up to date,        *)
(* whether that is by rating all of them, and the users a rating of whom   *)
(* was deleted and never made again.                                       *)
(***************************************************************************)
EXTENDS Integers, Sequences, FiniteSets

CONSTANTS Rateable,     \* contests: 1 .. the number of them
          Contestants,
          Floor, Ceiling,   \* rating_floor and rating_ceiling, or NoLimit
          RateAll,      \* contests with rate_all
          NoLimit, Unrated,
          MaxScore,
          Raters,       \* web processes
          MaxRatings, MaxCorrections   \* bounds

ASSUME RatingsAssumption ==
  /\ Rateable = 1 .. Cardinality(Rateable) /\ RateAll \subseteq Rateable /\ MaxScore \in Nat
  /\ Floor \in [Rateable -> Nat \cup {NoLimit}] /\ Ceiling \in [Rateable -> Nat \cup {NoLimit}]

VARIABLES score,      \* of a live participation; zero if nothing was submitted
          struck,     \* is_disqualified: pairs of a contest and a user
          excluded,   \* rate_exclude, and users who are unlisted
          is_rated,
          rated,      \* rows of Rating
          profile,    \* Profile.rating
          rater, ratings, corrections,
          since, all, deprived

rvars == <<score, struck, excluded, is_rated, rated, profile, rater, ratings, corrections, since, all, deprived>>

Never == Cardinality(Rateable) + 1
NoRater == [at |-> "idle", from |-> 1, all |-> FALSE, todo |-> {}, contest |-> 1, new |-> <<>>,
            since |-> Never, late |-> FALSE]
least(S) == CHOOSE m \in S : \A k \in S : m <= k
most(S) == CHOOSE m \in S : \A k \in S : m >= k
less(m, n) == IF m < n THEN m ELSE n
-----------------------------------------------------------------------------
\* set_disqualified puts the score to -9999.
points(c, u) == IF <<c, u>> \in struck THEN -1 ELSE score[c][u]

\* tie_ranker, twice the rank it gives: who is level shares the places.
tie_ranker(c, users, u) ==
  2 * (1 + Cardinality({v \in users : points(c, v) > points(c, u)}))
    + Cardinality({v \in users : points(c, v) = points(c, u)}) - 1

\* What counts of a rating where it is compared: contests that were won.
Level(value) == Cardinality({i \in DOMAIN value : value[i].rank = 2})

RatedBefore(c, u) == {d \in 1 .. c - 1 : rated[d][u] # Unrated}
\* The query for the last rating before c.
rating_before(c, u) == IF RatedBefore(c, u) = {} THEN Unrated ELSE rated[most(RatedBefore(c, u))][u]

\* The query for the users of c.  known: by what rating a limit is judged.
users_of(c, known) ==
  {u \in Contestants :
     /\ <<c, u>> \notin excluded
     /\ c \in RateAll \/ score[c][u] > 0
     /\ Floor[c] # NoLimit /\ known[u] # Unrated => Level(known[u]) >= Floor[c]
     /\ Ceiling[c] # NoLimit /\ known[u] # Unrated => Level(known[u]) <= Ceiling[c]}

\* recalculate_ratings
recalculate(c, users) ==
  [u \in Contestants |->
     IF u \notin users THEN Unrated
     ELSE LET before == rating_before(c, u)
          IN  Append(IF before = Unrated THEN <<>> ELSE before, [contest |-> c, rank |-> tie_ranker(c, users, u)])]
-----------------------------------------------------------------------------
RatingsTypeOK ==
  /\ score \in [Rateable -> [Contestants -> 0 .. MaxScore]]
  /\ struck \cup excluded \subseteq Rateable \X Contestants /\ is_rated \subseteq Rateable
  /\ \A w \in Raters : rater[w].at \in {"idle", "delete", "reset", "choose", "read", "write"}
  /\ ratings \in 0 .. MaxRatings /\ corrections \in 0 .. MaxCorrections
  /\ since \in 1 .. Never /\ all \in BOOLEAN /\ deprived \subseteq Contestants

RatingsInit ==
  /\ score \in [Rateable -> [Contestants -> 0 .. MaxScore]]
  /\ struck = {} /\ excluded = {} /\ is_rated = Rateable
  /\ rated = [c \in Rateable |-> [u \in Contestants |-> Unrated]]
  /\ profile = [u \in Contestants |-> Unrated]
  /\ rater = [w \in Raters |-> NoRater]
  /\ ratings = 0 /\ corrections = 0 /\ since = Never /\ all = FALSE /\ deprived = {}
-----------------------------------------------------------------------------
RatersAtWork == {w \in Raters : rater[w].at # "idle"}

\* Ratings of c and later are made again, or all are.  A second one at once
\* makes both of them late.
StartRating(w, c, every) ==
  /\ rater[w] = NoRater /\ ratings < MaxRatings /\ ratings' = ratings + 1
  /\ rater' = [v \in Raters |->
                 IF v = w THEN [NoRater EXCEPT !.at = "delete", !.from = c, !.all = every,
                                               !.since = since, !.late = RatersAtWork # {}]
                 ELSE [rater[v] EXCEPT !.late = @ \/ v \in RatersAtWork]]
  /\ since' = Never

\* ContestAdmin.rate_view and rate_all_view
RateView(w, c) ==
  /\ c \in is_rated
  /\ StartRating(w, c, FALSE)
  /\ UNCHANGED <<score, struck, excluded, is_rated, rated, profile, corrections, all, deprived>>

RateAllView(w) ==
  /\ StartRating(w, 1, TRUE)
  /\ UNCHANGED <<score, struck, excluded, is_rated, rated, profile, corrections, all, deprived>>

\* set_disqualified, and its opposite; a contest that was rated is rated again.
SetDisqualified(w, c, u, to) ==
  /\ corrections < MaxCorrections /\ corrections' = corrections + 1
  /\ struck' = IF to THEN struck \cup {<<c, u>>} ELSE struck \ {<<c, u>>}
  /\ struck' # struck
  /\ IF c \in is_rated /\ \E v \in Contestants : rated[c][v] # Unrated
     THEN StartRating(w, c, FALSE)
     ELSE /\ rater[w] = NoRater /\ since' = Never
          /\ rater' = [v \in Raters |-> [rater[v] EXCEPT !.late = @ \/ v \in RatersAtWork]] /\ UNCHANGED ratings
  /\ UNCHANGED <<score, excluded, is_rated, rated, profile, all, deprived>>

\* The form of a contest is saved, or a rejudge changes a score: nothing is
\* rated again.
Correct(c, u) ==
  /\ corrections < MaxCorrections /\ corrections' = corrections + 1
  /\ \/ /\ excluded' = (excluded \ {<<c, u>>}) \cup ({<<c, u>>} \ excluded)
        /\ UNCHANGED <<score, is_rated>>
     \/ is_rated' = (is_rated \ {c}) \cup ({c} \ is_rated) /\ UNCHANGED <<score, excluded>>
     \/ /\ \E s \in 0 .. MaxScore : s # score[c][u] /\ score' = [score EXCEPT ![c][u] = s]
        /\ UNCHANGED <<excluded, is_rated>>
  /\ since' = Never
  /\ rater' = [v \in Raters |-> [rater[v] EXCEPT !.late = @ \/ v \in RatersAtWork]]
  /\ UNCHANGED <<struck, rated, profile, ratings, all, deprived>>
-----------------------------------------------------------------------------
RaterGoes(w, at) == rater' = [rater EXCEPT ![w].at = at]

\* Contest.rate: the ratings of contests that ended later, with and without
\* is_rated, are deleted.  rate_all_view empties the table, ...
DeleteRatings(w) ==
  LET old == {u \in Contestants : \E c \in rater[w].from .. Cardinality(Rateable) : rated[c][u] # Unrated}
  IN  /\ rater[w].at = "delete" /\ RaterGoes(w, IF rater[w].all THEN "reset" ELSE "choose")
      /\ rated' = [c \in Rateable |-> IF c >= rater[w].from THEN [u \in Contestants |-> Unrated] ELSE rated[c]]
      /\ deprived' = deprived \cup old
      /\ UNCHANGED <<score, struck, excluded, is_rated, profile, ratings, corrections, since, all>>

\* Broken: ... and the profiles keep theirs.
KeepProfiles(w) ==
  /\ rater[w].at = "reset" /\ RaterGoes(w, "choose")
  /\ deprived' = {}
  /\ UNCHANGED <<score, struck, excluded, is_rated, rated, profile, ratings, corrections, since, all>>

\* ... and takes the rating from all profiles.
ResetProfiles(w) ==
  /\ rater[w].at = "reset" /\ RaterGoes(w, "choose")
  /\ profile' = [u \in Contestants |-> Unrated]
  /\ deprived' = {}
  /\ UNCHANGED <<score, struck, excluded, is_rated, rated, ratings, corrections, since, all>>

\* The contests that are to be rated.
ChooseContests(w) ==
  /\ rater[w].at = "choose"
  /\ rater' = [rater EXCEPT ![w].at = "read", ![w].todo = {c \in is_rated : c >= rater[w].from}]
  /\ UNCHANGED <<score, struck, excluded, is_rated, rated, profile, ratings, corrections, since, all, deprived>>

\* rate_contest: the queries and the computation, ...
ReadContest(w) ==
  /\ rater[w].at = "read" /\ rater[w].todo # {}
  /\ LET c == least(rater[w].todo)
     IN  rater' = [rater EXCEPT ![w].at = "write", ![w].todo = @ \ {c}, ![w].contest = c,
                                ![w].new = recalculate(c, users_of(c, profile))]
  /\ UNCHANGED <<score, struck, excluded, is_rated, rated, profile, ratings, corrections, since, all, deprived>>

\* ... and the transaction that replaces the rows and updates the profiles.
WriteContest(w) ==
  LET new == rater[w].new
      got == {u \in Contestants : new[u] # Unrated}
      old == {u \in Contestants \ got : rated[rater[w].contest][u] # Unrated}
  IN  /\ rater[w].at = "write" /\ rater' = [rater EXCEPT ![w].at = "read", ![w].new = <<>>]
      /\ rated' = [rated EXCEPT ![rater[w].contest] = new]
      /\ profile' = [u \in Contestants |-> IF u \in got THEN new[u] ELSE profile[u]]
      /\ deprived' = (deprived \cup old) \ got
      /\ UNCHANGED <<score, struck, excluded, is_rated, ratings, corrections, since, all>>

EndRating(w) ==
  /\ rater[w].at = "read" /\ rater[w].todo = {}
  /\ rater' = [rater EXCEPT ![w] = NoRater]
  /\ IF rater[w].late THEN UNCHANGED <<since, all>>
     ELSE /\ since' = less(rater[w].since, rater[w].from)
          /\ all' = rater[w].all
  /\ UNCHANGED <<score, struck, excluded, is_rated, rated, profile, ratings, corrections, deprived>>

\* A request that ends with an exception leaves what it had committed.
BreakOff(w) ==
  /\ rater[w].at # "idle"
  /\ rater' = [rater EXCEPT ![w] = NoRater]
  /\ UNCHANGED <<score, struck, excluded, is_rated, rated, profile, ratings, corrections, since, all, deprived>>
-----------------------------------------------------------------------------
RatingsNext ==
  \/ \E w \in Raters : \/ RateAllView(w) \/ DeleteRatings(w) \/ ResetProfiles(w) \/ ChooseContests(w)
                       \/ ReadContest(w) \/ WriteContest(w) \/ EndRating(w) \/ BreakOff(w)
                       \/ \E c \in Rateable : RateView(w, c)
                       \/ \E c \in Rateable, u \in Contestants, to \in BOOLEAN : SetDisqualified(w, c, u, to)
  \/ \E c \in Rateable, u \in Contestants : Correct(c, u)

RatingsSpec == RatingsInit /\ [][RatingsNext]_rvars
-----------------------------------------------------------------------------
Limited(c) == Floor[c] # NoLimit \/ Ceiling[c] # NoLimit

\* By its own rating before c, that is; only rate_all sees no later one.
RowsAreRight(c) ==
  LET before == [u \in Contestants |-> rating_before(c, u)]
  IN  rated[c] = IF c \in is_rated THEN recalculate(c, users_of(c, before))
                 ELSE [u \in Contestants |-> Unrated]

ProfileIsRight(u) ==
  LET own == {c \in Rateable : rated[c][u] # Unrated}
  IN  profile[u] = IF own = {} THEN Unrated ELSE rated[most(own)][u]

\* Once a rating has ended that no other overlapped and that nothing overtook,
\* every contest from there on has the ratings its results and the ratings
\* before it make, and every profile has the last of its user: though contests
\* are rated in any order and again, and requests break off in the middle.  The
\* excuses are a contest with a limit, which rating only the later ones judges by
\* the ratings that are being replaced, and a user who was deprived of a rating.
RatingsAreRight ==
  since # Never =>
    /\ \A c \in since .. Cardinality(Rateable) : RowsAreRight(c) \/ (Limited(c) /\ ~all)
    /\ \A u \in Contestants \ deprived : ProfileIsRight(u)
=============================================================================
