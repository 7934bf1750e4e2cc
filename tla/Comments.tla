------------------------------- MODULE Comments -------------------------------
(***************************************************************************)
(* Votes on comments, editing and hiding, beside the submissions of one    *)
(* contestant: who has solved nothing may not vote.  A vote is a row and a *)
(* change of the score, in two statements; taking one back happens under a *)
(* lock of the table of votes.                                             *)
(***************************************************************************)
EXTENDS Submitting

CONSTANTS Visitors,    \* requests that may be under way at once
          Voter,       \* [Visitors -> who is logged in]
          Solver,      \* the contestant of Submitting
          Topics       \* comments

ASSUME VisitorsAssumption == IsFiniteSet(Visitors)

VARIABLES votes,       \* CommentVote rows: no row is 0
          score, hidden,
          visit,       \* what each request is at
          overwritten  \* history: comments whose score an edit put back

cvars == <<votes, score, hidden, visit, overwritten>>

Away == [at |-> "away", comment |-> NoCase, delta |-> 0, hidden |-> FALSE]
Voters == {Voter[h] : h \in Visitors}
Mine(h) == votes[visit[h].comment][Voter[h]]
Moves(h, at) == visit' = [visit EXCEPT ![h].at = at]
GoesAway(h) == visit' = [visit EXCEPT ![h] = Away]
TableLocked == \E h \in Visitors : visit[h].at = "delete"

CommentsTypeOK ==
  /\ votes \in [Topics -> [Voters -> {-1, 0, 1}]]
  /\ score \in [Topics -> Int] /\ hidden \in [Topics -> BOOLEAN]
  /\ visit \in [Visitors ->
       [at : {"away", "save", "add", "lock", "delete", "subtract", "edit"},
        comment : Topics \cup {NoCase}, delta : Int, hidden : BOOLEAN]]
  /\ \A h \in Visitors : visit[h].at # "edit" => visit[h].delta \in {-1, 0, 1}
  /\ Cardinality({h \in Visitors : visit[h].at = "delete"}) <= 1
  /\ overwritten \subseteq Topics

CommentsInit ==
  /\ votes = [c \in Topics |-> [v \in Voters |-> 0]]
  /\ score = [c \in Topics |-> 0] /\ hidden = [c \in Topics |-> FALSE]
  /\ visit = [h \in Visitors |-> Away]
  /\ overwritten = {}
-----------------------------------------------------------------------------
\* Whoever is not of the staff must have a submission with full points; a
\* graded one may have them.
MayVote(v) == v = Solver => \E i \in Ids : sub[i].status = "D"

Vote(h, c, delta) ==
  /\ visit[h] = Away /\ Request
  /\ MayVote(Voter[h]) /\ ~hidden[c]
  /\ visit' = [visit EXCEPT ![h] = [at |-> "save", comment |-> c, delta |-> delta,
                                    hidden |-> FALSE]]
  /\ UNCHANGED <<svars, votes, score, hidden, overwritten>>

\* Broken: the vote that was there is not noticed.
SaveVoteTwice(h) ==
  /\ visit[h].at = "save" /\ ~TableLocked
  /\ votes' = [votes EXCEPT ![visit[h].comment][Voter[h]] = visit[h].delta]
  /\ Moves(h, "add")
  /\ UNCHANGED <<svars, requests, score, hidden, overwritten>>

\* vote.save(): one vote per voter and comment.
SaveVote(h) ==
  /\ visit[h].at = "save" /\ ~TableLocked
  /\ IF Mine(h) = 0
     THEN /\ votes' = [votes EXCEPT ![visit[h].comment][Voter[h]] = visit[h].delta]
          /\ Moves(h, "add")
     ELSE Moves(h, "lock") /\ UNCHANGED votes
  /\ UNCHANGED <<svars, requests, score, hidden, overwritten>>

\* LOCK TABLES, and the vote that was in the way is read.
ReadVote(h) ==
  /\ visit[h].at = "lock" /\ ~TableLocked
  /\ \/ Mine(h) = 0 /\ Moves(h, "save")
     \/ Mine(h) = visit[h].delta /\ GoesAway(h)
     \/ Mine(h) = -visit[h].delta /\ Mine(h) # 0 /\ Moves(h, "delete")
  /\ UNCHANGED <<svars, requests, votes, score, hidden, overwritten>>

DeleteVote(h) ==
  /\ visit[h].at = "delete"
  /\ votes' = [votes EXCEPT ![visit[h].comment][Voter[h]] = 0]
  /\ Moves(h, "subtract")
  /\ UNCHANGED <<svars, requests, score, hidden, overwritten>>

\* score = F('score') + delta, or - vote.score of the vote that was deleted.
UpdateScore(h) ==
  LET c == visit[h].comment
  IN  /\ \/ /\ visit[h].at = "add"
            /\ score' = [score EXCEPT ![c] = @ + visit[h].delta]
         \/ /\ visit[h].at = "subtract"
            /\ score' = [score EXCEPT ![c] = @ - (-visit[h].delta)]
      /\ GoesAway(h)
      /\ UNCHANGED <<svars, requests, votes, hidden, overwritten>>
-----------------------------------------------------------------------------
\* CommentEditAjax reads the comment and saves the whole row.
OpenEdit(h, c) ==
  /\ visit[h] = Away /\ Request /\ ~hidden[c]
  /\ visit' = [visit EXCEPT ![h] = [at |-> "edit", comment |-> c, delta |-> score[c],
                                    hidden |-> hidden[c]]]
  /\ UNCHANGED <<svars, votes, score, hidden, overwritten>>

SaveEdit(h) ==
  LET c == visit[h].comment
  IN  /\ visit[h].at = "edit"
      /\ score' = [score EXCEPT ![c] = visit[h].delta]
      /\ hidden' = [hidden EXCEPT ![c] = visit[h].hidden]
      /\ overwritten' = IF score[c] # visit[h].delta THEN overwritten \cup {c}
                                                     ELSE overwritten
      /\ GoesAway(h)
      /\ UNCHANGED <<svars, requests, votes>>

\* comment_hide
Hide(c) ==
  /\ ~hidden[c] /\ Request
  /\ hidden' = [hidden EXCEPT ![c] = TRUE]
  /\ UNCHANGED <<svars, votes, score, visit, overwritten>>
-----------------------------------------------------------------------------
CommentsNext ==
  \/ \E h \in Visitors : \/ SaveVote(h) \/ ReadVote(h) \/ DeleteVote(h)
                         \/ UpdateScore(h) \/ SaveEdit(h)
  \/ \E h \in Visitors, c \in Topics : OpenEdit(h, c)
  \/ \E h \in Visitors, c \in Topics, d \in {-1, 1} : Vote(h, c, d)
  \/ \E c \in Topics : Hide(c)

\* The two parts share the database and the web processes, and no row.
TypeOK == SubmittingTypeOK /\ CommentsTypeOK
Init == SubmittingInit /\ CommentsInit
Next == (SubmittingNext /\ UNCHANGED cvars) \/ CommentsNext
Spec == Init /\ [][Next]_<<svars, requests, cvars>>
-----------------------------------------------------------------------------
Count(c, vote) == Cardinality({v \in Voters : votes[c][v] = vote})

\* Once no request is under way the score of a comment is its votes up without
\* its votes down, however votes and retractions of one voter overlapped, unless
\* an edit put back a score that had changed since it was read.
ScoreIsTally ==
  (\A h \in Visitors : visit[h] = Away) =>
    \A c \in Topics \ overwritten : score[c] = Count(c, 1) - Count(c, -1)
=============================================================================
