--------------------------- MODULE ScoreboardProofs ---------------------------
(***************************************************************************)
(* Proofs about Scoreboard, for any number of workers, submissions and     *)
(* problems and whatever the formats compute: UpdateParticipation and      *)
(* ContestPoints are never expanded.                                       *)
(***************************************************************************)
EXTENDS Scoreboard, TLAPS

\* The values that occur, named by the operators that make them.
Codes == {"AC", "WA", "NULL"} \cup Failures
Statuses == {"none", "QU", "D", "gone"} \cup Failures
Places == Problems \cup {"none"}
CasePoints == {0} \cup {o[1] + o[2] : o \in Outcomes}
PointValues == {0} \cup {ContestPoints(p, c) : p \in Places, c \in CasePoints}
SubmissionType == [problem : Places, date : Ids \cup {0}, status : Statuses, result : Codes,
                   cases : Outcomes \cup {<<>>}, casePoints : CasePoints,
                   points : PointValues]
Results == {UpdateParticipation(f, S) : f \in Formats, S \in SUBSET SubmissionType}
Values == Results \cup {NoResult} \cup {[r EXCEPT !.score = DisqualifiedScore] : r \in Results}
Stages == {"idle", "contest", "load", "form", "sum", "save"}
WorkerType == [at : Stages, sub : Ids \cup {0}, points : PointValues, val : Values,
               dq : BOOLEAN, admin : BOOLEAN, removes : Ids \cup {0}, stale : BOOLEAN]

Types ==
  /\ format \in Formats
  /\ worker \in [Workers -> WorkerType]
  /\ \A w \in Workers : worker[w].at = "save" => worker[w].val \in Results
  /\ subs \in [Ids -> SubmissionType]
  /\ row \in [dq : BOOLEAN, val : Values]
  /\ verdict \in BOOLEAN /\ lost \in BOOLEAN /\ undone \in BOOLEAN

\* Points about to be written are those of the verdict, unless it has changed.
PendingPoints ==
  \A w \in Workers :
    LET i == worker[w].sub
    IN  worker[w].at = "contest" =>
          /\ i \in Ids /\ subs[i].status # "none"
          /\ ~worker[w].stale /\ i \in Present =>
               worker[w].points = ContestPoints(subs[i].problem, subs[i].casePoints)

\* Only the way to a disqualification has an administrator.
Admins ==
  \A w \in Workers :
    /\ worker[w].at \in {"idle", "contest", "load"} => ~worker[w].admin
    /\ worker[w].at = "form" => worker[w].admin

Standing ==
  ~undone /\ (\A w \in Workers : ~worker[w].admin) =>
    /\ row.dq = verdict
    /\ row.dq => row.val.score = DisqualifiedScore

\* A sum that was read and is not out of date.
FreshSum ==
  \A w \in Workers :
    worker[w].at = "save" /\ ~worker[w].stale =>
      worker[w].val = Result(Present \ {worker[w].removes})

\* w will save the row, unless it fails.
Owes(w) ==
  \/ worker[w].at \in {"load", "form", "sum", "save"}
  \/ worker[w].at = "contest" /\ worker[w].sub \in Present
RowMatches ==
  LET result == Result(Present)
  IN  row.val = IF row.dq THEN [result EXCEPT !.score = DisqualifiedScore] ELSE result
Settled == AllGraded /\ ~lost /\ (\A w \in Workers : ~Owes(w)) => RowMatches

IInv == Types /\ PendingPoints /\ PointsFollowVerdicts /\ Admins /\ Standing
          /\ FreshSum /\ Settled

Zero == 0 \in PointValues /\ 0 \in CasePoints /\ NoResult \in Values
LEMMA ZeroIsAValue == Zero
BY DEF Zero, PointValues, CasePoints, Values

LEMMA IdleTyped ==
  /\ IdleWorker \in WorkerType
  /\ IdleWorker.at = "idle" /\ ~IdleWorker.admin /\ ~IdleWorker.stale /\ IdleWorker.removes = 0
BY ZeroIsAValue DEF Zero, IdleWorker, WorkerType, Stages

\* What marking sums as out of date changes.
LEMMA OutOfDateFields ==
  ASSUME NEW ws \in [Workers -> WorkerType]
  PROVE  /\ OutOfDate(ws) \in [Workers -> WorkerType]
         /\ \A v \in Workers :
              /\ OutOfDate(ws)[v].at = ws[v].at /\ OutOfDate(ws)[v].sub = ws[v].sub
              /\ OutOfDate(ws)[v].points = ws[v].points
              /\ OutOfDate(ws)[v].val = ws[v].val /\ OutOfDate(ws)[v].dq = ws[v].dq
              /\ OutOfDate(ws)[v].admin = ws[v].admin
              /\ OutOfDate(ws)[v].removes = ws[v].removes
              /\ OutOfDate(ws)[v].stale = (ws[v].stale \/ ws[v].at = "save")
<1>1. ASSUME NEW v \in Workers
      PROVE  /\ ws[v] \in WorkerType
             /\ OutOfDate(ws)[v] = IF ws[v].at = "save" THEN [ws[v] EXCEPT !.stale = TRUE]
                                                        ELSE ws[v]
  BY DEF OutOfDate
<1>2. ASSUME NEW v \in Workers
      PROVE  /\ OutOfDate(ws)[v] \in WorkerType
             /\ OutOfDate(ws)[v].at = ws[v].at /\ OutOfDate(ws)[v].sub = ws[v].sub
             /\ OutOfDate(ws)[v].points = ws[v].points
             /\ OutOfDate(ws)[v].val = ws[v].val /\ OutOfDate(ws)[v].dq = ws[v].dq
             /\ OutOfDate(ws)[v].admin = ws[v].admin
             /\ OutOfDate(ws)[v].removes = ws[v].removes
             /\ OutOfDate(ws)[v].stale = (ws[v].stale \/ ws[v].at = "save")
  BY <1>1 DEF WorkerType
<1>3. OutOfDate(ws) \in [Workers -> WorkerType]
  <2>1. OutOfDate(ws) = [v \in Workers |-> OutOfDate(ws)[v]]
    BY DEF OutOfDate
  <2>. QED
    BY <2>1, <1>2
<1>. QED
  BY <1>2, <1>3

LEMMA RegradedFields ==
  ASSUME NEW ws \in [Workers -> WorkerType], NEW i \in Ids
  PROVE  /\ Regraded(ws, i) \in [Workers -> WorkerType]
         /\ \A v \in Workers :
              /\ Regraded(ws, i)[v].at = ws[v].at /\ Regraded(ws, i)[v].sub = ws[v].sub
              /\ Regraded(ws, i)[v].points = ws[v].points
              /\ Regraded(ws, i)[v].val = ws[v].val /\ Regraded(ws, i)[v].dq = ws[v].dq
              /\ Regraded(ws, i)[v].admin = ws[v].admin
              /\ Regraded(ws, i)[v].removes = ws[v].removes
              /\ Regraded(ws, i)[v].stale
                   = (ws[v].stale \/ (ws[v].at = "contest" /\ ws[v].sub = i))
<1>1. ASSUME NEW v \in Workers
      PROVE  /\ ws[v] \in WorkerType
             /\ Regraded(ws, i)[v] = IF ws[v].at = "contest" /\ ws[v].sub = i
                                     THEN [ws[v] EXCEPT !.stale = TRUE] ELSE ws[v]
  BY DEF Regraded
<1>2. ASSUME NEW v \in Workers
      PROVE  /\ Regraded(ws, i)[v] \in WorkerType
             /\ Regraded(ws, i)[v].at = ws[v].at /\ Regraded(ws, i)[v].sub = ws[v].sub
             /\ Regraded(ws, i)[v].points = ws[v].points
             /\ Regraded(ws, i)[v].val = ws[v].val /\ Regraded(ws, i)[v].dq = ws[v].dq
             /\ Regraded(ws, i)[v].admin = ws[v].admin
             /\ Regraded(ws, i)[v].removes = ws[v].removes
             /\ Regraded(ws, i)[v].stale
                  = (ws[v].stale \/ (ws[v].at = "contest" /\ ws[v].sub = i))
  BY <1>1 DEF WorkerType
<1>3. Regraded(ws, i) \in [Workers -> WorkerType]
  <2>1. Regraded(ws, i) = [v \in Workers |-> Regraded(ws, i)[v]]
    BY DEF Regraded
  <2>. QED
    BY <2>1, <1>2
<1>. QED
  BY <1>2, <1>3

LEMMA WithPointsTyped ==
  ASSUME NEW i \in Ids, NEW n \in PointValues
  PROVE  /\ WithPoints(i, n) \in WorkerType
         /\ WithPoints(i, n).at = "contest" /\ WithPoints(i, n).sub = i
         /\ WithPoints(i, n).points = n
         /\ ~WithPoints(i, n).admin /\ ~WithPoints(i, n).stale /\ WithPoints(i, n).removes = 0
BY ZeroIsAValue DEF Zero, WithPoints, IdleWorker, WorkerType, Stages

LEMMA PointsAreValues ==
  ASSUME NEW s \in SubmissionType
  PROVE  ContestPoints(s.problem, s.casePoints) \in PointValues
BY DEF SubmissionType, PointValues

LEMMA ResultTyped ==
  ASSUME format \in Formats, subs \in [Ids -> SubmissionType], NEW I \in SUBSET Ids
  PROVE  Result(I) \in Results
BY DEF Result, Results, Submissions

LEMMA AbsentTyped ==
  ASSUME NEW p \in Places, NEW i \in Ids \cup {0}, NEW st \in Statuses
  PROVE  [NoSubmission EXCEPT !.problem = p, !.date = i, !.status = st] \in SubmissionType
BY ZeroIsAValue DEF Zero, NoSubmission, SubmissionType, Codes

\* Every step leaves the state well typed.
LEMMA TypesInductive == ASSUME Types, [Next]_vars PROVE Types'
<1> USE DEF Types, history
<1>1. ASSUME NEW i \in Ids, NEW p \in Problems, Submit(i, p) PROVE Types'
  <2>1. [NoSubmission EXCEPT !.problem = p, !.date = i, !.status = "QU"] \in SubmissionType
    BY AbsentTyped DEF Places, Statuses
  <2>. QED
    BY <1>1, <2>1, OutOfDateFields DEF Submit
<1>2. ASSUME NEW i \in Ids, NEW r \in Failures, Fail(i, r) PROVE Types'
  <2>1. [subs[i] EXCEPT !.status = r, !.result = r] \in SubmissionType
    BY DEF SubmissionType, Statuses, Codes
  <2>2. subs' = [subs EXCEPT ![i] = [subs[i] EXCEPT !.status = r, !.result = r]]
    BY <1>2 DEF Fail
  <2>. QED
    BY <1>2, <2>1, <2>2, OutOfDateFields DEF Fail
<1>3. ASSUME NEW i \in Ids, Rejudge(i) PROVE Types'
  <2>1. [subs[i] EXCEPT !.status = "QU", !.result = "NULL", !.cases = <<>>] \in SubmissionType
    BY DEF SubmissionType, Statuses, Codes
  <2>. QED
    BY <1>3, <2>1, OutOfDateFields DEF Rejudge
<1>4. ASSUME NEW w \in Workers, NEW i \in Ids, NEW o \in Outcomes, Grade(w, i, o)
      PROVE  Types'
  <2> DEFINE cp == o[1] + o[2]
             graded == [subs[i] EXCEPT !.status = "D", !.cases = o, !.casePoints = cp,
                                       !.result = IF cp = CaseTotal THEN "AC" ELSE "WA"]
  <2>1. cp \in CasePoints
    BY DEF CasePoints
  <2>2. graded \in SubmissionType
    BY <2>1 DEF SubmissionType, Statuses, Codes
  <2>3. ContestPoints(subs[i].problem, cp) \in PointValues
    BY <2>1 DEF SubmissionType, PointValues
  <2>4. subs' = [subs EXCEPT ![i] = graded]
    BY <1>4 DEF Grade
  <2>5. subs' \in [Ids -> SubmissionType]
    BY <2>2, <2>4
  <2>6. Regraded(OutOfDate(worker), i) \in [Workers -> WorkerType]
    BY OutOfDateFields, RegradedFields
  <2>7. worker' = [Regraded(OutOfDate(worker), i) EXCEPT
                     ![w] = WithPoints(i, ContestPoints(subs[i].problem, cp))]
    BY <1>4 DEF Grade
  <2>8. WithPoints(i, ContestPoints(subs[i].problem, cp)) \in WorkerType
    BY <2>3, WithPointsTyped
  <2>9. worker' \in [Workers -> WorkerType]
    BY <2>6, <2>7, <2>8
  <2>10. ASSUME NEW v \in Workers, worker'[v].at = "save" PROVE worker'[v].val \in Results
    <3>1. v # w
      BY <2>3, <2>6, <2>7, <2>10, WithPointsTyped
    <3>2. worker'[v] = Regraded(OutOfDate(worker), i)[v]
      BY <2>6, <2>7, <3>1
    <3>3. OutOfDate(worker) \in [Workers -> WorkerType]
      BY OutOfDateFields
    <3>4. worker'[v].at = worker[v].at /\ worker'[v].val = worker[v].val
      BY <3>2, <3>3, OutOfDateFields, RegradedFields
    <3>. QED
      BY <2>10, <3>4
  <2>. QED
    BY <1>4, <2>5, <2>9, <2>10 DEF Grade
<1>5. ASSUME NEW w \in Workers, NEW i \in Ids, RescoreSubmission(w, i) PROVE Types'
  BY <1>5, PointsAreValues, WithPointsTyped DEF RescoreSubmission, Becomes
<1>6. ASSUME NEW w \in Workers, NEW i \in Ids, Delete(w, i) PROVE Types'
  <2>1. [IdleWorker EXCEPT !.at = "sum", !.dq = row.dq, !.removes = i] \in WorkerType
    BY ZeroIsAValue DEF Zero, IdleWorker, WorkerType, Stages
  <2>2. [IdleWorker EXCEPT !.at = "sum", !.dq = row.dq, !.removes = i].at = "sum"
    BY DEF IdleWorker
  <2>. QED
    BY <1>6, <2>1, <2>2 DEF Delete, Becomes
<1>7. ASSUME NEW w \in Workers, RescoreContest(w) PROVE Types'
  <2>1. [IdleWorker EXCEPT !.at = "sum", !.dq = row.dq] \in WorkerType
    BY ZeroIsAValue DEF Zero, IdleWorker, WorkerType, Stages
  <2>2. [IdleWorker EXCEPT !.at = "sum", !.dq = row.dq].at = "sum"
    BY DEF IdleWorker
  <2>. QED
    BY <1>7, <2>1, <2>2 DEF RescoreContest, Becomes
<1>8. ASSUME NEW w \in Workers, ToggleDisqualified(w) PROVE Types'
  <2>1. [IdleWorker EXCEPT !.at = "sum", !.admin = TRUE, !.dq = ~row.dq] \in WorkerType
    BY ZeroIsAValue DEF Zero, IdleWorker, WorkerType, Stages
  <2>2. [IdleWorker EXCEPT !.at = "sum", !.admin = TRUE, !.dq = ~row.dq].at = "sum"
    BY DEF IdleWorker
  <2>. QED
    BY <1>8, <2>1, <2>2 DEF ToggleDisqualified, Becomes
<1>9. ASSUME NEW w \in Workers, OpenForm(w) PROVE Types'
  <2> DEFINE form == [IdleWorker EXCEPT !.at = "form", !.admin = TRUE, !.dq = ~row.dq,
                                        !.val = row.val]
  <2>1. form \in WorkerType
    BY ZeroIsAValue DEF Zero, IdleWorker, WorkerType, Stages
  <2>2. form.at = "form"
    BY DEF IdleWorker
  <2>. QED
    BY <1>9, <2>1, <2>2 DEF OpenForm, Becomes
<1>10. ASSUME NEW w \in Workers, WriteContest(w) PROVE Types'
  <2> DEFINE loading == [IdleWorker EXCEPT !.at = "load"]
             i == worker[w].sub
  <2>1. loading \in WorkerType /\ loading.at = "load"
    BY ZeroIsAValue DEF Zero, IdleWorker, WorkerType, Stages
  <2>2. Becomes(w, loading) \in [Workers -> WorkerType]
    BY <2>1 DEF Becomes
  <2>3. CASE i \in Present
    <3>1. i \in Ids
      BY <2>3 DEF Present
    <3>2. [subs[i] EXCEPT !.points = worker[w].points] \in SubmissionType
      BY <3>1 DEF SubmissionType, WorkerType
    <3>3. subs' = [subs EXCEPT ![i] = [subs[i] EXCEPT !.points = worker[w].points]]
      BY <1>10, <2>3 DEF WriteContest
    <3>4. worker' = OutOfDate(Becomes(w, loading))
      BY <1>10, <2>3 DEF WriteContest
    <3>5. \A v \in Workers : worker'[v].at = "save" => worker'[v].val \in Results
      BY <2>1, <2>2, <3>4, OutOfDateFields DEF Becomes
    <3>. QED
      BY <1>10, <2>2, <3>1, <3>2, <3>3, <3>4, <3>5, OutOfDateFields DEF WriteContest
  <2>4. CASE i \notin Present
    BY <1>10, <2>4, IdleTyped DEF WriteContest, Becomes
  <2>. QED
    BY <2>3, <2>4
<1>11. ASSUME NEW w \in Workers, LoadParticipation(w) PROVE Types'
  <2>1. [worker[w] EXCEPT !.at = "sum", !.dq = row.dq] \in WorkerType
    BY DEF WorkerType, Stages
  <2>2. [worker[w] EXCEPT !.at = "sum", !.dq = row.dq].at = "sum"
    BY DEF WorkerType
  <2>. QED
    BY <1>11, <2>1, <2>2 DEF LoadParticipation
<1>12. ASSUME NEW w \in Workers, Aggregate(w) PROVE Types'
  <2> DEFINE result == Result(Present \ {worker[w].removes})
             summed == [worker[w] EXCEPT !.at = "save", !.val = result]
  <2>1. result \in Results
    BY ResultTyped DEF Present
  <2>2. summed \in WorkerType /\ summed.val = result
    BY <2>1 DEF WorkerType, Stages, Values
  <2>3. worker' = [worker EXCEPT ![w] = summed]
    BY <1>12 DEF Aggregate
  <2>. QED
    BY <1>12, <2>1, <2>2, <2>3 DEF Aggregate
<1>13. ASSUME NEW w \in Workers, SaveRow(w) PROVE Types'
  <2> DEFINE me == worker[w]
             left == [NoSubmission EXCEPT !.status = "gone"]
  <2>1. me.val \in Results /\ me \in WorkerType
    BY <1>13 DEF SaveRow
  <2>2. row' \in [dq : BOOLEAN, val : Values]
    BY <1>13, <2>1 DEF SaveRow, Values, WorkerType
  <2>3. left \in SubmissionType
    BY ZeroIsAValue DEF Zero, NoSubmission, SubmissionType, Codes, Statuses, Places
  <2>4. Becomes(w, IdleWorker) \in [Workers -> WorkerType]
    BY IdleTyped DEF Becomes
  <2>5. /\ worker' \in [Workers -> WorkerType]
        /\ \A v \in Workers : worker'[v].at = "save" => worker'[v].val \in Results
    <3>1. CASE me.removes = 0
      BY <1>13, <2>4, <3>1, IdleTyped DEF SaveRow, Becomes
    <3>2. CASE me.removes # 0
      <4>1. worker' = OutOfDate(Becomes(w, IdleWorker))
        BY <1>13, <3>2 DEF SaveRow
      <4>. QED
        BY <4>1, <2>4, IdleTyped, OutOfDateFields DEF Becomes
    <3>. QED
      BY <3>1, <3>2
  <2>6. subs' \in [Ids -> SubmissionType]
    BY <1>13, <2>1, <2>3 DEF SaveRow, WorkerType
  <2>7. verdict' \in BOOLEAN /\ lost' \in BOOLEAN /\ undone' \in BOOLEAN /\ format' \in Formats
    BY <1>13, <2>1 DEF SaveRow, WorkerType
  <2>. QED
    BY <2>2, <2>5, <2>6, <2>7
<1>14. ASSUME NEW w \in Workers, SaveFails(w) PROVE Types'
  <2>1. undone' \in BOOLEAN
    BY <1>14 DEF SaveFails, WorkerType
  <2>. QED
    BY <1>14, <2>1, IdleTyped DEF SaveFails, Becomes
<1>15. ASSUME NEW w \in Workers, SaveForm(w) PROVE Types'
  <2>1. [worker[w] EXCEPT !.at = "sum", !.val = NoResult] \in WorkerType
    BY ZeroIsAValue DEF Zero, WorkerType, Stages
  <2>2. [worker[w] EXCEPT !.at = "sum", !.val = NoResult].at = "sum"
    BY DEF WorkerType
  <2>3. row' \in [dq : BOOLEAN, val : Values] /\ verdict' \in BOOLEAN
    BY <1>15 DEF SaveForm, WorkerType
  <2>. QED
    BY <1>15, <2>1, <2>2, <2>3 DEF SaveForm
<1>16. CASE UNCHANGED vars
  BY <1>16 DEF vars
<1>. QED
  BY <1>1, <1>2, <1>3, <1>4, <1>5, <1>6, <1>7, <1>8, <1>9, <1>10, <1>11, <1>12, <1>13,
     <1>14, <1>15, <1>16 DEF Next, Recompute

\* What a step leaves of a worker that does not take it: all but the mark of
\* what is out of date, which stays, and is set on every sum when a submission
\* changes.
Keeps(v) ==
  /\ worker'[v].at = worker[v].at /\ worker'[v].sub = worker[v].sub
  /\ worker'[v].points = worker[v].points /\ worker'[v].val = worker[v].val
  /\ worker'[v].dq = worker[v].dq /\ worker'[v].admin = worker[v].admin
  /\ worker'[v].removes = worker[v].removes
  /\ worker[v].stale => worker'[v].stale
  /\ subs' = subs \/ (worker[v].at = "save" => worker'[v].stale)

LEMMA NobodysStep ==
  ASSUME Types, NEW v \in Workers, worker' = OutOfDate(worker)
  PROVE  Keeps(v)
BY OutOfDateFields DEF Types, Keeps

LEMMA TurnKeeps ==
  ASSUME Types, NEW w \in Workers, NEW v \in Workers, v # w, NEW state,
         worker' = [worker EXCEPT ![w] = state], UNCHANGED subs
  PROVE  Keeps(v)
BY DEF Types, Keeps

LEMMA TurnOutOfDate ==
  ASSUME Types, NEW w \in Workers, NEW v \in Workers, v # w, NEW state \in WorkerType,
         worker' = OutOfDate(Becomes(w, state))
  PROVE  Keeps(v)
<1> DEFINE ws == Becomes(w, state)
<1>1. ws \in [Workers -> WorkerType] /\ ws[v] = worker[v]
  BY DEF Types, Becomes
<1>2. worker' = OutOfDate(ws)
  OBVIOUS
<1> HIDE DEF ws
<1>3. /\ worker'[v].at = worker[v].at /\ worker'[v].sub = worker[v].sub
      /\ worker'[v].points = worker[v].points /\ worker'[v].val = worker[v].val
      /\ worker'[v].dq = worker[v].dq /\ worker'[v].admin = worker[v].admin
      /\ worker'[v].removes = worker[v].removes
      /\ worker'[v].stale = (worker[v].stale \/ worker[v].at = "save")
  BY <1>1, <1>2, OutOfDateFields
<1>. QED
  BY <1>3 DEF Keeps

LEMMA GradeKeeps ==
  ASSUME Types, NEW w \in Workers, NEW i \in Ids, NEW o \in Outcomes, Grade(w, i, o),
         NEW v \in Workers, v # w
  PROVE  /\ Keeps(v)
         /\ worker[v].at = "contest" /\ worker[v].sub = i => worker'[v].stale
<1>1. OutOfDate(worker) \in [Workers -> WorkerType]
  BY OutOfDateFields DEF Types
<1>2. worker'[v] = Regraded(OutOfDate(worker), i)[v]
  BY <1>1, RegradedFields DEF Grade
<1> DEFINE ws == OutOfDate(worker)
<1>3. /\ ws[v].at = worker[v].at /\ ws[v].sub = worker[v].sub
      /\ ws[v].points = worker[v].points /\ ws[v].val = worker[v].val
      /\ ws[v].dq = worker[v].dq /\ ws[v].admin = worker[v].admin
      /\ ws[v].removes = worker[v].removes
      /\ ws[v].stale = (worker[v].stale \/ worker[v].at = "save")
  BY OutOfDateFields DEF Types
<1> HIDE DEF ws
<1>4. /\ worker'[v].at = ws[v].at /\ worker'[v].sub = ws[v].sub
      /\ worker'[v].points = ws[v].points /\ worker'[v].val = ws[v].val
      /\ worker'[v].dq = ws[v].dq /\ worker'[v].admin = ws[v].admin
      /\ worker'[v].removes = ws[v].removes
      /\ worker'[v].stale = (ws[v].stale \/ (ws[v].at = "contest" /\ ws[v].sub = i))
  BY <1>1, <1>2, RegradedFields DEF ws
<1>. QED
  BY <1>3, <1>4 DEF Keeps

LEMMA WriteContestKeeps ==
  ASSUME Types, NEW w \in Workers, WriteContest(w), NEW v \in Workers, v # w
  PROVE  Keeps(v)
<1>1. CASE worker[w].sub \in Present
  <2>1. [IdleWorker EXCEPT !.at = "load"] \in WorkerType
    BY ZeroIsAValue DEF Zero, IdleWorker, WorkerType, Stages
  <2>2. worker' = OutOfDate(Becomes(w, [IdleWorker EXCEPT !.at = "load"]))
    BY <1>1 DEF WriteContest
  <2>. QED
    BY <2>1, <2>2, TurnOutOfDate
<1>2. CASE worker[w].sub \notin Present
  BY <1>2, TurnKeeps DEF WriteContest, Becomes
<1>. QED
  BY <1>1, <1>2

LEMMA SaveRowKeeps ==
  ASSUME Types, NEW w \in Workers, SaveRow(w), NEW v \in Workers, v # w
  PROVE  Keeps(v)
<1>1. CASE worker[w].removes = 0
  BY <1>1, TurnKeeps DEF SaveRow, Becomes
<1>2. CASE worker[w].removes # 0
  BY <1>2, IdleTyped, TurnOutOfDate DEF SaveRow
<1>. QED
  BY <1>1, <1>2

\* The steps of w that only turn w to something else.
Turns(w) ==
  \/ \E i \in Ids : RescoreSubmission(w, i) \/ Delete(w, i)
  \/ RescoreContest(w) \/ ToggleDisqualified(w) \/ OpenForm(w)
  \/ LoadParticipation(w) \/ Aggregate(w) \/ SaveFails(w) \/ SaveForm(w)

LEMMA OthersKeep ==
  ASSUME Types, NEW w \in Workers, Turns(w), NEW v \in Workers, v # w
  PROVE  Keeps(v) /\ subs' = subs
<1>1. UNCHANGED subs /\ worker'[v] = worker[v]
  BY DEF Types, Turns, RescoreSubmission, Delete, RescoreContest, ToggleDisqualified, OpenForm,
         LoadParticipation, Aggregate, SaveFails, SaveForm, Becomes
<1>. QED
  BY <1>1 DEF Keeps

\* What every step makes of the worker that takes it.
LEMMA OwnSteps ==
  ASSUME Types, NEW w \in Workers
  PROVE  /\ \A i \in Ids, o \in Outcomes :
              Grade(w, i, o) =>
                worker'[w] = WithPoints(i, ContestPoints(subs[i].problem, o[1] + o[2]))
         /\ \A i \in Ids :
              RescoreSubmission(w, i) =>
                worker'[w]
                  = WithPoints(i, ContestPoints(subs[i].problem, subs[i].casePoints))
         /\ \A i \in Ids : Delete(w, i) => worker'[w].at = "sum" /\ ~worker'[w].admin
         /\ RescoreContest(w) => worker'[w].at = "sum" /\ ~worker'[w].admin
         /\ ToggleDisqualified(w) => worker'[w].at = "sum" /\ worker'[w].admin
         /\ OpenForm(w) => worker'[w].at = "form" /\ worker'[w].admin
<1> USE DEF Types
<1>1. ASSUME NEW i \in Ids, NEW o \in Outcomes, Grade(w, i, o)
      PROVE  worker'[w] = WithPoints(i, ContestPoints(subs[i].problem, o[1] + o[2]))
  <2>1. OutOfDate(worker) \in [Workers -> WorkerType]
    BY OutOfDateFields
  <2>. QED
    BY <1>1, <2>1, RegradedFields DEF Grade
<1>2. ASSUME NEW i \in Ids, RescoreSubmission(w, i)
      PROVE  worker'[w] = WithPoints(i, ContestPoints(subs[i].problem, subs[i].casePoints))
  BY <1>2 DEF RescoreSubmission, Becomes
<1>3. ASSUME NEW i \in Ids, Delete(w, i) PROVE worker'[w].at = "sum" /\ ~worker'[w].admin
  BY <1>3 DEF Delete, Becomes, IdleWorker
<1>4. ASSUME RescoreContest(w) PROVE worker'[w].at = "sum" /\ ~worker'[w].admin
  BY <1>4 DEF RescoreContest, Becomes, IdleWorker
<1>5. ASSUME ToggleDisqualified(w) PROVE worker'[w].at = "sum" /\ worker'[w].admin
  BY <1>5 DEF ToggleDisqualified, Becomes, IdleWorker
<1>6. ASSUME OpenForm(w) PROVE worker'[w].at = "form" /\ worker'[w].admin
  BY <1>6 DEF OpenForm, Becomes, IdleWorker
<1>. QED
  BY <1>1, <1>2, <1>3, <1>4, <1>5, <1>6

LEMMA OwnRecomputation ==
  ASSUME Types, NEW w \in Workers
  PROVE  /\ WriteContest(w) =>
              /\ worker'[w].at = IF worker[w].sub \in Present THEN "load" ELSE "idle"
              /\ ~worker'[w].admin
         /\ LoadParticipation(w) =>
              worker'[w].at = "sum" /\ worker'[w].admin = worker[w].admin
         /\ Aggregate(w) => /\ worker'[w].at = "save" /\ worker'[w].admin = worker[w].admin
                            /\ worker'[w].removes = worker[w].removes
                            /\ worker'[w].val = Result(Present \ {worker[w].removes})
         /\ SaveRow(w) \/ SaveFails(w) => worker'[w].at = "idle" /\ ~worker'[w].admin
         /\ SaveForm(w) => worker'[w].at = "sum" /\ worker'[w].admin = worker[w].admin
<1> USE DEF Types
<1>0. worker[w] \in WorkerType
  OBVIOUS
<1>1. ASSUME WriteContest(w)
      PROVE  /\ worker'[w].at = IF worker[w].sub \in Present THEN "load" ELSE "idle"
             /\ ~worker'[w].admin
  <2>1. CASE worker[w].sub \in Present
    <3> DEFINE loading == [IdleWorker EXCEPT !.at = "load"]
    <3>1. loading \in WorkerType /\ loading.at = "load" /\ ~loading.admin
      BY ZeroIsAValue DEF Zero, IdleWorker, WorkerType, Stages
    <3> DEFINE ws == Becomes(w, loading)
    <3>2. ws \in [Workers -> WorkerType] /\ ws[w] = loading
      BY <3>1 DEF Becomes
    <3>3. worker' = OutOfDate(ws)
      BY <1>1, <2>1 DEF WriteContest
    <3> HIDE DEF ws, loading
    <3>4. worker'[w].at = loading.at /\ worker'[w].admin = loading.admin
      BY <3>2, <3>3, OutOfDateFields
    <3>. QED
      BY <2>1, <3>1, <3>4
  <2>2. CASE worker[w].sub \notin Present
    BY <1>1, <2>2, IdleTyped DEF WriteContest, Becomes
  <2>. QED
    BY <2>1, <2>2
<1>2. ASSUME LoadParticipation(w)
      PROVE  worker'[w].at = "sum" /\ worker'[w].admin = worker[w].admin
  BY <1>0, <1>2 DEF LoadParticipation, WorkerType
<1>3. ASSUME Aggregate(w)
      PROVE  /\ worker'[w].at = "save" /\ worker'[w].admin = worker[w].admin
             /\ worker'[w].removes = worker[w].removes
             /\ worker'[w].val = Result(Present \ {worker[w].removes})
  BY <1>0, <1>3 DEF Aggregate, WorkerType
<1>4. ASSUME SaveRow(w) \/ SaveFails(w) PROVE worker'[w].at = "idle" /\ ~worker'[w].admin
  <2>1. Becomes(w, IdleWorker) \in [Workers -> WorkerType]
        /\ Becomes(w, IdleWorker)[w] = IdleWorker
    BY IdleTyped DEF Becomes
  <2>2. worker' = Becomes(w, IdleWorker) \/ worker' = OutOfDate(Becomes(w, IdleWorker))
    BY <1>4 DEF SaveRow, SaveFails
  <2>. QED
    BY <2>1, <2>2, IdleTyped, OutOfDateFields
<1>5. ASSUME SaveForm(w) PROVE worker'[w].at = "sum" /\ worker'[w].admin = worker[w].admin
  BY <1>0, <1>5 DEF SaveForm, WorkerType
<1>. QED
  BY <1>1, <1>2, <1>3, <1>4, <1>5

\* Cases of a step: nobody's, or one of w's.
Nobodys ==
  \/ \E i \in Ids, p \in Problems : Submit(i, p)
  \/ \E i \in Ids, r \in Failures : Fail(i, r)
  \/ \E i \in Ids : Rejudge(i)
Grades(w) == \E i \in Ids, o \in Outcomes : Grade(w, i, o)

LEMMA StepCases ==
  ASSUME [Next]_vars
  PROVE  \/ Nobodys
         \/ \E w \in Workers : Grades(w) \/ Turns(w) \/ WriteContest(w) \/ SaveRow(w)
         \/ UNCHANGED vars
BY DEF Next, Recompute, Nobodys, Grades, Turns

LEMMA NobodyKeeps ==
  ASSUME Types, Nobodys, NEW v \in Workers
  PROVE  Keeps(v)
BY NobodysStep DEF Nobodys, Submit, Fail, Rejudge

LEMMA EverybodyElseKeeps ==
  ASSUME Types, NEW w \in Workers, Grades(w) \/ Turns(w) \/ WriteContest(w) \/ SaveRow(w),
         NEW v \in Workers, v # w
  PROVE  Keeps(v)
BY GradeKeeps, WriteContestKeeps, SaveRowKeeps, OthersKeep DEF Grades

\* Every format makes a record with a score.
HasScore(r) == r = [score |-> r.score, cumtime |-> r.cumtime, tiebreaker |-> r.tiebreaker,
                    tries |-> r.tries]
LEMMA ScoredHasScore ==
  ASSUME NEW a, NEW b, NEW c, NEW d
  PROVE  HasScore(Scored(a, b, c, d))
BY DEF HasScore, Scored

LEMMA ResultsHaveAScore ==
  ASSUME NEW r \in Results
  PROVE  [r EXCEPT !.score = DisqualifiedScore].score = DisqualifiedScore
<1>1. PICK f \in Formats, S \in SUBSET SubmissionType : r = UpdateParticipation(f, S)
  BY DEF Results
<1>2. HasScore(Default(S)) /\ HasScore(Icpc(S)) /\ HasScore(AtCoder(S))
  BY ScoredHasScore, Zenon DEF Default, Icpc, AtCoder
<1>3. HasScore(LegacyIoi(S)) /\ HasScore(Ioi(S)) /\ HasScore(Ecoo(S))
  BY ScoredHasScore, Zenon DEF LegacyIoi, Ioi, Ecoo
<1>4. f \in AllFormats
  BY FormatsAssumption
<1>5. HasScore(r)
  BY <1>1, <1>2, <1>3, <1>4 DEF UpdateParticipation, AllFormats
<1>. QED
  BY <1>5 DEF HasScore

\* Administrators are where the code has them.
LEMMA AdminsInductive == ASSUME Types, Admins, [Next]_vars PROVE Admins'
<1>1. CASE Nobodys
  BY <1>1, NobodyKeeps DEF Admins, Keeps
<1>2. ASSUME NEW w \in Workers, Grades(w) \/ Turns(w) \/ WriteContest(w) \/ SaveRow(w)
      PROVE  Admins'
  <2>1. ASSUME NEW v \in Workers, v # w
        PROVE  worker'[v].at = worker[v].at /\ worker'[v].admin = worker[v].admin
    BY <1>2, <2>1, EverybodyElseKeeps DEF Keeps
  <2>2. /\ worker'[w].at \in {"idle", "contest", "load"} => ~worker'[w].admin
        /\ worker'[w].at = "form" => worker'[w].admin
    <3>1. CASE Grades(w)
      <4>1. PICK i \in Ids, o \in Outcomes : Grade(w, i, o)
        BY <3>1 DEF Grades
      <4>2. subs[i].problem \in Places /\ o[1] + o[2] \in CasePoints
        BY DEF Types, SubmissionType, CasePoints
      <4>3. ContestPoints(subs[i].problem, o[1] + o[2]) \in PointValues
        BY <4>2 DEF PointValues
      <4>. QED
        BY <4>1, <4>3, OwnSteps, WithPointsTyped
    <3>2. CASE Turns(w)
      <4>1. ASSUME NEW i \in Ids, RescoreSubmission(w, i)
            PROVE  worker'[w].at = "contest" /\ ~worker'[w].admin
        BY <4>1, OwnSteps, WithPointsTyped, PointsAreValues DEF Types
      <4>. QED
        BY <3>2, <4>1, OwnSteps, OwnRecomputation DEF Turns
    <3>3. CASE WriteContest(w) \/ SaveRow(w)
      BY <3>3, OwnRecomputation
    <3>. QED
      BY <1>2, <3>1, <3>2, <3>3
  <2>. QED
    BY <2>1, <2>2 DEF Admins
<1>3. CASE UNCHANGED vars
  BY <1>3 DEF vars, Admins
<1>. QED
  BY <1>1, <1>2, <1>3, StepCases

\* While no administrator is at work, what one said last stands.
LEMMA StandingInductive == ASSUME Types, Admins, Standing, [Next]_vars PROVE Standing'
<1>1. CASE Nobodys
  <2>1. UNCHANGED <<row, verdict, undone>>
    BY <1>1 DEF Nobodys, Submit, Fail, Rejudge, history
  <2>. QED
    BY <1>1, <2>1, NobodyKeeps DEF Standing, Keeps
<1>2. ASSUME NEW w \in Workers, Grades(w) \/ Turns(w) \/ WriteContest(w) \/ SaveRow(w)
      PROVE  Standing'
  <2>0. ASSUME NEW v \in Workers, v # w PROVE worker'[v].admin = worker[v].admin
    BY <1>2, <2>0, EverybodyElseKeeps DEF Keeps
  <2>1. CASE SaveRow(w)
    <3> SUFFICES ASSUME ~undone', \A v \in Workers : ~worker'[v].admin
                 PROVE  row'.dq = verdict' /\ (row'.dq => row'.val.score = DisqualifiedScore)
      BY DEF Standing
    <3>1. worker[w] \in WorkerType /\ worker[w].val \in Results
      BY <2>1 DEF Types, SaveRow
    <3>2. row'.dq = worker[w].dq /\ (worker[w].admin => verdict' = worker[w].dq)
      BY <2>1 DEF SaveRow
    <3>3. ~worker[w].admin => verdict' = verdict /\ row.dq = worker[w].dq /\ ~undone
      BY <2>1, <3>1 DEF SaveRow, WorkerType, Types
    <3>4. ~worker[w].admin => row.dq = verdict
      BY <2>0, <3>3 DEF Standing
    <3>5. row'.dq => row'.val = [worker[w].val EXCEPT !.score = DisqualifiedScore]
      BY <2>1 DEF SaveRow
    <3>6. [worker[w].val EXCEPT !.score = DisqualifiedScore].score = DisqualifiedScore
      BY <3>1, ResultsHaveAScore
    <3>. QED
      BY <3>2, <3>3, <3>4, <3>5, <3>6
  <2>2. CASE WriteContest(w) \/ Grades(w)
    <3>1. UNCHANGED <<row, verdict, undone>> /\ ~worker[w].admin
      BY <2>2 DEF WriteContest, Grades, Grade, IsIdle, Admins, history
    <3>. QED
      BY <2>0, <3>1 DEF Standing
  <2>3. CASE Turns(w)
    <3>1. CASE ToggleDisqualified(w) \/ OpenForm(w)
      BY <3>1, OwnSteps DEF Standing
    <3>2. CASE SaveForm(w)
      <4>1. worker'[w].admin
        BY <3>2, OwnRecomputation DEF SaveForm, Admins
      <4>. QED
        BY <4>1 DEF Standing
    <3>3. CASE SaveFails(w)
      <4>1. undone' = (undone \/ worker[w].admin) /\ UNCHANGED <<row, verdict>>
        BY <3>3 DEF SaveFails
      <4>2. ~undone' => ~undone /\ ~worker[w].admin
        BY <4>1 DEF Types, WorkerType
      <4>. QED
        BY <2>0, <4>1, <4>2 DEF Standing
    <3>4. CASE LoadParticipation(w) \/ Aggregate(w)
      <4>1. UNCHANGED <<row, verdict, undone>> /\ worker'[w].admin = worker[w].admin
        BY <3>4, OwnRecomputation DEF LoadParticipation, Aggregate, history
      <4>. QED
        BY <2>0, <4>1 DEF Standing
    <3>5. CASE RescoreContest(w) \/ \E i \in Ids : RescoreSubmission(w, i) \/ Delete(w, i)
      <4>1. UNCHANGED <<row, verdict, undone>> /\ ~worker[w].admin
        BY <3>5 DEF RescoreContest, RescoreSubmission, Delete, IsIdle, Admins, history
      <4>. QED
        BY <2>0, <4>1 DEF Standing
    <3>. QED
      BY <2>3, <3>1, <3>2, <3>3, <3>4, <3>5 DEF Turns
  <2>. QED
    BY <1>2, <2>1, <2>2, <2>3
<1>3. CASE UNCHANGED vars
  BY <1>3 DEF vars, history, Standing
<1>. QED
  BY <1>1, <1>2, <1>3, StepCases

\* What a step does to a submission.
LEMMA SubsOfNobody ==
  ASSUME Types, Nobodys, NEW j \in Ids
  PROVE  /\ j \in Present => /\ subs'[j].problem = subs[j].problem
                             /\ subs'[j].casePoints = subs[j].casePoints
                             /\ subs'[j].points = subs[j].points
         /\ subs[j].status # "none" => subs'[j].status # "none"
         /\ j \in Present' /\ subs[j].status # "none" => j \in Present
         /\ subs'[j].status = "D" => subs'[j] = subs[j]
<1>1. ASSUME NEW i \in Ids, NEW p \in Problems, Submit(i, p)
      PROVE  /\ subs[i].status = "none" /\ subs'[i].status = "QU"
             /\ \A k \in Ids : k # i => subs'[k] = subs[k]
  BY <1>1 DEF Submit, NoSubmission, Types
<1>2. ASSUME NEW i \in Ids, NEW r \in Failures, Fail(i, r)
      PROVE  /\ subs[i].status = "QU" /\ subs'[i].status = r
             /\ subs'[i].problem = subs[i].problem /\ subs'[i].points = subs[i].points
             /\ subs'[i].casePoints = subs[i].casePoints
             /\ \A k \in Ids : k # i => subs'[k] = subs[k]
  BY <1>2 DEF Fail, Types, SubmissionType
<1>3. ASSUME NEW i \in Ids, Rejudge(i)
      PROVE  /\ i \in Present /\ subs'[i].status = "QU"
             /\ subs'[i].problem = subs[i].problem /\ subs'[i].points = subs[i].points
             /\ subs'[i].casePoints = subs[i].casePoints
             /\ \A k \in Ids : k # i => subs'[k] = subs[k]
  BY <1>3 DEF Rejudge, Types, SubmissionType
<1>4. \A r \in Failures : r \notin {"D", "none", "gone", "QU"}
  BY FailuresAssumption
<1>5. j \in Present <=> subs[j].status \notin {"none", "gone"}
  BY DEF Present
<1>6. j \in Present' <=> subs'[j].status \notin {"none", "gone"}
  BY DEF Present
<1>. QED
  BY <1>1, <1>2, <1>3, <1>4, <1>5, <1>6 DEF Nobodys

LEMMA SubsOfGrade ==
  ASSUME Types, NEW w \in Workers, NEW i \in Ids, NEW o \in Outcomes, Grade(w, i, o)
  PROVE  /\ i \in Present /\ Present' = Present
         /\ subs'[i].problem = subs[i].problem /\ subs'[i].casePoints = o[1] + o[2]
         /\ subs'[i].status = "D"
         /\ \A j \in Ids : j # i => subs'[j] = subs[j]
<1>1. /\ subs[i].status = "QU" /\ subs'[i].status = "D"
      /\ subs'[i].problem = subs[i].problem /\ subs'[i].casePoints = o[1] + o[2]
      /\ \A j \in Ids : j # i => subs'[j] = subs[j]
  BY DEF Grade, Types, SubmissionType
<1>. QED
  BY <1>1 DEF Present

LEMMA SubsOfWrite ==
  ASSUME Types, NEW w \in Workers, WriteContest(w)
  PROVE  /\ Present' = Present
         /\ \A j \in Ids : /\ subs'[j].problem = subs[j].problem
                           /\ subs'[j].casePoints = subs[j].casePoints
                           /\ subs'[j].status = subs[j].status
                           /\ j # worker[w].sub => subs'[j] = subs[j]
         /\ worker[w].sub \in Present => subs'[worker[w].sub].points = worker[w].points
<1>1. \A j \in Ids : /\ subs'[j].problem = subs[j].problem
                     /\ subs'[j].casePoints = subs[j].casePoints
                     /\ subs'[j].status = subs[j].status
                     /\ j # worker[w].sub => subs'[j] = subs[j]
  BY DEF WriteContest, Types, SubmissionType
<1>2. worker[w].sub \in Present => subs'[worker[w].sub].points = worker[w].points
  BY DEF WriteContest, Types, SubmissionType, Present
<1>. QED
  BY <1>1, <1>2 DEF Present

LEMMA SubsOfSave ==
  ASSUME Types, NEW w \in Workers, SaveRow(w)
  PROVE  /\ Present' = Present \ {worker[w].removes}
         /\ \A j \in Present' : subs'[j] = subs[j]
         /\ \A j \in Ids : subs[j].status # "none" => subs'[j].status # "none"
<1>1. worker[w].removes \in Ids \cup {0} /\ 0 \notin Ids
  BY DEF Types, WorkerType, Ids
<1>2. CASE worker[w].removes = 0
  BY <1>1, <1>2 DEF SaveRow, Present
<1>3. CASE worker[w].removes # 0
  <2>1. /\ subs'[worker[w].removes].status = "gone"
        /\ \A j \in Ids : j # worker[w].removes => subs'[j] = subs[j]
    BY <1>1, <1>3 DEF SaveRow, NoSubmission, Types
  <2>. QED
    BY <1>1, <2>1 DEF Present
<1>. QED
  BY <1>2, <1>3

\* Points that are about to be written follow the verdict.
LEMMA PendingInductive ==
  ASSUME Types, PendingPoints, [Next]_vars
  PROVE  PendingPoints'
<1> DEFINE Good(v) ==
      worker[v].at = "contest" =>
        /\ worker[v].sub \in Ids /\ subs[worker[v].sub].status # "none"
        /\ ~worker[v].stale /\ worker[v].sub \in Present =>
             worker[v].points = ContestPoints(subs[worker[v].sub].problem,
                                              subs[worker[v].sub].casePoints)
<1>1. PendingPoints <=> \A v \in Workers : Good(v)
  BY DEF PendingPoints
<1>2. PendingPoints' <=> \A v \in Workers : Good(v)'
  BY DEF PendingPoints
<1>3. CASE Nobodys
  <2>1. ASSUME NEW v \in Workers PROVE Good(v)'
    <3>1. Keeps(v) /\ Good(v)
      BY <1>1, <1>3, NobodyKeeps
    <3>. QED
      BY <1>3, <3>1, SubsOfNobody DEF Keeps
  <2>. QED
    BY <1>2, <2>1
<1>4. ASSUME NEW w \in Workers, Grades(w) \/ Turns(w) \/ WriteContest(w) \/ SaveRow(w)
      PROVE  PendingPoints'
  <2>1. ASSUME NEW v \in Workers, v # w PROVE Good(v)'
    <3>1. Keeps(v) /\ Good(v)
      BY <1>1, <1>4, <2>1, EverybodyElseKeeps
    <3>2. CASE Grades(w)
      <4>1. PICK i \in Ids, o \in Outcomes : Grade(w, i, o)
        BY <3>2 DEF Grades
      <4>2. worker[v].at = "contest" /\ worker[v].sub = i => worker'[v].stale
        BY <2>1, <4>1, GradeKeeps
      <4>. QED
        BY <3>1, <4>1, <4>2, SubsOfGrade DEF Keeps
    <3>3. CASE Turns(w)
      <4>1. subs' = subs /\ Present' = Present
        BY <2>1, <3>3, OthersKeep DEF Present
      <4>. QED
        BY <3>1, <4>1 DEF Keeps
    <3>4. CASE WriteContest(w)
      BY <3>1, <3>4, SubsOfWrite DEF Keeps
    <3>5. CASE SaveRow(w)
      BY <3>1, <3>5, SubsOfSave DEF Keeps
    <3>. QED
      BY <1>4, <3>2, <3>3, <3>4, <3>5
  <2>2. Good(w)'
    <3>1. CASE Grades(w)
      <4>1. PICK i \in Ids, o \in Outcomes : Grade(w, i, o)
        BY <3>1 DEF Grades
      <4>2. subs[i].problem \in Places /\ o[1] + o[2] \in CasePoints
        BY DEF Types, SubmissionType, CasePoints
      <4>3. ContestPoints(subs[i].problem, o[1] + o[2]) \in PointValues
        BY <4>2 DEF PointValues
      <4>4. worker'[w].sub = i
            /\ worker'[w].points = ContestPoints(subs[i].problem, o[1] + o[2])
        BY <4>1, <4>3, OwnSteps, WithPointsTyped
      <4>. QED
        BY <4>1, <4>4, SubsOfGrade
    <3>2. CASE \E i \in Ids : RescoreSubmission(w, i)
      <4>1. PICK i \in Ids : RescoreSubmission(w, i)
        BY <3>2
      <4>2. ContestPoints(subs[i].problem, subs[i].casePoints) \in PointValues
        BY PointsAreValues DEF Types
      <4>3. worker'[w].sub = i
            /\ worker'[w].points = ContestPoints(subs[i].problem, subs[i].casePoints)
        BY <4>1, <4>2, OwnSteps, WithPointsTyped
      <4>4. subs' = subs /\ i \in Present
        BY <4>1 DEF RescoreSubmission
      <4>5. subs[i].status # "none"
        BY <4>4 DEF Present
      <4>. QED
        BY <4>3, <4>4, <4>5
    <3>3. CASE ~Grades(w) /\ ~\E i \in Ids : RescoreSubmission(w, i)
      <4>1. worker'[w].at # "contest"
        BY <1>4, <3>3, OwnSteps, OwnRecomputation DEF Turns
      <4>. QED
        BY <4>1
    <3>. QED
      BY <3>1, <3>2, <3>3
  <2>. QED
    BY <1>2, <2>1, <2>2
<1>5. CASE UNCHANGED vars
  BY <1>5 DEF vars, PendingPoints, Present
<1>. QED
  BY <1>3, <1>4, <1>5, StepCases

\* A step that changes no submission of Present changes no result.
LEMMA SameResult ==
  ASSUME UNCHANGED <<format, subs>>
  PROVE  /\ Present' = Present
         /\ \A I : Result(I)' = Result(I)
BY DEF Present, Result, Submissions

\* Whoever takes a turn was not about to write points.
LEMMA TurnsAreNotWrites ==
  ASSUME NEW w \in Workers, Grades(w) \/ Turns(w) \/ SaveRow(w)
  PROVE  worker[w].at # "contest"
BY DEF Grades, Turns, Grade, RescoreSubmission, Delete, RescoreContest, ToggleDisqualified,
       OpenForm, LoadParticipation, Aggregate, SaveRow, SaveFails, SaveForm, IsIdle

\* Points follow verdicts as long as those about to be written do.
LEMMA PointsInductive ==
  ASSUME Types, PendingPoints, PointsFollowVerdicts, [Next]_vars
  PROVE  PointsFollowVerdicts'
<1> DEFINE Writers(i) == {w \in Workers : worker[w].at = "contest" /\ worker[w].sub = i}
           Follows(i) == subs[i].points = ContestPoints(subs[i].problem, subs[i].casePoints)
<1>1. PointsFollowVerdicts
        <=> \A i \in Present \ behind : subs[i].status = "D" /\ Writers(i) = {} => Follows(i)
  BY DEF PointsFollowVerdicts
<1>2. PointsFollowVerdicts'
        <=> (\A i \in Present \ behind :
               subs[i].status = "D" /\ Writers(i) = {} => Follows(i))'
  BY DEF PointsFollowVerdicts
<1> SUFFICES ASSUME NEW j \in Present', j \notin behind', subs'[j].status = "D",
                    Writers(j)' = {}
             PROVE  Follows(j)'
  BY <1>2
<1>3. j \in Ids /\ (subs[j].status = "D" => j \in Present)
  BY DEF Present
<1>4. CASE Nobodys
  <2>1. subs'[j] = subs[j] /\ behind' = behind
    BY <1>3, <1>4, SubsOfNobody DEF Nobodys, Submit, Fail, Rejudge, history
  <2>2. Writers(j)' = Writers(j)
    BY <1>4, NobodyKeeps DEF Keeps
  <2>. QED
    BY <1>1, <1>3, <2>1, <2>2
<1>5. ASSUME NEW w \in Workers, Grades(w)
      PROVE  Follows(j)'
  <2>1. PICK i \in Ids, o \in Outcomes : Grade(w, i, o)
    BY <1>5 DEF Grades
  <2>2. j # i
    <3>1. subs[i].problem \in Places /\ o[1] + o[2] \in CasePoints
      BY DEF Types, SubmissionType, CasePoints
    <3>2. ContestPoints(subs[i].problem, o[1] + o[2]) \in PointValues
      BY <3>1 DEF PointValues
    <3>3. worker'[w].at = "contest" /\ worker'[w].sub = i
      BY <2>1, <3>2, OwnSteps, WithPointsTyped
    <3>. QED
      BY <3>3
  <2>3. subs'[j] = subs[j] /\ behind' = behind
    BY <1>3, <2>1, <2>2, SubsOfGrade DEF Grade, history
  <2>4. Writers(j) = {}
    BY <1>5, EverybodyElseKeeps, TurnsAreNotWrites DEF Keeps
  <2>. QED
    BY <1>1, <1>3, <2>3, <2>4
<1>6. ASSUME NEW w \in Workers, Turns(w)
      PROVE  Follows(j)'
  <2>1. subs' = subs /\ behind' = behind
    BY <1>6 DEF Turns, RescoreSubmission, Delete, RescoreContest, ToggleDisqualified, OpenForm,
                LoadParticipation, Aggregate, SaveFails, SaveForm, history
  <2>2. Writers(j) = {}
    BY <1>6, EverybodyElseKeeps, TurnsAreNotWrites DEF Keeps
  <2>. QED
    BY <1>1, <1>3, <2>1, <2>2
<1>7. ASSUME NEW w \in Workers, WriteContest(w)
      PROVE  Follows(j)'
  <2>1. Present' = Present /\ subs'[j].problem = subs[j].problem
        /\ subs'[j].casePoints = subs[j].casePoints /\ subs[j].status = "D"
    BY <1>3, <1>7, SubsOfWrite
  <2>2. CASE j = worker[w].sub
    <3>1. ~worker[w].stale
      BY <1>7, <2>1, <2>2 DEF WriteContest
    <3>2. worker[w].points = ContestPoints(subs[j].problem, subs[j].casePoints)
      BY <1>7, <2>1, <2>2, <3>1 DEF PendingPoints, WriteContest
    <3>. QED
      BY <1>7, <2>1, <2>2, <3>2, SubsOfWrite
  <2>3. CASE j # worker[w].sub
    <3>1. subs'[j] = subs[j] /\ j \notin behind
      BY <1>3, <1>7, <2>3, SubsOfWrite DEF WriteContest
    <3>2. Writers(j) = {}
      BY <1>7, <2>3, EverybodyElseKeeps DEF Keeps
    <3>. QED
      BY <1>1, <2>1, <3>1, <3>2
  <2>. QED
    BY <2>2, <2>3
<1>8. ASSUME NEW w \in Workers, SaveRow(w)
      PROVE  Follows(j)'
  <2>1. subs'[j] = subs[j] /\ j # worker[w].removes
    BY <1>8, SubsOfSave
  <2>2. j \notin behind
    BY <1>8, <2>1 DEF SaveRow
  <2>3. Writers(j) = {}
    BY <1>8, EverybodyElseKeeps, TurnsAreNotWrites DEF Keeps
  <2>. QED
    BY <1>1, <1>3, <2>1, <2>2, <2>3
<1>9. CASE UNCHANGED vars
  <2>1. UNCHANGED <<subs, worker, behind>>
    BY <1>9 DEF vars, history
  <2>. QED
    BY <1>1, <1>3, <2>1
<1>. QED
  BY <1>4, <1>5, <1>6, <1>7, <1>8, <1>9, StepCases

\* A sum that is not out of date is that of the submissions as they are.
LEMMA FreshSumInductive ==
  ASSUME Types, FreshSum, [Next]_vars
  PROVE  FreshSum'
<1> SUFFICES ASSUME NEW v \in Workers, worker'[v].at = "save", ~worker'[v].stale
             PROVE  worker'[v].val = Result(Present \ {worker[v].removes})'
  BY DEF FreshSum
<1>0. format' = format
  BY DEF Next, Recompute, Submit, Fail, Rejudge, Grade, RescoreSubmission, Delete,
         RescoreContest, ToggleDisqualified, OpenForm, WriteContest, LoadParticipation,
         Aggregate, SaveRow, SaveFails, SaveForm, vars
<1>1. CASE Keeps(v)
  <2>1. subs' = subs /\ worker[v].at = "save" /\ ~worker[v].stale
    BY <1>1 DEF Keeps
  <2>2. worker[v].val = Result(Present \ {worker[v].removes})
    BY <2>1 DEF FreshSum
  <2>3. Result(Present \ {worker[v].removes})'
          = UpdateParticipation(format', {subs'[i] : i \in Present' \ {worker'[v].removes}})
    BY DEF Result, Submissions
  <2>4. Present' = Present
    BY <2>1 DEF Present
  <2>5. Result(Present \ {worker[v].removes})'
          = UpdateParticipation(format, {subs[i] : i \in Present \ {worker[v].removes}})
    BY <1>0, <1>1, <2>1, <2>3, <2>4 DEF Keeps
  <2>. QED
    BY <1>1, <2>2, <2>5 DEF Keeps, Result, Submissions
<1>2. CASE Aggregate(v)
  <2>1. UNCHANGED <<format, subs>>
    BY <1>2 DEF Aggregate
  <2>2. /\ worker'[v].removes = worker[v].removes
        /\ worker'[v].val = Result(Present \ {worker[v].removes})
    BY <1>2, OwnRecomputation
  <2>3. Result(Present \ {worker[v].removes})'
          = UpdateParticipation(format', {subs'[i] : i \in Present' \ {worker'[v].removes}})
    BY DEF Result, Submissions
  <2>4. Present' = Present
    BY <2>1 DEF Present
  <2>. QED
    BY <2>1, <2>2, <2>3, <2>4 DEF Result, Submissions
<1>3. CASE ~Keeps(v) /\ ~Aggregate(v)
  <2>1. ~Nobodys /\ ~UNCHANGED vars
    BY <1>3, NobodyKeeps DEF Keeps, vars
  <2>2. \A w \in Workers : Grades(w) \/ Turns(w) \/ WriteContest(w) \/ SaveRow(w) => w = v
    BY <1>3, EverybodyElseKeeps
  <2>3. Grades(v) \/ Turns(v) \/ WriteContest(v) \/ SaveRow(v)
    BY <2>1, <2>2, StepCases
  <2>4. worker'[v].at # "save"
    <3>1. CASE Grades(v)
      <4>1. PICK i \in Ids, o \in Outcomes : Grade(v, i, o)
        BY <3>1 DEF Grades
      <4>2. subs[i].problem \in Places /\ o[1] + o[2] \in CasePoints
        BY DEF Types, SubmissionType, CasePoints
      <4>3. ContestPoints(subs[i].problem, o[1] + o[2]) \in PointValues
        BY <4>2 DEF PointValues
      <4>. QED
        BY <4>1, <4>3, OwnSteps, WithPointsTyped
    <3>2. CASE Turns(v)
      <4>1. ASSUME NEW i \in Ids, RescoreSubmission(v, i)
            PROVE  worker'[v].at = "contest"
        BY <4>1, OwnSteps, WithPointsTyped, PointsAreValues DEF Types
      <4>. QED
        BY <1>3, <3>2, <4>1, OwnSteps, OwnRecomputation DEF Turns
    <3>3. CASE WriteContest(v) \/ SaveRow(v)
      BY <3>3, OwnRecomputation
    <3>. QED
      BY <2>3, <3>1, <3>2, <3>3
  <2>. QED
    BY <2>4
<1>. QED
  BY <1>1, <1>2, <1>3

\* Whatever ends with nobody at work and everything graded was the save of a
\* fresh sum, or changed nothing.
LEMMA SettledInductive ==
  ASSUME Types, FreshSum, Settled, [Next]_vars
  PROVE  Settled'
<1> SUFFICES ASSUME AllGraded', ~lost', \A v \in Workers : ~Owes(v)'
             PROVE  RowMatches'
  BY DEF Settled
<1>0. RowMatches'
        <=> LET result == UpdateParticipation(format', {subs'[i] : i \in Present'})
            IN  row'.val = IF row'.dq THEN [result EXCEPT !.score = DisqualifiedScore]
                                      ELSE result
  BY DEF RowMatches, Result, Submissions
<1>1. ASSUME NEW i \in Ids PROVE i \in Present' => subs'[i].status = "D"
  BY DEF AllGraded
<1>2. ~Nobodys
  <2>1. ASSUME NEW i \in Ids, NEW p \in Problems, Submit(i, p) PROVE FALSE
    <3>1. subs'[i].status = "QU"
      BY <2>1 DEF Submit, Types, NoSubmission
    <3>. QED
      BY <1>1, <3>1 DEF Present
  <2>2. ASSUME NEW i \in Ids, NEW r \in Failures, Fail(i, r) PROVE FALSE
    <3>1. subs'[i].status = r /\ r \notin {"none", "gone", "D"}
      BY <2>2, FailuresAssumption DEF Fail, Types, SubmissionType
    <3>. QED
      BY <1>1, <3>1 DEF Present
  <2>3. ASSUME NEW i \in Ids, Rejudge(i) PROVE FALSE
    <3>1. subs'[i].status = "QU"
      BY <2>3 DEF Rejudge, Types, SubmissionType
    <3>. QED
      BY <1>1, <3>1 DEF Present
  <2>. QED
    BY <2>1, <2>2, <2>3 DEF Nobodys
<1>3. ASSUME NEW w \in Workers, Grades(w) PROVE FALSE
  <2>1. PICK i \in Ids, o \in Outcomes : Grade(w, i, o)
    BY <1>3 DEF Grades
  <2>2. subs[i].problem \in Places /\ o[1] + o[2] \in CasePoints
    BY DEF Types, SubmissionType, CasePoints
  <2>3. ContestPoints(subs[i].problem, o[1] + o[2]) \in PointValues
    BY <2>2 DEF PointValues
  <2>4. worker'[w].at = "contest" /\ worker'[w].sub = i
    BY <2>1, <2>3, OwnSteps, WithPointsTyped
  <2>5. worker'[w].sub \in Present'
    BY <2>1, <2>4, SubsOfGrade
  <2>. QED
    BY <2>4, <2>5 DEF Owes
<1>4. ASSUME NEW w \in Workers, Turns(w) PROVE FALSE
  <2>1. ASSUME NEW i \in Ids, RescoreSubmission(w, i) PROVE FALSE
    <3>1. worker'[w].at = "contest" /\ worker'[w].sub = i
      BY <2>1, OwnSteps, WithPointsTyped, PointsAreValues DEF Types
    <3>2. i \in Present'
      BY <2>1 DEF RescoreSubmission, Present
    <3>. QED
      BY <3>1, <3>2 DEF Owes
  <2>2. ~SaveFails(w)
    BY DEF SaveFails
  <2>3. worker'[w].at \in {"load", "form", "sum", "save"}
    BY <1>4, <2>1, <2>2, OwnSteps, OwnRecomputation DEF Turns, SaveForm
  <2>. QED
    BY <2>3 DEF Owes
<1>5. ASSUME NEW w \in Workers, WriteContest(w) PROVE RowMatches'
  <2>1. worker[w].sub \notin Present
    BY <1>5, OwnRecomputation DEF Owes
  <2>2. UNCHANGED <<format, subs, row, lost>>
    BY <1>5, <2>1 DEF WriteContest
  <2>3. Present' = Present
    BY <2>2 DEF Present
  <2>4. ~Owes(w)
    BY <1>5, <2>1 DEF Owes, WriteContest
  <2>5. ASSUME NEW v \in Workers, v # w PROVE ~Owes(v)
    BY <1>5, <2>3, <2>5, EverybodyElseKeeps DEF Owes, Keeps
  <2>6. AllGraded
    BY <2>2, <2>3 DEF AllGraded
  <2>7. RowMatches
    BY <2>2, <2>4, <2>5, <2>6 DEF Settled
  <2>. QED
    BY <1>0, <2>2, <2>3, <2>7 DEF RowMatches, Result, Submissions
<1>6. ASSUME NEW w \in Workers, SaveRow(w) PROVE RowMatches'
  <2> DEFINE me == worker[w]
  <2>1. ~me.stale /\ me.at = "save" /\ format' = format
    BY <1>6 DEF SaveRow
  <2>2. me.val = UpdateParticipation(format, {subs[i] : i \in Present \ {me.removes}})
    BY <2>1 DEF FreshSum, Result, Submissions
  <2>3. {subs'[i] : i \in Present'} = {subs[i] : i \in Present \ {me.removes}}
    BY <1>6, SubsOfSave
  <2>4. row' = [dq |-> me.dq,
                val |-> IF me.dq THEN [me.val EXCEPT !.score = DisqualifiedScore]
                                 ELSE me.val]
    BY <1>6 DEF SaveRow
  <2>5. row'.dq = me.dq
        /\ row'.val = IF me.dq THEN [me.val EXCEPT !.score = DisqualifiedScore] ELSE me.val
    BY <2>4
  <2>. QED
    BY <1>0, <2>1, <2>2, <2>3, <2>5
<1>7. CASE UNCHANGED vars
  <2>1. UNCHANGED <<format, subs, worker, row, lost>>
    BY <1>7 DEF vars, history
  <2>2. Present' = Present
    BY <2>1 DEF Present
  <2>3. AllGraded /\ ~lost /\ \A v \in Workers : ~Owes(v)
    BY <2>1, <2>2 DEF AllGraded, Owes
  <2>4. RowMatches
    BY <2>3 DEF Settled
  <2>. QED
    BY <1>0, <2>1, <2>2, <2>4 DEF RowMatches, Result, Submissions
<1>. QED
  BY <1>2, <1>3, <1>4, <1>5, <1>6, <1>7, StepCases

LEMMA InitHolds == ASSUME Init PROVE IInv
<1>1. NoSubmission \in SubmissionType
  BY ZeroIsAValue DEF Zero, NoSubmission, SubmissionType, Codes, Statuses, Places
<1>2. \A i \in Ids : subs[i].status = "none"
  BY DEF Init, NoSubmission
<1>3. Present = {}
  BY <1>2 DEF Present
<1>4. \A w \in Workers : worker[w] = IdleWorker
  BY DEF Init
<1>5. Types
  BY <1>1, <1>4, IdleTyped, ZeroIsAValue DEF Init, Types, Zero
<1>6. ~row.dq /\ ~verdict
  BY DEF Init
<1>7. \A w \in Workers : worker[w].at = "idle" /\ ~worker[w].admin
  BY <1>4, IdleTyped
<1>8. PendingPoints /\ FreshSum /\ Admins
  BY <1>7 DEF PendingPoints, FreshSum, Admins
<1>9. PointsFollowVerdicts /\ Settled
  BY <1>3 DEF PointsFollowVerdicts, Settled, AllGraded
<1>10. Standing
  BY <1>6 DEF Standing, Init
<1>. QED
  BY <1>5, <1>8, <1>9, <1>10 DEF IInv

LEMMA InvariantHolds == Spec => []IInv
<1>1. Init => IInv
  BY InitHolds
<1>2. IInv /\ [Next]_vars => IInv'
  BY TypesInductive, PendingInductive, PointsInductive, AdminsInductive, StandingInductive,
     FreshSumInductive, SettledInductive DEF IInv
<1>. QED
  BY <1>1, <1>2, PTL DEF Spec

\* A row that nobody is about to save is what the format makes of the
\* submissions, in every format and however the workers overlapped, provided
\* the last save was not of an older sum.
THEOREM RowFollowsSubmissions == Spec => []RowIsCurrent
<1>1. IInv => RowIsCurrent
  <2> SUFFICES ASSUME IInv, Quiet, AllGraded, ~lost PROVE RowMatches
    BY DEF RowIsCurrent, RowMatches
  <2>1. \A w \in Workers : ~Owes(w)
    BY DEF Quiet, IsIdle, Owes
  <2>. QED
    BY <2>1 DEF IInv, Settled
<1>. QED
  BY <1>1, InvariantHolds, PTL

\* Contest points are those of the last verdict except where they were written
\* by somebody who had read an earlier one.
THEOREM PointsHold == Spec => []PointsFollowVerdicts
<1>1. IInv => PointsFollowVerdicts
  BY DEF IInv
<1>. QED
  BY <1>1, InvariantHolds, PTL

\* is_disqualified is what the organisers last said and the score agrees,
\* unless a recomputation that had read the row before undid it.
THEOREM DisqualificationStands == Spec => []DisqualificationHolds
<1>1. IInv => DisqualificationHolds
  <2> SUFFICES ASSUME IInv, Quiet, ~undone
               PROVE  row.dq = verdict /\ (row.dq => row.val.score = DisqualifiedScore)
    BY DEF DisqualificationHolds
  <2>1. \A w \in Workers : ~worker[w].admin
    BY DEF Quiet, IsIdle, IInv, Admins
  <2>. QED
    BY <2>1 DEF IInv, Standing
<1>. QED
  BY <1>1, InvariantHolds, PTL
=============================================================================
