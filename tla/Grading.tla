------------------------------ MODULE Grading -------------------------------
(***************************************************************************)
(* The grading of one submission over the connection of one judge, as the  *)
(* handler of that connection puts it together, and the status page that   *)
(* a visitor loads meanwhile.  A problem is a list of tests: a case of its *)
(* own, or a batch of cases.  The judge opens a batch, reports its cases   *)
(* and closes it; the handler numbers the batches, adds up, and the page   *)
(* does both again from the rows.                                          *)
(*                                                                         *)
(* Points are in hundredths.  The page reads the submission first and its  *)
(* cases later, in the order they were saved.  runs and shown do not exist *)
(* in the program: how often the submission was judged, and the marks that *)
(* the last page showed of this run.                                       *)
(***************************************************************************)
EXTENDS Integers, Sequences, FiniteSets
LOCAL INSTANCE SequencesExt
LOCAL INSTANCE FiniteSetsExt
LOCAL INSTANCE Functions

CONSTANTS Assignments,   \* bound: a problem's points, partial, and its tests: 0 for
                         \* a case of its own, or the number of cases of a batch
          CaseReports,   \* bound: what a judge may say of a case
          CasePoints,    \* what a case, or a batch, is worth
          CombineOver,   \* marks that are alike are combined if they are more
          Layouts,       \* bound: files of input lines
          MaxRuns        \* bound

\* An attempt that the checker blocked has a marker, one that the judge's
\* system calls blocked ends the program.
Flags == {"TLE", "MLE", "OLE", "RTE", "IR", "WA", "SC"}
ASSUME GradingAssumption ==
  /\ Assignments \subseteq [points : Nat, partial : BOOLEAN, tests : Seq(Nat)]
  /\ CaseReports \subseteq [flags : SUBSET Flags, feedback : {"", "marker", "blocked"}, points : 0 .. CasePoints]
  /\ CasePoints \in Nat /\ CombineOver \in Nat \ {0} /\ MaxRuns \in Nat

VARIABLES assignment,
          handler,     \* batch_id and in_batch of the JudgeHandler
          judge,       \* what the judge is at: a test, and a case of its batch
          sub, rows,   \* the submission and its SubmissionTestCases
          visit,       \* a page that has read the submission, not yet the cases
          display, shown, runs

gvars == <<assignment, handler, judge, sub, rows, visit, display, shown, runs>>

NoBatch == 0      \* None, and not a number that batches have
NoJudge == [stage |-> "idle", test |-> 1, inside |-> 0]
NoVisit == [open |-> FALSE]
NoStatusPage == [status |-> "none"]
Fresh == [status |-> "QU", result |-> "NULL", points |-> 0, case_points |-> 0, case_total |-> 0]
Graded(s) == s.status \notin {"QU", "P", "G"}
Total(s) == FoldSeq(LAMBDA n, m : n + m, 0, s)
Least(S) == CHOOSE n \in S : \A m \in S : n <= m
Most(S) == CHOOSE n \in S : \A m \in S : m <= n
Field(cases, f) == [i \in DOMAIN cases |-> cases[i][f]]

\* itertools.groupby: the stretches of equal keys.
GroupBy(s, key(_)) ==
  LET starts == SetToSortSeq({i \in DOMAIN s : i = 1 \/ key(s[i]) # key(s[i - 1])}, <)
  IN  [k \in DOMAIN starts |->
         SubSeq(s, starts[k], IF k = Len(starts) THEN Len(s) ELSE starts[k + 1] - 1)]
-----------------------------------------------------------------------------
(* What a report says.                                                     *)

\* The flags of a status in the order they count.
FlagOrder == <<"TLE", "MLE", "OLE", "RTE", "IR", "WA", "SC">>
FlagStatus(flags) ==
  IF flags = {} THEN "AC" ELSE FlagOrder[Least({i \in DOMAIN FlagOrder : FlagOrder[i] \in flags})]

is_blocked(status, feedback) ==
  (status = "WA" /\ feedback = "marker") \/ (status \in {"RTE", "IR"} /\ feedback = "blocked")
CaseStatus(report) ==
  LET status == FlagStatus(report.flags)
  IN  IF is_blocked(status, report.feedback) THEN "SEC" ELSE status

status_codes == <<"SC", "AC", "WA", "MLE", "TLE", "IR", "RTE", "OLE", "SEC">>
Severity(status) == CHOOSE i \in DOMAIN status_codes : status_codes[i] = status
Worst(statuses) == status_codes[Most({1} \cup {Severity(s) : s \in statuses})]

Tenths(n) == 10 * ((n + 5) \div 10)
\* Thousandths of a point: a part of the problem's points, or all or nothing.
SubmissionPoints(points, total) ==
  LET share == IF total = 0 THEN 0
               ELSE (2 * 1000 * assignment.points * points + total) \div (2 * total)
  IN  IF ~assignment.partial /\ share # 1000 * assignment.points THEN 0 ELSE share
-----------------------------------------------------------------------------
(* The page.                                                               *)

\* A batch is worth its worst case.  What is not in a batch has no sum of its
\* own on the page: a visitor adds the cases up.
make_batch(batch, cases) ==
  LET points == Field(cases, "points")
      total  == Field(cases, "total")
  IN  [id |-> batch, cases |-> Field(cases, "status"),
       points |-> IF batch # NoBatch THEN Least(Range(points)) ELSE Total(points),
       total  |-> IF batch # NoBatch THEN Most(Range(total)) ELSE Total(total)]

\* The mark of a batch is that of its first case that failed.
get_statuses(batch, cases) ==
  IF batch = NoBatch THEN [i \in DOMAIN cases |-> [status |-> cases[i].status, batch |-> batch]]
  ELSE LET failed == {i \in DOMAIN cases : cases[i].status # "AC"}
       IN  <<[status |-> cases[IF failed = {} THEN 1 ELSE Least(failed)].status, batch |-> batch]>>

Batches(cases) == GroupBy(cases, LAMBDA c : c.batch)
group_test_cases(cases) ==
  [k \in DOMAIN Batches(cases) |-> make_batch(Batches(cases)[k][1].batch, Batches(cases)[k])]
group_statuses(cases) ==
  FlattenSeq([k \in DOMAIN Batches(cases) |-> get_statuses(Batches(cases)[k][1].batch, Batches(cases)[k])])

Combined(marks) ==
  FlattenSeq([k \in DOMAIN marks |->
    IF Len(marks[k]) > CombineOver THEN <<[status |-> marks[k][1].status, num |-> Len(marks[k])]>>
    ELSE [i \in DOMAIN marks[k] |-> [status |-> marks[k][i].status, num |-> 1]]])

\* Broken: a batch that goes on is shown as it stands.
combine_all(marks, graded) == Combined(GroupBy(marks, LAMBDA m : m.status))

\* The batch that comes last may go on.
combine_statuses(marks, graded) ==
  LET sure == IF ~graded /\ marks # <<>> /\ Last(marks).batch # NoBatch THEN Front(marks) ELSE marks
  IN  Combined(GroupBy(sure, LAMBDA m : m.status))
Uncombined(marks) ==
  FlattenSeq([k \in DOMAIN marks |-> [i \in 1 .. marks[k].num |-> marks[k].status]])
-----------------------------------------------------------------------------
(* The hint: the lines of the input that a wrong line of the output is of. *)

\* A file: whether its first line says how many cases there are, the input
\* and the output lines of each, how many they are, and a format.
HeaderLine == [of |-> 0, line |-> 0]
StopLine == [of |-> 0, line |-> 1]
LinesOf(l, c) ==
  IF l.format = "multicas" THEN [j \in 1 .. l.inputs + 1 |-> [of |-> c, line |-> j]]
  ELSE [j \in 1 .. l.inputs |-> [of |-> c, line |-> j]]
InputLines(l) ==
  (IF l.header THEN <<HeaderLine>> ELSE <<>>)
    \o FlattenSeq([c \in 1 .. l.cases |-> LinesOf(l, c)])
    \o (IF l.format = "stop" THEN <<StopLine>> ELSE <<>>)

\* listinputs[first:first + count]
Slice(lines, first, count) == SubSeq(lines, first + 1, Least({first + count, Len(lines)}))

\* A line that begins a case says how many follow.
multicas(lines, firstwa, inputs) ==
  LET walk[i \in 1 .. Len(lines)] ==
        IF i = 1 THEN [cn |-> -1, ck |-> 0, result |-> <<>>]
        ELSE LET w == walk[i - 1]
             IN  IF w.ck = 0
                 THEN [cn |-> w.cn + 1, ck |-> inputs,
                       result |-> IF w.cn + 1 = firstwa THEN Append(w.result, lines[i]) ELSE w.result]
                 ELSE [w EXCEPT !.ck = @ - 1,
                                !.result = IF w.cn = firstwa THEN Append(@, lines[i]) ELSE @]
  IN  walk[Len(lines)].result

wrong_input_lines(lines, firstwa, l) ==
  LET ninputs  == Len(lines)
      noutputs == l.cases * l.outputs
      from(first, count) == Slice(lines, first, count)
  IN  CASE l.format = "multicas" -> multicas(lines, firstwa, l.inputs)
        [] l.format = "indiv" -> lines
        [] OTHER ->
             IF ninputs = noutputs \/ (ninputs - 1 = noutputs /\ l.format = "stop") THEN from(firstwa, 1)
             ELSE IF ninputs - 1 = noutputs THEN from(firstwa + 1, 1)
             ELSE IF ninputs % noutputs = 0 \/ ((ninputs - 1) % noutputs = 0 /\ l.format = "stop")
               THEN from(firstwa * (ninputs \div noutputs), ninputs \div noutputs)
             ELSE IF (ninputs - 1) % noutputs = 0
               THEN from(firstwa * ((ninputs - 1) \div noutputs) + 1, (ninputs - 1) \div noutputs)
             ELSE IF noutputs % (ninputs - 1) = 0
               THEN from(firstwa \div (noutputs \div (ninputs - 1)) + 1, noutputs \div (ninputs - 1))
             ELSE <<>>
HintLines(l) == wrong_input_lines(InputLines(l), l.wrong, l)
-----------------------------------------------------------------------------
\* A page is looked at when it is shown, and is gone with the next step.
PageGone == display' = NoStatusPage

GradingInit ==
  /\ assignment \in Assignments
  /\ handler = [batch_id |-> NoBatch, in_batch |-> FALSE]
  /\ judge = NoJudge
  /\ sub = Fresh
  /\ rows = <<>> /\ visit = NoVisit /\ display = NoStatusPage /\ shown = <<>> /\ runs = 1
-----------------------------------------------------------------------------
(* The packets of the judge, which goes through the tests.                 *)

Inside == judge.inside > 0
TheTest == assignment.tests[judge.test]
HasMore == judge.test <= Len(assignment.tests)

\* Broken: the number of the last batch stays.
OnGradingBeginOnly ==
  /\ sub.status = "QU" /\ judge.stage = "idle"
  /\ judge' = [NoJudge EXCEPT !.stage = "grading"]
  /\ sub' = [sub EXCEPT !.status = "G"]
  /\ rows' = <<>>
  /\ UNCHANGED <<assignment, handler, visit, shown, runs>> /\ PageGone

\* in_batch is not reset: a batch that the last run left open is no batch as
\* long as it has no number.
OnGradingBegin ==
  /\ sub.status = "QU" /\ judge.stage = "idle"
  /\ judge' = [NoJudge EXCEPT !.stage = "grading"]
  /\ handler' = [handler EXCEPT !.batch_id = NoBatch]
  /\ sub' = [sub EXCEPT !.status = "G"]
  /\ rows' = <<>>
  /\ UNCHANGED <<assignment, visit, shown, runs>> /\ PageGone

OnBatchBegin ==
  /\ judge.stage = "grading" /\ HasMore /\ TheTest > 0 /\ ~Inside
  /\ judge' = [judge EXCEPT !.inside = 1]
  /\ handler' = [batch_id |-> handler.batch_id + 1, in_batch |-> TRUE]
  /\ UNCHANGED <<assignment, sub, rows, visit, shown, runs>> /\ PageGone

OnBatchEnd ==
  /\ judge.stage = "grading" /\ Inside /\ judge.inside > TheTest
  /\ judge' = [judge EXCEPT !.test = @ + 1, !.inside = 0]
  /\ handler' = [handler EXCEPT !.in_batch = FALSE]
  /\ UNCHANGED <<assignment, sub, rows, visit, shown, runs>> /\ PageGone

\* How many cases the judge can report now: those left of the batch, or cases
\* of their own that follow each other.
CasesAhead ==
  IF ~HasMore THEN 0
  ELSE IF Inside THEN TheTest + 1 - judge.inside
  ELSE Cardinality({k \in judge.test .. Len(assignment.tests) :
                      \A m \in judge.test .. k : assignment.tests[m] = 0})

\* Cases are skipped once one has failed: before that, none is.
MaySkip(reports, i) ==
  \/ \E k \in DOMAIN rows : rows[k].status # "AC"
  \/ \E k \in 1 .. i - 1 : reports[k].flags # {}

\* A packet has several, which are saved in one statement.
OnTestCase(reports) ==
  LET row(i) == [status |-> CaseStatus(reports[i]), points |-> reports[i].points, total |-> CasePoints,
                 batch |-> IF handler.in_batch THEN handler.batch_id ELSE NoBatch]
  IN  /\ judge.stage = "grading" /\ Len(reports) \in 1 .. CasesAhead
      /\ \A i \in DOMAIN reports : FlagStatus(reports[i].flags) = "SC" => MaySkip(reports, i)
      /\ judge' = IF Inside THEN [judge EXCEPT !.inside = @ + Len(reports)]
                  ELSE [judge EXCEPT !.test = @ + Len(reports)]
      /\ rows' = rows \o [i \in DOMAIN reports |-> row(i)]
      /\ UNCHANGED <<assignment, handler, sub, visit, shown, runs>> /\ PageGone

\* The rows outside of batches count one by one; of a batch its worst counts.
OnGradingEnd ==
  LET own     == SelectSeq(rows, LAMBDA r : r.batch = NoBatch)
      numbers == {rows[i].batch : i \in DOMAIN rows} \ {NoBatch}
      members(b) == SelectSeq(rows, LAMBDA r : r.batch = b)
      sum(f, worth(_)) == Total(Field(own, f))
                            + MapThenSumSet(LAMBDA b : worth(Range(Field(members(b), f))), numbers)
      points  == Tenths(sum("points", Least))
      total   == Tenths(sum("total", Most))
  IN  /\ judge.stage = "grading" /\ ~HasMore
      /\ judge' = NoJudge /\ handler' = [handler EXCEPT !.batch_id = NoBatch]
      /\ sub' = [status |-> "D", result |-> Worst(Range(Field(rows, "status"))),
                 points |-> SubmissionPoints(points, total),
                 case_points |-> points, case_total |-> total]
      /\ UNCHANGED <<assignment, rows, visit, shown, runs>> /\ PageGone

\* on_compile_error (before a case), on_internal_error and on_submission_terminated
\* (at any point): no other field changes, and the batch stays open.
BreakOff(status) ==
  /\ judge.stage = "grading" /\ (status = "CE" => rows = <<>> /\ ~Inside)
  /\ judge' = NoJudge
  /\ sub' = [sub EXCEPT !.status = status, !.result = status]
  /\ UNCHANGED <<assignment, handler, rows, visit, shown, runs>> /\ PageGone

\* on_disconnect; the judge connects again and has a handler of its own.
NewHandler ==
  /\ judge.stage = "grading" /\ judge' = NoJudge
  /\ sub' = [sub EXCEPT !.status = "IE", !.result = "IE"]
  /\ handler' = [batch_id |-> NoBatch, in_batch |-> FALSE]
  /\ UNCHANGED <<assignment, rows, visit, shown, runs>> /\ PageGone
-----------------------------------------------------------------------------
(* The web side.                                                           *)

\* judge_submission: the verdict and the cases go, the points of the cases
\* stay.  See JudgeBridge for what may come between.
JudgeAgain ==
  /\ Graded(sub) /\ runs < MaxRuns /\ runs' = runs + 1
  /\ sub' = [sub EXCEPT !.status = "QU", !.result = "NULL", !.points = 0]
  /\ rows' = <<>> /\ shown' = <<>>
  /\ visit' = IF visit.open THEN [visit EXCEPT !.crossed = TRUE] ELSE visit
  /\ UNCHANGED <<assignment, handler, judge>> /\ PageGone

\* Of a submission that is not graded the page takes no more than the status.
OpenPage ==
  /\ ~visit.open
  /\ visit' = [open |-> TRUE, crossed |-> FALSE,
               sub |-> IF Graded(sub) THEN sub ELSE [Fresh EXCEPT !.status = sub.status]]
  /\ UNCHANGED <<assignment, handler, judge, sub, rows, shown, runs>> /\ PageGone

ReadCases ==
  LET statuses == combine_statuses(group_statuses(rows), Graded(visit.sub))
  IN  /\ visit.open /\ visit' = NoVisit
      /\ display' = [status |-> visit.sub.status, sub |-> visit.sub, batches |-> group_test_cases(rows),
                  statuses |-> statuses, has_violation |-> \E i \in DOMAIN rows : rows[i].status = "SEC",
                  crossed |-> visit.crossed]
      /\ shown' = IF visit.crossed THEN shown ELSE Uncombined(statuses)
      /\ UNCHANGED <<assignment, handler, judge, sub, rows, runs>>

\* Hints share nothing and change nothing: they are looked at one by one, of
\* any file there may be, before the judge begins.
ShowHint(l) ==
  /\ display' = [status |-> "hint", file |-> l, lines |-> HintLines(l)]
  /\ UNCHANGED <<assignment, handler, judge, sub, rows, visit, shown, runs>>
-----------------------------------------------------------------------------
GradingNext ==
  \/ OnGradingBegin \/ OnBatchBegin \/ OnBatchEnd \/ OnGradingEnd \/ NewHandler
  \/ \E r \in CaseReports : OnTestCase(<<r>>)
  \/ \E r, s \in CaseReports : OnTestCase(<<r, s>>)
  \/ \E status \in {"CE", "IE", "AB"} : BreakOff(status)
  \/ JudgeAgain \/ OpenPage \/ ReadCases
  \/ GradingInit /\ \E l \in Layouts : ShowHint(l)

GradingSpec == GradingInit /\ [][GradingNext]_gvars
-----------------------------------------------------------------------------
GradingTypeOK ==
  /\ assignment \in Assignments
  /\ handler \in [batch_id : 0 .. Len(assignment.tests), in_batch : BOOLEAN]
  /\ judge.stage \in {"idle", "grading"} /\ judge.test \in 1 .. Len(assignment.tests) + 1
  /\ sub.status \in {"QU", "G", "D", "CE", "IE", "AB"} /\ runs \in 1 .. MaxRuns
  /\ \A i \in DOMAIN rows : rows[i].status \in Range(status_codes)

\* The cases of a batch, and no other case, are saved with its number, whatever
\* was left open when the run before it broke off.
TestOf(n) ==
  LET weight(k) == IF assignment.tests[k] = 0 THEN 1 ELSE assignment.tests[k]
      upto(k) == Total([m \in 1 .. k |-> weight(m)])
  IN  Least({k \in DOMAIN assignment.tests : n <= upto(k)})
BatchesAreTheirs ==
  \A n \in DOMAIN rows :
    LET k == TestOf(n)
    IN  rows[n].batch = IF assignment.tests[k] = 0 THEN NoBatch
                        ELSE Cardinality({m \in 1 .. k : assignment.tests[m] > 0})

\* What a page of a graded submission shows of its batches and cases adds up to
\* the score it ends with; the result is a good one only if every mark is, and
\* a blocked attempt is in the result exactly if the page warns of one.  This
\* holds even when the page is read across a grading or its end, unless the
\* submission is judged again in between.
PageAddsUp ==
  display.status = "D" /\ ~display.crossed =>
    /\ display.sub.case_points = Tenths(Total(Field(display.batches, "points")))
    /\ display.sub.case_total = Tenths(Total(Field(display.batches, "total")))
    /\ display.sub.result \in {"AC", "SC"} <=> \A s \in Range(Uncombined(display.statuses)) : s \in {"AC", "SC"}
    /\ display.sub.result = "SEC" <=> display.has_violation

\* All points of a problem are only given if no case fell short, and of a
\* problem that is all or nothing nothing else is.
FullMarksAreEarned ==
  sub.status = "D" =>
    /\ sub.points = 1000 * assignment.points => \A i \in DOMAIN rows : rows[i].points = rows[i].total
    /\ ~assignment.partial => sub.points \in {0, 1000 * assignment.points}

\* The hint shows the input lines of the case that went wrong, and no other, if
\* the file has several cases and one line of output for each; if they have
\* more, and a line of input, that line comes first.
HintIsTheInput ==
  display.status = "hint" /\ display.file.cases > 1 =>
    LET l   == display.file
        its == LinesOf(l, l.wrong \div l.outputs + 1)
    IN  /\ l.format = "indiv" => display.lines = InputLines(l)
        /\ l.format # "indiv" /\ l.outputs = 1 => display.lines = its
        /\ l.format = "standard" /\ l.header /\ l.inputs = 1 => Head(display.lines) = its[1]

PageIsTrue == BatchesAreTheirs /\ PageAddsUp /\ FullMarksAreEarned /\ HintIsTheInput

\* As a run goes on, a page never takes back a mark that an earlier page has
\* shown: neither because cases are reported in packets, nor because a batch
\* that looked good fails later on.
MarksOnlyGrow == [][runs' = runs => IsPrefix(shown, shown')]_gvars
=============================================================================
