---------------------------- MODULE MCListAndData ----------------------------
(***************************************************************************)
(* The bridge's JudgeList, the test data the judges work from and the      *)
(* archive a user downloads, in one run.  They have no row in common, so   *)
(* that the order of a step of one and a step of another makes no          *)
(* difference: one moves, the others are at rest.                          *)
(***************************************************************************)
EXTENDS MCJudgeList, TestData, Export

CONSTANTS e1, e2

\* Cases and batches, with all their mistakes: a batch that is empty, one that
\* is not ended, an end without a batch, a case without points outside of one.
Scored == Case("f", TRUE, FALSE)
Opening == [type |-> "S", scored |-> TRUE, pretest |-> TRUE]
Ending == [type |-> "E", pretest |-> FALSE]
MCOffered == {Scored, Case("f", FALSE, FALSE), Opening, Ending}
MCTables == {<<NoRow, NoRow, NoRow>>, <<NoRow, Scored, NoRow>>, <<Scored, NoRow, Scored>>,
             <<NoRow, Opening, Scored>>, <<Opening, Scored, Ending>>, <<Opening, Scored, Opening>>}

\* The first submission is accepted.  A form asks for it and the comment, or for nothing.
MCResultOf == [s \in Handed |-> IF s = 1 THEN "AC" ELSE "WA"]
MCCodeOf == [s \in Handed |-> "p"]
MCForms == {[comment_download |-> wanted, submission_download |-> wanted,
             submission_results |-> {"AC"}, submission_problem_glob |-> {"p"}] : wanted \in BOOLEAN}

VARIABLE part

TestDataRests == TestDataInit /\ rows = <<NoRow, NoRow, NoRow>> /\ data.zip = NoZip

AllInit ==
  /\ part \in {"judge list", "test data", "export"}
  /\ Init /\ ExportInit
  /\ IF part = "test data" THEN TestDataInit ELSE TestDataRests

AllNext ==
  /\ \/ part = "judge list" /\ Next /\ UNCHANGED <<tvars, xvars>>
     \/ part = "test data" /\ TestDataNext /\ UNCHANGED <<listVars, xvars>>
     \/ part = "export" /\ ExportNext /\ UNCHANGED <<listVars, tvars>>
  /\ UNCHANGED part

AllSpec == AllInit /\ [][AllNext]_<<part, listVars, tvars, xvars>>
=============================================================================
