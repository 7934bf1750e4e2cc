------------------------------ MODULE TestData ------------------------------
(***************************************************************************)
(* The tests of one problem: rows of ProblemTestCase, the ProblemData row  *)
(* with the name of the archive, the files of the problem's directory, and *)
(* the init.yml that is compiled of them for the judges.                   *)
(*                                                                         *)
(* A post of the data page saves the one row, then the others, then        *)
(* compiles what it finds, without a transaction; two posts may do so at   *)
(* once.  A row's id is its order, a test case has one file, and no case   *)
(* has a checker of its own.  last does not exist in the program: it says  *)
(* what the last post to end had checked the files against, whether it put *)
(* an archive in place of another, and whether a second post overlapped.   *)
(***************************************************************************)
EXTENDS Naturals, Sequences, FiniteSets

CONSTANTS Last,        \* rows have the ids 1 .. Last
          Archive,     \* the zip file that is uploaded
          Contents,    \* the files in it
          Offered,     \* bound: the rows that are posted
          Tables,      \* bound: the rows a problem has at the beginning
          Database,    \* ProblemData.checker is sql or mongo
          Editors,     \* web processes
          MaxPosts     \* bound

ASSUME LastAssumption == Last \in Nat \ {0}

VARIABLES rows,     \* ProblemTestCase
          data,     \* ProblemData: the archive it names, and whether there is feedback
          disk,     \* the directory: is the archive there, and the tests of init.yml
          editor, posts, last

tvars == <<rows, data, disk, editor, posts, last>>

Orders == 1 .. Last
NoRow == [type |-> "none"]
Case(f, scored, pretest) == [type |-> "C", file |-> f, scored |-> scored, pretest |-> pretest]
Rows == {Case(f, s, p) : f \in Contents, s \in BOOLEAN, p \in BOOLEAN}
        \cup [type : {"S"}, scored : BOOLEAN, pretest : BOOLEAN] \cup [type : {"E"}, pretest : BOOLEAN]
ASSUME OfferedAssumption ==
  /\ Offered \subseteq Rows /\ Tables \subseteq [Orders -> Rows \cup {NoRow}]
  /\ Database \in BOOLEAN

NoZip == "none"
NoYml == [archive |-> "missing", tests |-> <<>>]
Waiting == [at |-> "idle", upload |-> "keep", seen |-> NoZip, valid |-> {}, change |-> "none",
            id |-> 1, row |-> NoRow, cases |-> [i \in Orders |-> NoRow], late |-> FALSE]
-----------------------------------------------------------------------------
\* make_init goes through the cases with the batch that is open, if one is.  A
\* test is a batch or a case outside of one; questions are numbered over the
\* latter.  saved: the rows as they are saved on the way.
Beginning == [ok |-> TRUE, batch |-> NoRow, members |-> <<>>, tests |-> <<>>, question |-> 0,
              saved |-> [i \in Orders |-> NoRow]]
Fail(b) == [b EXCEPT !.ok = FALSE]
InBatch(b) == b.batch # NoRow

end_batch(b) ==
  IF b.members = <<>> THEN Fail(b)
  ELSE [b EXCEPT !.tests = Append(@, [cases |-> b.members, pretest |-> b.batch.pretest, question |-> 0]),
                 !.members = <<>>, !.batch = NoRow]

NormalCase(b, i, c, valid) ==
  LET number == IF Database THEN b.question + 1 ELSE 0
      test   == [cases |-> <<i>>, pretest |-> c.pretest, question |-> number]
      save(p) == [b EXCEPT !.saved[i] = [c EXCEPT !.pretest = p]]
  IN  IF (~InBatch(b) /\ ~c.scored) \/ c.file \notin valid THEN Fail(b)
      ELSE IF InBatch(b) THEN [save(b.batch.pretest) EXCEPT !.members = Append(@, i)]
      ELSE [save(c.pretest) EXCEPT !.tests = Append(@, test), !.question = number]

\* Broken: without ending the batch that is open.
BatchStartOnly(b, i, c) ==
  IF ~c.scored THEN Fail(b) ELSE [b EXCEPT !.batch = c, !.saved[i] = c]

\* A batch that is open ends where the next begins, ...
BatchStart(b, i, c) ==
  LET e == IF InBatch(b) THEN end_batch(b) ELSE b
  IN  IF ~e.ok \/ ~c.scored THEN Fail(e)
      ELSE [e EXCEPT !.batch = c, !.saved[i] = c]

BatchEnd(b, i, c) ==
  IF ~InBatch(b) THEN Fail(b)
  ELSE end_batch([b EXCEPT !.saved[i] = [c EXCEPT !.pretest = b.batch.pretest]])

\* ... and at the end.
make_init(cases, valid) ==
  LET walk[i \in 0 .. Last] ==
        IF i = 0 THEN Beginning
        ELSE LET b == walk[i - 1]
                 c == cases[i]
             IN  CASE ~b.ok \/ c = NoRow -> b
                   [] b.ok /\ c.type = "C" -> NormalCase(b, i, c, valid)
                   [] b.ok /\ c.type = "S" -> BatchStart(b, i, c)
                   [] b.ok /\ c.type = "E" -> BatchEnd(b, i, c)
  IN  IF walk[Last].ok /\ InBatch(walk[Last]) THEN end_batch(walk[Last]) ELSE walk[Last]

Yml(init, zip) == IF init.ok THEN [archive |-> zip, tests |-> init.tests] ELSE NoYml
Files(zip) == IF zip = NoZip THEN {} ELSE Contents
-----------------------------------------------------------------------------
TestDataTypeOK ==
  /\ rows \in [Orders -> Rows \cup {NoRow}]
  /\ data \in [zip : {NoZip, Archive}, feedback : BOOLEAN]
  /\ disk.archive \in BOOLEAN /\ disk.yml.archive \in {"missing", NoZip, Archive}
  /\ \A e \in Editors : editor[e].cases \in [Orders -> Rows \cup {NoRow}]
  /\ posts \in 0 .. MaxPosts
  /\ last \in [valid : SUBSET Contents, replaced : BOOLEAN, crossed : BOOLEAN]

\* A problem some earlier post has left.
TestDataInit ==
  \E r \in Tables, zip \in {NoZip, Archive} :
    LET init == make_init(r, Files(zip))
    IN  /\ rows = [i \in Orders |-> IF init.saved[i] = NoRow THEN r[i] ELSE init.saved[i]]
        /\ data = [zip |-> zip, feedback |-> ~init.ok]
        /\ disk = [archive |-> zip # NoZip, yml |-> Yml(init, zip)]
        /\ editor = [e \in Editors |-> Waiting]
        /\ posts = 0
        /\ last = [valid |-> Files(zip), replaced |-> FALSE, crossed |-> FALSE]
-----------------------------------------------------------------------------
Busy == {e \in Editors : editor[e].at # "idle"}
\* A request that ends with an exception leaves the rest undone.
Breaks(e) ==
  /\ editor' = [editor EXCEPT ![e] = Waiting]
  /\ last' = [last EXCEPT !.crossed = TRUE]

\* ProblemDataView.post up to the validation of the forms.  The files a case may
\* name are those of the archive that comes with the post, or of the one the row
\* names, which has to be on disk.  A bound: a post brings an archive or one row.
Post(e, upload, change, i, r) ==
  /\ posts < MaxPosts /\ posts' = posts + 1
  /\ editor[e] = Waiting
  /\ upload = "keep" /\ data.zip # NoZip => disk.archive
  /\ upload = "keep" \/ change = "none"
  /\ CASE change = "none" -> r = NoRow /\ i = 1
       [] change = "add" -> rows[i] = NoRow /\ r # NoRow
       [] change = "edit" -> rows[i] # NoRow /\ r \notin {NoRow, rows[i]}
       [] change = "delete" -> rows[i] # NoRow /\ r = NoRow
  /\ editor' = [f \in Editors |->
                  IF f = e THEN [Waiting EXCEPT !.at = "data", !.upload = upload, !.seen = data.zip,
                                                !.change = change, !.id = i, !.row = r, !.late = Busy # {},
                                                !.valid = CASE upload = "keep" -> Files(data.zip)
                                                            [] upload = "clear" -> {}
                                                            [] upload = "new" -> Contents]
                  ELSE [editor[f] EXCEPT !.late = @ \/ editor[f].at # "idle"]]
  /\ UNCHANGED <<rows, data, disk, last>>

\* ProblemData.save.  Deleting the file of the old archive also empties the field
\* that holds the new one: an upload in the place of another is lost.
SaveData(e) ==
  LET q == editor[e]
      lost == q.upload # "keep" /\ q.seen # NoZip
      zip == CASE q.upload = "keep" -> q.seen
               [] q.upload = "clear" -> NoZip
               [] q.upload = "new" -> IF lost THEN NoZip ELSE Archive
  IN  /\ q.at = "data"
      /\ data' = [data EXCEPT !.zip = zip]
      /\ disk' = [disk EXCEPT !.archive = IF lost THEN FALSE ELSE @ \/ q.upload = "new"]
      /\ editor' = [editor EXCEPT ![e].at = "rows", ![e].seen = zip,
                                  ![e].upload = IF lost /\ @ = "new" THEN "replaced" ELSE @]
      /\ UNCHANGED <<rows, posts, last>>

\* The rows of the formset, each saved whole: one that was deleted comes back.
SaveRows(e) ==
  LET q == editor[e]
  IN  /\ q.at = "rows"
      /\ rows' = IF q.change = "none" THEN rows ELSE [rows EXCEPT ![q.id] = q.row]
      /\ editor' = [editor EXCEPT ![e].at = "read"]
      /\ UNCHANGED <<data, disk, posts, last>>

\* make_init reads the cases ...
ReadCases(e) ==
  /\ editor[e].at = "read"
  /\ editor' = [editor EXCEPT ![e].at = "cases", ![e].cases = rows]
  /\ UNCHANGED <<rows, data, disk, posts, last>>

\* ... and saves each: of a case and of the start of a batch only some columns,
\* which fails if the row is gone, and the end of a batch whole.
SaveCases(e) ==
  LET q == editor[e]
      init == make_init(q.cases, q.valid)
      reached == {i \in Orders : init.saved[i] # NoRow}
      gone == {i \in reached : rows[i] = NoRow /\ init.saved[i].type # "E"}
      done == {i \in reached : \A j \in gone : i < j}
      Saved(i) == IF init.saved[i].type = "E" THEN init.saved[i]
                  ELSE IF rows[i].type = "C" /\ init.saved[i].type = "C"
                       THEN [rows[i] EXCEPT !.pretest = init.saved[i].pretest] ELSE rows[i]
  IN  /\ q.at = "cases"
      /\ rows' = [i \in Orders |-> IF i \in done THEN Saved(i) ELSE rows[i]]
      /\ IF gone # {} THEN Breaks(e)
         ELSE editor' = [editor EXCEPT ![e].at = "feedback"] /\ UNCHANGED last
      /\ UNCHANGED <<data, disk, posts>>

\* compile saves the row of the data, whole, ...
SaveFeedback(e) ==
  /\ editor[e].at = "feedback"
  /\ data' = [zip |-> editor[e].seen, feedback |-> ~make_init(editor[e].cases, editor[e].valid).ok]
  /\ editor' = [editor EXCEPT ![e].at = "yml"]
  /\ UNCHANGED <<rows, disk, posts, last>>

\* ... and then writes init.yml, or deletes it.
WriteYml(e) ==
  LET q == editor[e]
  IN  /\ q.at = "yml"
      /\ disk' = [disk EXCEPT !.yml = Yml(make_init(q.cases, q.valid), q.seen)]
      /\ editor' = [editor EXCEPT ![e] = Waiting]
      /\ last' = [valid |-> q.valid, replaced |-> q.upload = "replaced", crossed |-> q.late]
      /\ UNCHANGED <<rows, data, posts>>

\* create_problem with --replace: one transaction, but for the files.
ReplaceProblem(n) ==
  LET r == [i \in Orders |-> IF i <= n THEN Case(CHOOSE f \in Contents : TRUE, TRUE, FALSE) ELSE NoRow]
  IN  /\ Database /\ posts < MaxPosts /\ posts' = posts + 1
      /\ rows' = r /\ data' = [zip |-> Archive, feedback |-> FALSE]
      /\ disk' = [archive |-> TRUE, yml |-> Yml(make_init(r, Contents), Archive)]
      /\ last' = [valid |-> Contents, replaced |-> FALSE, crossed |-> Busy # {}]
      /\ editor' = [e \in Editors |-> [editor[e] EXCEPT !.late = @ \/ e \in Busy]]
-----------------------------------------------------------------------------
Compiling(e) == SaveData(e) \/ SaveRows(e) \/ ReadCases(e) \/ SaveCases(e) \/ SaveFeedback(e) \/ WriteYml(e)

TestDataNext ==
  \/ \E e \in Editors :
       \/ Compiling(e)
       \/ \E u \in {"keep", "clear", "new"}, c \in {"none", "add", "edit", "delete"},
             i \in Orders, r \in Offered \cup {NoRow} : Post(e, u, c, i, r)
  \/ \E n \in Orders : ReplaceProblem(n)

TestDataSpec == TestDataInit /\ [][TestDataNext]_tvars
-----------------------------------------------------------------------------
\* The batch a row is in: the last start or end before it, if that is a start.
Marks(i) == {j \in 1 .. i - 1 : rows[j] # NoRow /\ rows[j].type # "C"}
Batch(i) == {s \in Marks(i) : rows[s].type = "S" /\ \A j \in Marks(i) : j <= s}
Ordinary == {i \in Orders : rows[i] # NoRow /\ rows[i].type = "C"}
Starts == {i \in Orders : rows[i] # NoRow /\ rows[i].type = "S"}
Batched(s) == {i \in Ordinary : Batch(i) = {s}}

Sound(valid) ==
  /\ \A i \in Ordinary : rows[i].file \in valid /\ (Batch(i) = {} => rows[i].scored)
  /\ \A s \in Starts : rows[s].scored /\ Batched(s) # {}
  /\ \A i \in Orders : rows[i] # NoRow /\ rows[i].type = "E" => Batch(i) # {}

Expected == {[cases |-> {i}, pretest |-> rows[i].pretest] : i \in {j \in Ordinary : Batch(j) = {}}}
            \cup {[cases |-> Batched(s), pretest |-> rows[s].pretest] : s \in Starts}

Grouped(tests) == {[cases |-> {tests[k].cases[j] : j \in DOMAIN tests[k].cases}, pretest |-> tests[k].pretest]
                     : k \in DOMAIN tests}

\* When no post is under way and the last to compile was alone, the judges have
\* an init.yml exactly if the rows make sense, the page shows an error if they
\* do not, each batch holds the cases between its start and its end and all of
\* them are pretests or none is, the archive named is on disk and has the files
\* named unless an upload has just replaced it, and the answer a database
\* problem's form calls number n is checked by the n-th test if there are no
\* batches.
InitIsRight ==
  Busy = {} /\ ~last.crossed =>
    LET tests == disk.yml.tests
    IN  /\ data.feedback = ~Sound(last.valid) /\ (disk.yml = NoYml) = data.feedback
        /\ disk.yml # NoYml => disk.yml.archive = data.zip /\ Grouped(tests) = Expected
        /\ data.zip # NoZip => disk.archive
        /\ last.replaced \/ last.valid = Files(data.zip)
        /\ disk.yml # NoYml => \A s \in Starts : \A i \in Batched(s) : rows[i].pretest = rows[s].pretest
        /\ disk.yml # NoYml /\ Starts = {} /\ Database =>
             \A k \in DOMAIN tests :
               tests[k].question = Cardinality({i \in Ordinary : i <= tests[k].cases[1]})
=============================================================================
