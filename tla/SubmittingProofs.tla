--------------------------- MODULE SubmittingProofs ---------------------------
(***************************************************************************)
(* Proofs about the limits of Submitting, in the specification of Comments *)
(* that contains it, and about the tally of the votes on a comment, for    *)
(* any number of web processes, submissions, test cases, visitors and      *)
(* requests and any limits.  The last part is about Tickets: that a page   *)
(* which is told of them shows them as they are.                           *)
(***************************************************************************)
EXTENDS Comments, Tickets, FiniteSetTheorems, TLAPS

SubType == [status : {"none", "QU", "G", "D", "IE", "CE"}, asked : BOOLEAN,
            rejudged : BOOLEAN, flag : BOOLEAN, cases : SUBSET Cases,
            revealed : SUBSET Cases]
Stages == {"idle", "limit", "create", "clear", "lock", "count", "grant"}
ProcType == [at : Stages, sub : Ids \cup {NoCase}, case : Cases \cup {NoCase}]

Types ==
  /\ sub \in [Ids -> SubType]
  /\ proc \in [Procs -> ProcType]
  /\ reading \in [Ids -> {"nothing", "flag", "no flag"}]
  /\ wasIE \in SUBSET Ids

\* What a request is about exists; what does not has never been judged.
Existing ==
  /\ \A w \in Procs : proc[w].at \in {"clear", "lock", "count", "grant"} =>
                        proc[w].sub \in Ids /\ sub[proc[w].sub].status # "none"
  /\ \A i \in Ids : sub[i].status = "none" =>
                      sub[i] = NoSub /\ i \notin wasIE /\ reading[i] = "nothing"

\* Only a rejudge has a submission judged that is not in progress.
JudgingAsked ==
  /\ \A w \in Procs : proc[w].at = "clear" => sub[proc[w].sub].rejudged
  /\ \A i \in Ids : sub[i].asked =>
                      sub[i].status # "G" /\ (sub[i].rejudged \/ sub[i].status = "QU")

HasLock(w) == proc[w].at \in {"count", "grant"}
\* Who holds the lock of a row holds it alone, and its hint is not used up.
LockedRows ==
  \A w \in Procs : HasLock(w) =>
    /\ ~sub[proc[w].sub].flag
    /\ \A v \in Procs : HasLock(v) /\ proc[v].sub = proc[w].sub => v = w

\* A verdict about to be saved does not invent a hint.
Reading ==
  \A i \in Ids : /\ reading[i] = "flag" => sub[i].flag
                 /\ reading[i] # "nothing" => sub[i].status = "G"

OneHint ==
  \A i \in Ids \ wasted :
    \/ sub[i].revealed = {}
    \/ sub[i].flag /\ \E c \in Cases : sub[i].revealed = {c}

IInv == Types /\ Existing /\ JudgingAsked /\ LockedRows /\ Reading /\ OneHint

\* Who is idle and what is not created yet are well typed.
LEMMA IdleTyped ==
  /\ Idle \in ProcType /\ Idle.at = "idle"
  /\ NoSub \in SubType /\ NoSub.status = "none"
  /\ ~NoSub.asked /\ ~NoSub.flag /\ ~NoSub.rejudged /\ NoSub.revealed = {}
BY DEF Idle, ProcType, Stages, NoSub, SubType

\* At first nothing is submitted.
LEMMA InitInvariant == ASSUME Init PROVE IInv
<1>1. Types
  BY IdleTyped DEF Init, SubmittingInit, Types
<1>. QED
  BY <1>1, IdleTyped DEF Init, SubmittingInit, IInv, Existing, JudgingAsked, LockedRows, HasLock,
     Reading, OneHint

\* The comments leave the submissions alone.
LEMMA CommentsApart ==
  ASSUME [Next]_<<svars, requests, cvars>>
  PROVE  SubmittingNext \/ UNCHANGED svars
BY DEF Next, CommentsNext, Vote, SaveVote, ReadVote, DeleteVote, UpdateScore, OpenEdit,
       SaveEdit, Hide

\* A deleted test case changes nothing else of a request.
LEMMA WithoutCasesFields ==
  ASSUME Types, NEW i \in Ids
  PROVE  /\ WithoutCases(i, proc) \in [Procs -> ProcType]
         /\ \A w \in Procs : /\ WithoutCases(i, proc)[w].at = proc[w].at
                             /\ WithoutCases(i, proc)[w].sub = proc[w].sub
<1>1. ASSUME NEW w \in Procs
      PROVE  /\ proc[w] \in ProcType
             /\ WithoutCases(i, proc)[w]
                  = IF proc[w].sub = i THEN [proc[w] EXCEPT !.case = NoCase] ELSE proc[w]
  BY DEF Types, WithoutCases
<1>2. ASSUME NEW w \in Procs
      PROVE  /\ WithoutCases(i, proc)[w] \in ProcType
             /\ WithoutCases(i, proc)[w].at = proc[w].at
             /\ WithoutCases(i, proc)[w].sub = proc[w].sub
  BY <1>1 DEF ProcType
<1>3. WithoutCases(i, proc) = [w \in Procs |-> WithoutCases(i, proc)[w]]
  BY DEF WithoutCases
<1>. QED
  BY <1>2, <1>3

\* A process that moves on, or leaves.
LEMMA Turn ==
  ASSUME Types, NEW w \in Procs, NEW at \in Stages
  PROVE  /\ Goes(w, at) => /\ proc' \in [Procs -> ProcType]
                           /\ proc'[w].at = at /\ proc'[w].sub = proc[w].sub
                           /\ \A v \in Procs : v # w => proc'[v] = proc[v]
         /\ Leaves(w) => /\ proc' \in [Procs -> ProcType] /\ proc'[w].at = "idle"
                         /\ \A v \in Procs : v # w => proc'[v] = proc[v]
<1>1. proc[w] \in ProcType
  BY DEF Types
<1>2. [proc[w] EXCEPT !.at = at] \in ProcType
      /\ [proc[w] EXCEPT !.at = at].at = at /\ [proc[w] EXCEPT !.at = at].sub = proc[w].sub
  BY <1>1 DEF ProcType
<1>3. Goes(w, at) => proc' = [proc EXCEPT ![w] = [proc[w] EXCEPT !.at = at]]
  BY DEF Goes
<1>4. Leaves(w) => proc' = [proc EXCEPT ![w] = Idle]
  BY DEF Leaves
<1>. QED
  BY <1>2, <1>3, <1>4, IdleTyped DEF Types

\* Steps that only turn a process to something else, and take no lock.
LEMMA TurnKeepsInvariant ==
  ASSUME IInv, NEW w \in Procs, UNCHANGED <<sub, bridge>>,
         proc' \in [Procs -> ProcType],
         proc'[w].at \in {"idle", "limit", "create", "lock"},
         proc'[w].at = "lock" => proc'[w].sub \in Ids /\ sub[proc'[w].sub].status # "none",
         \A v \in Procs : v # w => proc'[v] = proc[v]
  PROVE  IInv'
<1> USE DEF IInv, bridge
<1>1. Types' /\ Reading' /\ OneHint'
  BY DEF Types, Reading, OneHint
<1>2. Existing'
  BY DEF Existing
<1>3. JudgingAsked'
  BY DEF JudgingAsked
<1>4. LockedRows'
  BY DEF LockedRows, HasLock
<1>. QED
  BY <1>1, <1>2, <1>3, <1>4

\* The check of the pending submissions moves its process only.
LEMMA CheckPendingKeeps == ASSUME IInv, NEW w \in Procs, CheckPending(w) PROVE IInv'
BY Turn, TurnKeepsInvariant DEF CheckPending, Stages, IInv

\* So does the check of the submissions left.
LEMMA CheckRemainingKeeps == ASSUME IInv, NEW w \in Procs, CheckRemaining(w) PROVE IInv'
BY Turn, TurnKeepsInvariant DEF CheckRemaining, Stages, IInv

\* The count of the hints is made under the lock of the row.
LEMMA CountHintsKeeps == ASSUME IInv, NEW w \in Procs, CountHints(w) PROVE IInv'
<1>1. CASE Leaves(w)
  BY <1>1, Turn, TurnKeepsInvariant DEF CountHints, Stages, IInv
<1>2. CASE Goes(w, "grant")
  <2>1. /\ proc' \in [Procs -> ProcType] /\ UNCHANGED <<sub, reading, wasIE, wasted>>
        /\ \A v \in Procs : /\ HasLock(v)' <=> HasLock(v)
                            /\ proc'[v].sub = proc[v].sub
                            /\ proc'[v].at = "clear" <=> proc[v].at = "clear"
                            /\ proc'[v].at \in {"clear", "lock", "count", "grant"}
                                 => proc[v].at \in {"clear", "lock", "count", "grant"}
    BY <1>2, Turn DEF CountHints, Stages, IInv, HasLock, bridge
  <2>2. Types' /\ Reading' /\ OneHint'
    BY <2>1 DEF IInv, Types, Reading, OneHint
  <2>3. Existing' /\ JudgingAsked'
    BY <2>1 DEF IInv, Existing, JudgingAsked
  <2>4. LockedRows'
    BY <2>1 DEF IInv, LockedRows
  <2>. QED
    BY <2>2, <2>3, <2>4 DEF IInv
<1>. QED
  BY <1>1, <1>2 DEF CountHints

\* The lock is taken by one process at a time, of a row without a hint.
LEMMA LockRowKeeps == ASSUME IInv, NEW w \in Procs, LockRow(w) PROVE IInv'
<1>1. CASE Leaves(w)
  BY <1>1, Turn, TurnKeepsInvariant DEF LockRow, Stages, IInv
<1>2. CASE Goes(w, "count") /\ ~sub[proc[w].sub].flag
  <2>1. /\ proc' \in [Procs -> ProcType] /\ UNCHANGED <<sub, reading, wasIE, wasted>>
        /\ proc[w].at = "lock" /\ proc'[w].at = "count" /\ proc'[w].sub = proc[w].sub
        /\ \A v \in Procs : v # w => proc'[v] = proc[v]
        /\ \A v \in Procs : ~(HasLock(v) /\ proc[v].sub = proc[w].sub)
    BY <1>2, Turn DEF LockRow, Locked, Stages, IInv, HasLock, bridge
  <2>2. Types' /\ Reading' /\ OneHint'
    BY <2>1 DEF IInv, Types, Reading, OneHint
  <2>3. Existing' /\ JudgingAsked'
    BY <2>1 DEF IInv, Existing, JudgingAsked
  <2>4. LockedRows'
    BY <1>2, <2>1 DEF IInv, LockedRows, HasLock
  <2>. QED
    BY <2>2, <2>3, <2>4 DEF IInv
<1>. QED
  BY <1>1, <1>2 DEF LockRow

\* A request for a hint takes the lock.
LEMMA AskHintKeeps ==
  ASSUME IInv, NEW w \in Procs, NEW i \in Ids, NEW c \in Cases, AskHint(w, i, c)
  PROVE  IInv'
<1>1. [at |-> "lock", sub |-> i, case |-> c] \in ProcType
  BY DEF ProcType, Stages
<1>2. sub[i].status # "none"
  BY DEF AskHint, IInv, Existing, NoSub
<1>. QED
  BY <1>1, <1>2, TurnKeepsInvariant DEF AskHint, IInv, Types

\* A step of the bridge that waits for the lock of the row it writes, and
\* leaves processes where they are.
LEMMA BridgeKeepsInvariant ==
  ASSUME IInv, NEW i \in Ids, NEW r \in SubType, ~Locked(i),
         sub' = [sub EXCEPT ![i] = r],
         proc' \in [Procs -> ProcType],
         \A w \in Procs : proc'[w].at = proc[w].at /\ proc'[w].sub = proc[w].sub,
         reading' \in [Ids -> {"nothing", "flag", "no flag"}],
         \A j \in Ids : j # i => reading'[j] = reading[j],
         wasIE' \in SUBSET Ids, \A j \in Ids : j # i => (j \in wasIE' <=> j \in wasIE),
         \A j \in Ids : j # i => (j \in wasted' <=> j \in wasted),
         sub[i].status # "none", r.status # "none",
         sub[i].rejudged => r.rejudged,
         r.asked => r.status # "G" /\ (r.rejudged \/ r.status = "QU"),
         reading'[i] = "flag" => r.flag,
         reading'[i] # "nothing" => r.status = "G",
         i \notin wasted' =>
           (r.revealed = {} \/ (r.flag /\ \E c \in Cases : r.revealed = {c}))
  PROVE  IInv'
<1> USE DEF IInv
<1>1. sub'[i] = r /\ \A j \in Ids : j # i => sub'[j] = sub[j]
  BY DEF Types
<1>2. Types'
  BY DEF Types
<1>3. Existing'
  <2>1. ASSUME NEW w \in Procs, proc'[w].at \in {"clear", "lock", "count", "grant"}
        PROVE  proc'[w].sub \in Ids /\ sub'[proc'[w].sub].status # "none"
    <3>1. PICK x \in Ids : proc'[w].sub = x /\ proc[w].sub = x /\ sub[x].status # "none"
      BY <2>1 DEF Existing
    <3>2. sub'[x].status # "none"
      BY <1>1, <3>1
    <3>. QED
      BY <3>1, <3>2
  <2>2. ASSUME NEW j \in Ids, sub'[j].status = "none"
        PROVE  sub'[j] = NoSub /\ j \notin wasIE' /\ reading'[j] = "nothing"
    <3>1. j # i
      BY <1>1, <2>2
    <3>. QED
      BY <1>1, <2>2, <3>1 DEF Existing
  <2>. QED
    BY <2>1, <2>2 DEF Existing
<1>4. JudgingAsked'
  <2>1. ASSUME NEW w \in Procs, proc'[w].at = "clear" PROVE sub'[proc'[w].sub].rejudged
    <3>1. proc[w].at = "clear" /\ proc'[w].sub = proc[w].sub
      BY <2>1
    <3>2. PICK x \in Ids : proc[w].sub = x /\ sub[x].rejudged
      BY <3>1 DEF JudgingAsked, Existing
    <3>3. sub'[x].rejudged
      <4>1. CASE x = i
        BY <1>1, <3>2, <4>1
      <4>2. CASE x # i
        BY <1>1, <3>2, <4>2
      <4>. QED
        BY <4>1, <4>2
    <3>4. proc'[w].sub = x
      BY <3>1, <3>2
    <3>. QED
      BY <3>3, <3>4, Zenon
  <2>2. ASSUME NEW j \in Ids, sub'[j].asked
        PROVE  sub'[j].status # "G" /\ (sub'[j].rejudged \/ sub'[j].status = "QU")
    <3>1. CASE j = i
      <4>1. sub'[j] = r
        BY <1>1, <3>1
      <4>2. r.asked
        BY <2>2, <4>1
      <4>3. r.status # "G" /\ (r.rejudged \/ r.status = "QU")
        BY <4>2
      <4>. QED
        BY <4>1, <4>3
    <3>2. CASE j # i
      <4>1. sub'[j] = sub[j]
        BY <1>1, <3>2
      <4>. QED
        BY <2>2, <4>1, Zenon DEF JudgingAsked
    <3>. QED
      BY <3>1, <3>2
  <2>. QED
    BY <2>1, <2>2 DEF JudgingAsked
<1>5. LockedRows'
  <2>1. ASSUME NEW w \in Procs, HasLock(w)'
        PROVE  HasLock(w) /\ proc[w].sub \in Ids /\ proc[w].sub # i
               /\ proc'[w].sub = proc[w].sub
    BY <2>1 DEF HasLock, Locked, Existing
  <2>2. ASSUME NEW w \in Procs, HasLock(w)' PROVE ~sub'[proc'[w].sub].flag
    <3>1. PICK x \in Ids : proc'[w].sub = x /\ x # i /\ ~sub[x].flag
      BY <2>1, <2>2 DEF LockedRows
    <3>2. sub'[x] = sub[x]
      BY <1>1, <3>1
    <3>. QED
      BY <3>1, <3>2
  <2>3. ASSUME NEW w \in Procs, NEW v \in Procs, HasLock(w)', HasLock(v)',
               proc'[v].sub = proc'[w].sub
        PROVE  v = w
    BY <2>1, <2>3 DEF LockedRows
  <2>. QED
    BY <2>2, <2>3 DEF LockedRows
<1>6. Reading'
  <2>1. ASSUME NEW j \in Ids
        PROVE  /\ reading'[j] = "flag" => sub'[j].flag
               /\ reading'[j] # "nothing" => sub'[j].status = "G"
    <3>1. CASE j = i
      BY <1>1, <3>1
    <3>2. CASE j # i
      BY <1>1, <3>2 DEF Reading
    <3>. QED
      BY <3>1, <3>2
  <2>. QED
    BY <2>1 DEF Reading
<1>7. OneHint'
  <2>1. ASSUME NEW j \in Ids, j \notin wasted'
        PROVE  \/ sub'[j].revealed = {}
               \/ sub'[j].flag /\ \E c \in Cases : sub'[j].revealed = {c}
    <3>1. CASE j = i
      BY <1>1, <2>1, <3>1
    <3>2. CASE j # i
      <4>1. j \in Ids \ wasted /\ sub'[j] = sub[j]
        BY <1>1, <2>1, <3>2
      <4>. QED
        BY <4>1 DEF OneHint
    <3>. QED
      BY <3>1, <3>2
  <2>. QED
    BY <2>1 DEF OneHint
<1>. QED
  BY <1>2, <1>3, <1>4, <1>5, <1>6, <1>7

\* on_grading_begin empties what the last run showed.
LEMMA GradingBeginKeeps == ASSUME IInv, NEW i \in Ids, GradingBegin(i) PROVE IInv'
<1> DEFINE r == [sub[i] EXCEPT !.status = "G", !.asked = FALSE, !.cases = {}, !.revealed = {}]
<1>0. sub[i] \in SubType
  BY DEF IInv, Types
<1>1. /\ r \in SubType /\ r.status = "G" /\ ~r.asked /\ r.revealed = {}
      /\ r.rejudged = sub[i].rejudged /\ r.flag = sub[i].flag
  BY <1>0 DEF SubType
<1>2. /\ sub' = [sub EXCEPT ![i] = r] /\ proc' = WithoutCases(i, proc) /\ ~Locked(i)
      /\ sub[i].asked /\ UNCHANGED <<reading, wasIE, wasted>>
  BY DEF GradingBegin, bridge
<1>3. sub[i].status # "none"
  BY <1>2, IdleTyped DEF IInv, Existing
<1> HIDE DEF r
<1>4. reading'[i] = "flag" => r.flag
  BY <1>1, <1>2 DEF IInv, Reading
<1>5. proc' \in [Procs -> ProcType]
      /\ \A w \in Procs : proc'[w].at = proc[w].at /\ proc'[w].sub = proc[w].sub
  BY <1>2, WithoutCasesFields DEF IInv
<1>6. reading' \in [Ids -> {"nothing", "flag", "no flag"}] /\ wasIE' \in SUBSET Ids
  BY <1>2 DEF IInv, Types
<1>. QED
  BY <1>1, <1>2, <1>3, <1>4, <1>5, <1>6, BridgeKeepsInvariant

\* A test case is added to a submission.
LEMMA TestCaseKeeps ==
  ASSUME IInv, NEW i \in Ids, NEW c \in Cases, TestCase(i, c)
  PROVE  IInv'
<1> DEFINE r == [sub[i] EXCEPT !.cases = @ \cup {c}]
<1>0. sub[i] \in SubType
  BY DEF IInv, Types
<1>1. /\ r \in SubType /\ r.status = sub[i].status /\ r.asked = sub[i].asked
      /\ r.revealed = sub[i].revealed
      /\ r.rejudged = sub[i].rejudged /\ r.flag = sub[i].flag
  BY <1>0 DEF SubType
<1>2. /\ sub' = [sub EXCEPT ![i] = r] /\ ~Locked(i) /\ sub[i].status = "G"
      /\ UNCHANGED <<proc, reading, wasIE, wasted>>
  BY DEF TestCase, bridge
<1> HIDE DEF r
<1>3. /\ r.asked => r.status # "G" /\ (r.rejudged \/ r.status = "QU")
      /\ reading'[i] = "flag" => r.flag
      /\ i \notin wasted' =>
           (r.revealed = {} \/ (r.flag /\ \E d \in Cases : r.revealed = {d}))
  BY <1>1, <1>2 DEF IInv, JudgingAsked, Reading, OneHint
<1>4. reading' \in [Ids -> {"nothing", "flag", "no flag"}] /\ wasIE' \in SUBSET Ids
      /\ proc' \in [Procs -> ProcType]
  BY <1>2 DEF IInv, Types
<1>. QED
  BY <1>1, <1>2, <1>3, <1>4, BridgeKeepsInvariant

\* on_grading_end reads the row.
LEMMA EndReadKeeps == ASSUME IInv, NEW i \in Ids, EndRead(i) PROVE IInv'
<1>1. Types' /\ Existing' /\ JudgingAsked' /\ LockedRows' /\ OneHint'
  BY DEF EndRead, IInv, Types, Existing, JudgingAsked, LockedRows, HasLock, OneHint
<1>2. Reading'
  BY DEF EndRead, IInv, Types, Reading
<1>. QED
  BY <1>1, <1>2 DEF IInv

\* ... and saves what it read.
LEMMA EndSaveKeeps == ASSUME IInv, NEW i \in Ids, EndSave(i) PROVE IInv'
<1> DEFINE r == [sub[i] EXCEPT !.status = "D", !.flag = (reading[i] = "flag")]
<1>0. sub[i] \in SubType
  BY DEF IInv, Types
<1>1. /\ r \in SubType /\ r.status = "D" /\ r.asked = sub[i].asked
      /\ r.revealed = sub[i].revealed
      /\ r.rejudged = sub[i].rejudged /\ r.flag = (reading[i] = "flag")
  BY <1>0 DEF SubType
<1>2. /\ sub' = [sub EXCEPT ![i] = r] /\ ~Locked(i) /\ reading[i] # "nothing"
      /\ reading' = [reading EXCEPT ![i] = "nothing"]
      /\ wasted' = IF sub[i].flag /\ reading[i] = "no flag" THEN wasted \cup {i} ELSE wasted
      /\ UNCHANGED <<proc, wasIE>>
  BY DEF EndSave
<1> HIDE DEF r
<1>3. sub[i].status = "G" /\ ~sub[i].asked
  BY <1>2 DEF IInv, Reading, JudgingAsked
<1>4. reading[i] \in {"flag", "no flag"}
  BY <1>2 DEF IInv, Types
<1>5. i \notin wasted' =>
           (r.revealed = {} \/ (r.flag /\ \E d \in Cases : r.revealed = {d}))
  <2>1. CASE sub[i].flag /\ reading[i] = "no flag"
    BY <1>2, <2>1
  <2>2. CASE ~(sub[i].flag /\ reading[i] = "no flag")
    <3>1. (r.flag <=> sub[i].flag) /\ wasted' = wasted
      BY <1>1, <1>2, <1>4, <2>2 DEF IInv, Reading
    <3>. QED
      BY <1>1, <3>1 DEF IInv, OneHint
  <2>. QED
    BY <2>1, <2>2
<1>6. /\ reading' \in [Ids -> {"nothing", "flag", "no flag"}] /\ reading'[i] = "nothing"
      /\ \A j \in Ids : j # i => reading'[j] = reading[j]
      /\ wasIE' \in SUBSET Ids /\ proc' \in [Procs -> ProcType]
  BY <1>2 DEF IInv, Types
<1>. QED
  BY <1>1, <1>2, <1>3, <1>5, <1>6, BridgeKeepsInvariant

\* A run that fails ends the request.
LEMMA FailKeeps ==
  ASSUME IInv, NEW i \in Ids, NEW s \in {"IE", "CE"}, Fail(i, s)
  PROVE  IInv'
<1> DEFINE r == [sub[i] EXCEPT !.status = s, !.asked = FALSE]
<1>0. sub[i] \in SubType
  BY DEF IInv, Types
<1>1. /\ r \in SubType /\ r.status = s /\ ~r.asked /\ r.revealed = sub[i].revealed
      /\ r.rejudged = sub[i].rejudged /\ r.flag = sub[i].flag
  BY <1>0 DEF SubType
<1>2. /\ sub' = [sub EXCEPT ![i] = r] /\ ~Locked(i) /\ reading[i] = "nothing"
      /\ sub[i].status \in {"QU", "G"}
      /\ wasIE' = IF s = "IE" THEN wasIE \cup {i} ELSE wasIE
      /\ UNCHANGED <<proc, reading, wasted>>
  BY DEF Fail
<1> HIDE DEF r
<1>3. i \notin wasted' =>
           (r.revealed = {} \/ (r.flag /\ \E d \in Cases : r.revealed = {d}))
  BY <1>1, <1>2 DEF IInv, OneHint
<1>4. reading' \in [Ids -> {"nothing", "flag", "no flag"}] /\ wasIE' \in SUBSET Ids
      /\ proc' \in [Procs -> ProcType]
  BY <1>2 DEF IInv, Types
<1>. QED
  BY <1>1, <1>2, <1>3, <1>4, BridgeKeepsInvariant

\* A step of a web process that writes the row of i and is then done with it,
\* or about to clear its test cases.
LEMMA WebKeepsInvariant ==
  ASSUME IInv, NEW w \in Procs, NEW i \in Ids, NEW r \in SubType,
         sub' = [sub EXCEPT ![i] = r], UNCHANGED bridge,
         proc' \in [Procs -> ProcType],
         \A v \in Procs : v # w => proc'[v].at = proc[v].at /\ proc'[v].sub = proc[v].sub,
         proc'[w].at \in {"idle", "clear"},
         proc'[w].at = "clear" => proc'[w].sub = i /\ r.rejudged,
         \A v \in Procs : v # w /\ HasLock(v) /\ proc[v].sub = i => ~r.flag,
         r.status # "none",
         sub[i].rejudged => r.rejudged,
         r.asked => r.status # "G" /\ (r.rejudged \/ r.status = "QU"),
         reading[i] = "flag" => r.flag,
         reading[i] # "nothing" => r.status = "G",
         i \notin wasted => (r.revealed = {} \/ (r.flag /\ \E c \in Cases : r.revealed = {c}))
  PROVE  IInv'
<1> USE DEF IInv, bridge
<1>1. sub'[i] = r /\ \A j \in Ids : j # i => sub'[j] = sub[j]
  BY DEF Types
<1>2. Types'
  BY DEF Types
<1>3. Existing'
  <2>1. ASSUME NEW v \in Procs, proc'[v].at \in {"clear", "lock", "count", "grant"}
        PROVE  proc'[v].sub \in Ids /\ sub'[proc'[v].sub].status # "none"
    <3>1. CASE v = w
      BY <1>1, <2>1, <3>1
    <3>2. CASE v # w
      <4>1. PICK x \in Ids : proc'[v].sub = x /\ sub[x].status # "none"
        BY <2>1, <3>2 DEF Existing
      <4>2. sub'[x].status # "none"
        BY <1>1, <4>1
      <4>. QED
        BY <4>1, <4>2
    <3>. QED
      BY <3>1, <3>2
  <2>2. ASSUME NEW j \in Ids, sub'[j].status = "none"
        PROVE  sub'[j] = NoSub /\ j \notin wasIE' /\ reading'[j] = "nothing"
    <3>1. j # i
      BY <1>1, <2>2
    <3>. QED
      BY <1>1, <2>2, <3>1 DEF Existing
  <2>. QED
    BY <2>1, <2>2 DEF Existing
<1>4. JudgingAsked'
  <2>1. ASSUME NEW v \in Procs, proc'[v].at = "clear" PROVE sub'[proc'[v].sub].rejudged
    <3>1. CASE v = w
      <4>1. proc'[v].sub = i /\ r.rejudged
        BY <2>1, <3>1
      <4>2. sub'[i].rejudged
        BY <1>1, <4>1
      <4>. QED
        BY <4>1, <4>2
    <3>2. CASE v # w
      <4>1. proc[v].at = "clear" /\ proc'[v].sub = proc[v].sub
        BY <2>1, <3>2
      <4>2. PICK x \in Ids : proc[v].sub = x /\ sub[x].rejudged
        BY <4>1 DEF JudgingAsked, Existing
      <4>3. sub'[x].rejudged
        <5>1. CASE x = i
          BY <1>1, <4>2, <5>1
        <5>2. CASE x # i
          BY <1>1, <4>2, <5>2
        <5>. QED
          BY <5>1, <5>2
      <4>. QED
        BY <4>1, <4>2, <4>3
    <3>. QED
      BY <3>1, <3>2
  <2>2. ASSUME NEW j \in Ids, sub'[j].asked
        PROVE  sub'[j].status # "G" /\ (sub'[j].rejudged \/ sub'[j].status = "QU")
    <3>1. CASE j = i
      <4>1. sub'[j] = r
        BY <1>1, <3>1
      <4>2. r.asked
        BY <2>2, <4>1
      <4>3. r.status # "G" /\ (r.rejudged \/ r.status = "QU")
        BY <4>2
      <4>. QED
        BY <4>1, <4>3
    <3>2. CASE j # i
      <4>1. sub'[j] = sub[j]
        BY <1>1, <3>2
      <4>. QED
        BY <2>2, <4>1, Zenon DEF JudgingAsked
    <3>. QED
      BY <3>1, <3>2
  <2>. QED
    BY <2>1, <2>2 DEF JudgingAsked
<1>5. LockedRows'
  <2>1. ASSUME NEW v \in Procs, HasLock(v)'
        PROVE  v # w /\ HasLock(v) /\ proc[v].sub \in Ids /\ proc'[v].sub = proc[v].sub
    BY <2>1 DEF HasLock, Existing
  <2>2. ASSUME NEW v \in Procs, HasLock(v)' PROVE ~sub'[proc'[v].sub].flag
    <3>1. PICK x \in Ids : proc'[v].sub = x /\ proc[v].sub = x /\ ~sub[x].flag
      BY <2>1, <2>2 DEF LockedRows
    <3>2. CASE x = i
      BY <1>1, <2>1, <2>2, <3>1, <3>2
    <3>3. CASE x # i
      BY <1>1, <3>1, <3>3
    <3>. QED
      BY <3>2, <3>3
  <2>3. ASSUME NEW u \in Procs, NEW v \in Procs, HasLock(u)', HasLock(v)',
               proc'[v].sub = proc'[u].sub
        PROVE  v = u
    BY <2>1, <2>3 DEF LockedRows
  <2>. QED
    BY <2>2, <2>3 DEF LockedRows
<1>6. Reading'
  <2>1. ASSUME NEW j \in Ids
        PROVE  /\ reading'[j] = "flag" => sub'[j].flag
               /\ reading'[j] # "nothing" => sub'[j].status = "G"
    <3>1. CASE j = i
      BY <1>1, <3>1
    <3>2. CASE j # i
      BY <1>1, <3>2 DEF Reading
    <3>. QED
      BY <3>1, <3>2
  <2>. QED
    BY <2>1 DEF Reading
<1>7. OneHint'
  <2>1. ASSUME NEW j \in Ids, j \notin wasted'
        PROVE  \/ sub'[j].revealed = {}
               \/ sub'[j].flag /\ \E c \in Cases : sub'[j].revealed = {c}
    <3>1. CASE j = i
      BY <1>1, <2>1, <3>1
    <3>2. CASE j # i
      <4>1. j \in Ids \ wasted /\ sub'[j] = sub[j]
        BY <1>1, <2>1, <3>2
      <4>. QED
        BY <4>1 DEF OneHint
    <3>. QED
      BY <3>1, <3>2
  <2>. QED
    BY <2>1 DEF OneHint
<1>. QED
  BY <1>2, <1>3, <1>4, <1>5, <1>6, <1>7

\* A submission is created and asked for at once.
LEMMA CreateKeeps ==
  ASSUME IInv, NEW w \in Procs, NEW i \in Ids, Create(w, i)
  PROVE  IInv'
<1> DEFINE r == [NoSub EXCEPT !.status = "QU", !.asked = TRUE]
<1>1. /\ r \in SubType /\ r.status = "QU" /\ r.asked /\ ~r.flag /\ r.revealed = {}
  BY IdleTyped DEF SubType, NoSub
<1>2. /\ sub' = [sub EXCEPT ![i] = r] /\ UNCHANGED bridge /\ Leaves(w)
  BY DEF Create
<1>3. ~sub[i].rejudged /\ reading[i] = "nothing"
  BY IdleTyped DEF Create, IInv, Existing
<1>4. /\ proc' \in [Procs -> ProcType] /\ proc'[w].at = "idle"
      /\ \A v \in Procs : v # w => proc'[v] = proc[v]
  BY <1>2, Turn DEF Stages, IInv
<1> HIDE DEF r
<1>. QED
  BY <1>1, <1>2, <1>3, <1>4, WebKeepsInvariant

\* A rejudge queues a submission again.
LEMMA RejudgeKeeps ==
  ASSUME IInv, NEW w \in Procs, NEW i \in Ids, Rejudge(w, i)
  PROVE  IInv'
<1> DEFINE r == [sub[i] EXCEPT !.status = "QU", !.rejudged = TRUE]
<1>0. sub[i] \in SubType /\ proc[w] = Idle
  BY DEF IInv, Types, Rejudge, IsIdle
<1>1. /\ r \in SubType /\ r.status = "QU" /\ r.rejudged /\ r.flag = sub[i].flag
      /\ r.revealed = sub[i].revealed
  BY <1>0 DEF SubType
<1>2. /\ sub' = [sub EXCEPT ![i] = r] /\ UNCHANGED bridge /\ ~Locked(i)
      /\ proc' = [proc EXCEPT ![w] = [proc[w] EXCEPT !.at = "clear", !.sub = i]]
      /\ sub[i].status # "G"
  BY DEF Rejudge, IInv, Types
<1>3. /\ proc' \in [Procs -> ProcType] /\ proc'[w].at = "clear" /\ proc'[w].sub = i
      /\ \A v \in Procs : v # w => proc'[v] = proc[v]
  BY <1>0, <1>2, IdleTyped DEF IInv, Types, ProcType, Stages
<1>4. \A v \in Procs : ~(HasLock(v) /\ proc[v].sub = i)
  BY <1>2 DEF Locked, HasLock
<1>5. reading[i] = "nothing"
  BY <1>2 DEF IInv, Reading
<1> HIDE DEF r
<1>6. i \notin wasted => (r.revealed = {} \/ (r.flag /\ \E c \in Cases : r.revealed = {c}))
  BY <1>1 DEF IInv, OneHint
<1>. QED
  BY <1>1, <1>2, <1>3, <1>4, <1>5, <1>6, WebKeepsInvariant

\* ... and deletes its test cases.
LEMMA ClearCasesKeeps == ASSUME IInv, NEW w \in Procs, ClearCases(w) PROVE IInv'
<1>1. PICK i \in Ids : proc[w].sub = i /\ sub[i].rejudged
  BY DEF ClearCases, IInv, Existing, JudgingAsked
<1> DEFINE r == [sub[i] EXCEPT !.cases = {}, !.revealed = {}, !.asked = (sub[i].status # "G")]
<1>0. sub[i] \in SubType /\ sub[i].status # "none"
  BY <1>1 DEF IInv, Types, Existing, ClearCases
<1>2. /\ r \in SubType /\ r.rejudged /\ r.flag = sub[i].flag /\ r.revealed = {}
      /\ r.status = sub[i].status /\ (r.asked => r.status # "G")
  BY <1>0, <1>1 DEF SubType
<1>3. /\ sub' = [sub EXCEPT ![i] = r] /\ UNCHANGED bridge
      /\ proc' = [WithoutCases(i, proc) EXCEPT ![w] = Idle]
  BY <1>1 DEF ClearCases
<1>4. /\ proc' \in [Procs -> ProcType] /\ proc'[w].at = "idle"
      /\ \A v \in Procs : v # w => proc'[v].at = proc[v].at /\ proc'[v].sub = proc[v].sub
  BY <1>3, WithoutCasesFields, IdleTyped DEF IInv
<1>5. \A v \in Procs : HasLock(v) /\ proc[v].sub = i => ~r.flag
  BY <1>2 DEF IInv, LockedRows
<1> HIDE DEF r
<1>6. (reading[i] = "flag" => r.flag) /\ (reading[i] # "nothing" => r.status = "G")
  BY <1>2 DEF IInv, Reading
<1>7. /\ \A v \in Procs : v # w /\ HasLock(v) /\ proc[v].sub = i => ~r.flag
      /\ proc'[w].at \in {"idle", "clear"} /\ ~(proc'[w].at = "clear")
      /\ r.status # "none" /\ (sub[i].rejudged => r.rejudged)
      /\ (r.asked => r.status # "G" /\ (r.rejudged \/ r.status = "QU"))
  BY <1>0, <1>1, <1>2, <1>4, <1>5
<1>. QED
  BY <1>2, <1>3, <1>4, <1>6, <1>7, WebKeepsInvariant

\* The lock is what makes the hint that is granted the first one.
LEMMA GrantHintKeeps == ASSUME IInv, NEW w \in Procs, GrantHint(w) PROVE IInv'
<1>1. PICK i \in Ids : proc[w].sub = i /\ sub[i].status # "none"
  BY DEF GrantHint, IInv, Existing
<1>2. HasLock(w) /\ ~sub[i].flag /\ Leaves(w) /\ UNCHANGED bridge
  BY <1>1 DEF GrantHint, HasLock, IInv, LockedRows
<1>3. /\ proc' \in [Procs -> ProcType] /\ proc'[w].at = "idle"
      /\ \A v \in Procs : v # w => proc'[v] = proc[v]
  BY <1>2, Turn DEF Stages, IInv
<1> DEFINE c == proc[w].case
<1>4. CASE c \notin sub[i].cases
  <2>1. UNCHANGED <<sub, bridge>>
    BY <1>1, <1>2, <1>4 DEF GrantHint
  <2>. QED
    BY <1>3, <2>1, TurnKeepsInvariant
<1>5. CASE c \in sub[i].cases
  <2> DEFINE r == [sub[i] EXCEPT !.flag = TRUE, !.revealed = @ \cup {c}]
  <2>0. sub[i] \in SubType
    BY DEF IInv, Types
  <2>1. c \in Cases
    BY <1>5, <2>0 DEF SubType
  <2>2. /\ r \in SubType /\ r.flag /\ r.revealed = sub[i].revealed \cup {c}
        /\ r.status = sub[i].status /\ r.asked = sub[i].asked
        /\ r.rejudged = sub[i].rejudged
    BY <2>0, <2>1 DEF SubType
  <2>3. sub' = [sub EXCEPT ![i] = r]
    BY <1>1, <1>5 DEF GrantHint
  <2>4. \A v \in Procs : v # w => ~(HasLock(v) /\ proc[v].sub = i)
    BY <1>1, <1>2 DEF IInv, LockedRows
  <2> HIDE DEF r
  <2>5. i \notin wasted => (r.flag /\ \E d \in Cases : r.revealed = {d})
    <3>1. ASSUME i \notin wasted PROVE sub[i].revealed = {}
      BY <1>2, <3>1 DEF IInv, OneHint
    <3>. QED
      BY <2>1, <2>2, <3>1
  <2>6. reading[i] # "nothing" => r.status = "G"
    BY <2>2 DEF IInv, Reading
  <2>7. r.asked => r.status # "G" /\ (r.rejudged \/ r.status = "QU")
    <3>1. sub[i].asked => sub[i].status # "G" /\ (sub[i].rejudged \/ sub[i].status = "QU")
      BY DEF IInv, JudgingAsked
    <3>. QED
      BY <2>2, <3>1
  <2>8. /\ r.status # "none"
        /\ sub[i].rejudged => r.rejudged
        /\ reading[i] = "flag" => r.flag
        /\ \A v \in Procs : v # w /\ HasLock(v) /\ proc[v].sub = i => ~r.flag
        /\ i \notin wasted => (r.revealed = {} \/ (r.flag /\ \E d \in Cases : r.revealed = {d}))
    BY <1>1, <2>2, <2>4, <2>5
  <2>9. /\ UNCHANGED bridge /\ r \in SubType /\ proc' \in [Procs -> ProcType]
        /\ \A v \in Procs : v # w => proc'[v].at = proc[v].at /\ proc'[v].sub = proc[v].sub
        /\ proc'[w].at \in {"idle", "clear"}
        /\ proc'[w].at = "clear" => proc'[w].sub = i /\ r.rejudged
    BY <1>2, <1>3, <2>2
  <2>. QED
    BY <2>3, <2>6, <2>7, <2>8, <2>9, WebKeepsInvariant
<1>. QED
  BY <1>4, <1>5
-----------------------------------------------------------------------------
\* The invariant holds in every reachable state.
LEMMA InvariantHolds == Spec => []IInv
<1>1. Init => IInv
  BY InitInvariant
<1>2. IInv /\ [Next]_<<svars, requests, cvars>> => IInv'
  <2> SUFFICES ASSUME IInv, [Next]_<<svars, requests, cvars>> PROVE IInv'
    OBVIOUS
  <2>1. CASE UNCHANGED svars
    BY <2>1 DEF svars, bridge, IInv, Types, Existing, JudgingAsked, LockedRows, HasLock, Reading,
       OneHint
  <2>2. CASE SubmittingNext
    <3>1. ASSUME NEW w \in Procs,
                 CheckPending(w) \/ CheckRemaining(w) \/ ClearCases(w)
                   \/ LockRow(w) \/ CountHints(w) \/ GrantHint(w)
          PROVE  IInv'
      BY <3>1, CheckPendingKeeps, CheckRemainingKeeps, ClearCasesKeeps, LockRowKeeps,
         CountHintsKeeps, GrantHintKeeps
    <3>2. ASSUME NEW w \in Procs, NEW i \in Ids, Create(w, i) \/ Rejudge(w, i) PROVE IInv'
      BY <3>2, CreateKeeps, RejudgeKeeps
    <3>3. ASSUME NEW w \in Procs, NEW i \in Ids, NEW c \in Cases, AskHint(w, i, c)
          PROVE  IInv'
      BY <3>3, AskHintKeeps
    <3>4. ASSUME NEW i \in Ids, GradingBegin(i) \/ EndRead(i) \/ EndSave(i) PROVE IInv'
      BY <3>4, GradingBeginKeeps, EndReadKeeps, EndSaveKeeps
    <3>5. ASSUME NEW i \in Ids, NEW s \in {"IE", "CE"}, Fail(i, s) PROVE IInv'
      BY <3>5, FailKeeps
    <3>6. ASSUME NEW i \in Ids, NEW c \in Cases, TestCase(i, c) PROVE IInv'
      BY <3>6, TestCaseKeeps
    <3>. QED
      BY <2>2, <3>1, <3>2, <3>3, <3>4, <3>5, <3>6 DEF SubmittingNext
  <2>. QED
    BY <2>1, <2>2, CommentsApart
<1>. QED
  BY <1>1, <1>2, PTL DEF Spec

\* flag_submission reveals one test case of a submission however many requests
\* for it overlap: the lock, and reading the flag under it, are enough.
THEOREM HintIsOne == Spec => []OneHintPerSubmission
<1>1. IInv => OneHintPerSubmission
  <2> SUFFICES ASSUME IInv, NEW i \in Ids \ wasted
               PROVE  /\ Cardinality(sub[i].revealed) <= 1
                      /\ sub[i].revealed # {} => sub[i].flag
    BY DEF OneHintPerSubmission
  <2>1. CASE sub[i].revealed = {}
    BY <2>1, FS_EmptySet
  <2>2. CASE sub[i].flag /\ \E c \in Cases : sub[i].revealed = {c}
    <3>1. PICK c \in Cases : sub[i].revealed = {c}
      BY <2>2
    <3>2. Cardinality({c}) = 1
      BY FS_Singleton
    <3>. QED
      BY <2>2, <3>1, <3>2
  <2>. QED
    BY <2>1, <2>2 DEF IInv, OneHint
<1>. QED
  BY <1>1, InvariantHolds, PTL
-----------------------------------------------------------------------------
(* The limits, each as a set of what is used and one of the processes that *)
(* have passed the check and not acted yet.                                *)

Passed(stages) == {w \in Procs : proc[w].at \in stages}

\* A step uses up nothing, or gives something back; or it lets a process pass
\* below the limit; or a process that has passed acts or gives up.
LimitStep(S, T, P, Q, L) ==
  \/ P = Q /\ (T = S \/ \E x : T = S \ {x})
  \/ T = S /\ Cardinality(S) < L /\ \E w \in Procs : Q = P \cup {w}
  \/ \E w \in P : Q = P \ {w} /\ (T = S \/ \E x : T = S \cup {x})

LimitSteps ==
  /\ LimitStep(Pending, Pending', Passed({"limit", "create"}), Passed({"limit", "create"})',
               PendingLimit)
  /\ LimitStep(Used, Used', Passed({"create"}), Passed({"create"})', MaxSubmissions)
  /\ LimitStep(Hinted, Hinted', Passed({"grant"}), Passed({"grant"})', AllowedTips)

Within(S, P, L) ==
  /\ IsFiniteSet(S) /\ P \subseteq Procs
  /\ Cardinality(S) + Cardinality(P) < L + Cardinality(Procs)

AllWithin ==
  /\ Within(Pending, Passed({"limit", "create"}), PendingLimit)
  /\ Within(Used, Passed({"create"}), MaxSubmissions)
  /\ Within(Hinted, Passed({"grant"}), AllowedTips)

\* A step that counts before it adds stays within the limit and its race.
LEMMA StepKeepsWithin ==
  ASSUME NEW S, NEW T, NEW P, NEW Q, NEW L \in Nat, Within(S, P, L), LimitStep(S, T, P, Q, L)
  PROVE  Within(T, Q, L)
<1>0. /\ IsFiniteSet(S) /\ Cardinality(S) \in Nat
      /\ IsFiniteSet(P) /\ Cardinality(P) \in Nat /\ P \subseteq Procs
      /\ Cardinality(Procs) \in Nat
      /\ Cardinality(S) + Cardinality(P) < L + Cardinality(Procs)
  BY FS_Subset, FS_CardinalityType, ProcsFinite DEF Within
<1>1. CASE P = Q /\ (T = S \/ \E x : T = S \ {x})
  <2>1. IsFiniteSet(T) /\ Cardinality(T) \in Nat /\ Cardinality(T) <= Cardinality(S)
    <3>1. CASE T = S
      BY <1>0, <3>1
    <3>2. CASE \E x : T = S \ {x}
      <4>1. PICK x : T = S \ {x}
        BY <3>2
      <4>. QED
        BY <1>0, <4>1, FS_Subset, FS_CardinalityType
    <3>. QED
      BY <1>1, <3>1, <3>2
  <2>. QED
    BY <1>0, <1>1, <2>1 DEF Within
<1>2. CASE T = S /\ Cardinality(S) < L /\ \E w \in Procs : Q = P \cup {w}
  <2>1. Q \subseteq Procs /\ Cardinality(Q) <= Cardinality(Procs) /\ Cardinality(Q) \in Nat
    BY <1>0, <1>2, FS_Subset, FS_CardinalityType, ProcsFinite
  <2>. QED
    BY <1>0, <1>2, <2>1 DEF Within
<1>3. CASE \E w \in P : Q = P \ {w} /\ (T = S \/ \E x : T = S \cup {x})
  <2>0. PICK w \in P : Q = P \ {w}
    BY <1>3
  <2>1. Q \subseteq Procs /\ Cardinality(Q) = Cardinality(P) - 1
    BY <1>0, <2>0, FS_RemoveElement
  <2>2. CASE T = S
    BY <1>0, <2>1, <2>2 DEF Within
  <2>3. CASE \E x : T = S \cup {x}
    <3>1. PICK x : T = S \cup {x}
      BY <2>3
    <3>2. IsFiniteSet(T) /\ Cardinality(T) = IF x \in S THEN Cardinality(S)
                                                        ELSE Cardinality(S) + 1
      BY <1>0, <3>1, FS_AddElement
    <3>. QED
      BY <1>0, <2>1, <3>2 DEF Within
  <2>. QED
    BY <1>3, <2>2, <2>3
<1>. QED
  BY <1>1, <1>2, <1>3 DEF LimitStep

\* Whatever is not counted has ended in IE.
Ended == \A i \in Ids : sub[i].status = "IE" => i \in wasIE

\* What writing one row makes of the sets.
LEMMA RowChange ==
  ASSUME Types, NEW i \in Ids, NEW r, sub' = [sub EXCEPT ![i] = r]
  PROVE  /\ r.status \in {"QU", "G"} /\ ~r.rejudged => Pending' = Pending \cup {i}
         /\ ~(r.status \in {"QU", "G"} /\ ~r.rejudged) => Pending' = Pending \ {i}
         /\ r.flag => Hinted' = Hinted \cup {i}
         /\ ~r.flag => Hinted' = Hinted \ {i}
BY DEF Types, Pending, Hinted

\* A step that writes one row and uses up nothing.
LEMMA RowOnly ==
  ASSUME Types, Ended, NEW i \in Ids, NEW r, sub' = [sub EXCEPT ![i] = r],
         \A w \in Procs : \/ proc'[w].at = proc[w].at
                          \/ /\ proc'[w].at \in {"idle", "clear"}
                             /\ proc[w].at \in {"idle", "clear"},
         r.status \in {"QU", "G"} /\ ~r.rejudged => i \in Pending,
         r.flag => i \in Hinted,
         r.status # "none" /\ sub[i].status # "none",
         wasIE' = wasIE \/ wasIE' = wasIE \cup {i},
         r.status = "IE" => i \in wasIE'
  PROVE  LimitSteps /\ Ended'
<1>1. /\ Passed({"limit", "create"})' = Passed({"limit", "create"})
      /\ Passed({"create"})' = Passed({"create"})
      /\ Passed({"grant"})' = Passed({"grant"})
  BY DEF Passed
<1>2. Pending' = Pending \/ Pending' = Pending \ {i}
  <2>1. CASE r.status \in {"QU", "G"} /\ ~r.rejudged
    BY <2>1, RowChange
  <2>2. CASE ~(r.status \in {"QU", "G"} /\ ~r.rejudged)
    BY <2>2, RowChange
  <2>. QED
    BY <2>1, <2>2
<1>3. Hinted' = Hinted \/ Hinted' = Hinted \ {i}
  <2>1. (r.flag => Hinted' = Hinted \cup {i}) /\ (~r.flag => Hinted' = Hinted \ {i})
    BY RowChange
  <2>. QED
    BY <2>1
<1>4. Used' = Used \/ Used' = Used \ {i}
  <2>1. {j \in Ids : sub'[j].status # "none"} = {j \in Ids : sub[j].status # "none"}
    BY DEF Types
  <2>. QED
    BY <2>1 DEF Used
<1>5. Ended'
  <2>1. sub'[i] = r /\ \A j \in Ids : j # i => sub'[j] = sub[j]
    BY DEF Types
  <2>2. ASSUME NEW j \in Ids, sub'[j].status = "IE" PROVE j \in wasIE'
    <3>1. CASE j = i
      BY <2>1, <2>2, <3>1
    <3>2. CASE j # i
      BY <2>1, <2>2, <3>2 DEF Ended
    <3>. QED
      BY <3>1, <3>2
  <2>. QED
    BY <2>2 DEF Ended
<1>. QED
  BY <1>1, <1>2, <1>3, <1>4, <1>5 DEF LimitSteps, LimitStep

\* A step that writes no row, and lets no process pass a check or act.
LEMMA ProcOnly ==
  ASSUME Types, Ended, NEW w \in Procs, UNCHANGED <<sub, wasIE>>,
         \A v \in Procs : v # w => proc'[v] = proc[v],
         /\ proc'[w].at = "limit" => Cardinality(Pending) < PendingLimit
         /\ proc'[w].at = "create" => /\ proc[w].at = "limit"
                                      /\ Cardinality(Used) < MaxSubmissions
         /\ proc'[w].at = "grant" => Cardinality(Hinted) < AllowedTips
  PROVE  LimitSteps /\ Ended'
<1>1. Pending' = Pending /\ Used' = Used /\ Hinted' = Hinted
  BY DEF Pending, Used, Hinted
<1>2. ASSUME NEW A
      PROVE  Passed(A)' = IF proc'[w].at \in A THEN Passed(A) \cup {w} ELSE Passed(A) \ {w}
  BY DEF Passed
<1>3. /\ Passed({"limit", "create"}) = Passed({"limit", "create"}) \cup {w}
        <=> proc[w].at \in {"limit", "create"}
      /\ \A A : w \notin Passed(A) => Passed(A) \ {w} = Passed(A)
  BY DEF Passed
<1>4. LimitStep(Pending, Pending', Passed({"limit", "create"}), Passed({"limit", "create"})',
                PendingLimit)
  <2>1. CASE proc'[w].at = "limit"
    BY <1>1, <1>2, <2>1 DEF LimitStep
  <2>2. CASE proc'[w].at = "create"
    BY <1>1, <1>2, <1>3, <2>2 DEF LimitStep
  <2>3. CASE proc'[w].at \notin {"limit", "create"}
    BY <1>1, <1>2, <1>3, <2>3 DEF LimitStep
  <2>. QED
    BY <2>1, <2>2, <2>3
<1>5. LimitStep(Used, Used', Passed({"create"}), Passed({"create"})', MaxSubmissions)
  BY <1>1, <1>2, <1>3 DEF LimitStep
<1>6. LimitStep(Hinted, Hinted', Passed({"grant"}), Passed({"grant"})', AllowedTips)
  BY <1>1, <1>2, <1>3 DEF LimitStep
<1>. QED
  BY <1>4, <1>5, <1>6 DEF LimitSteps, Ended

\* What is used up was graded, failed or is on its way.
LEMMA UsedIsCounted ==
  ASSUME Ended PROVE IsFiniteSet(Counted) /\ Cardinality(Used) <= Cardinality(Counted)
<1>1. Used \subseteq Counted /\ Counted \subseteq Ids
  BY DEF Ended, Used, Counted
<1>. QED
  BY <1>1, IdsFinite, FS_Subset

\* Each action is a step of every limit.
LEMMA EveryStepOfLimits ==
  ASSUME IInv, Ended, SubmittingNext \/ UNCHANGED svars PROVE LimitSteps /\ Ended'
<1> USE DEF IInv
<1>0. UNCHANGED <<sub, proc, wasIE>> => LimitSteps /\ Ended'
  BY DEF Ended, LimitSteps, LimitStep, Pending, Used, Hinted, Passed
<1>1. CASE UNCHANGED svars
  BY <1>0, <1>1 DEF svars, bridge
<1>2. ASSUME NEW w \in Procs, CheckPending(w) PROVE LimitSteps /\ Ended'
  BY <1>2, Turn, ProcOnly DEF CheckPending, bridge, Stages
<1>3. ASSUME NEW w \in Procs, CheckRemaining(w) PROVE LimitSteps /\ Ended'
  <2>1. Cardinality(Counted) < MaxSubmissions => Cardinality(Used) < MaxSubmissions
    BY UsedIsCounted, FS_CardinalityType, FS_Subset, IdsFinite, LimitsAssumption DEF Used
  <2>. QED
    BY <1>3, <2>1, Turn, ProcOnly DEF CheckRemaining, bridge, Stages
<1>4. ASSUME NEW w \in Procs, LockRow(w) PROVE LimitSteps /\ Ended'
  BY <1>4, Turn, ProcOnly DEF LockRow, bridge, Stages
<1>5. ASSUME NEW w \in Procs, CountHints(w) PROVE LimitSteps /\ Ended'
  BY <1>5, Turn, ProcOnly DEF CountHints, bridge, Stages
<1>6. ASSUME NEW w \in Procs, NEW i \in Ids, NEW c \in Cases, AskHint(w, i, c)
      PROVE  LimitSteps /\ Ended'
  <2>1. proc'[w].at = "lock" /\ \A v \in Procs : v # w => proc'[v] = proc[v]
    BY <1>6 DEF AskHint, Types
  <2>. QED
    BY <1>6, <2>1, ProcOnly DEF AskHint, bridge
<1>7. ASSUME NEW i \in Ids, EndRead(i) PROVE LimitSteps /\ Ended'
  BY <1>0, <1>7 DEF EndRead
<1>8. ASSUME NEW i \in Ids, NEW c \in Cases, TestCase(i, c) PROVE LimitSteps /\ Ended'
  <2> DEFINE r == [sub[i] EXCEPT !.cases = @ \cup {c}]
  <2>1. r.status = "G" /\ r.rejudged = sub[i].rejudged /\ r.flag = sub[i].flag
    BY <1>8 DEF TestCase, Types, SubType
  <2>2. sub' = [sub EXCEPT ![i] = r] /\ UNCHANGED <<proc, wasIE>> /\ sub[i].status = "G"
    BY <1>8 DEF TestCase, bridge
  <2> HIDE DEF r
  <2>3. /\ r.status \in {"QU", "G"} /\ ~r.rejudged => i \in Pending
        /\ r.flag => i \in Hinted
    BY <2>1, <2>2 DEF Pending, Hinted
  <2>. QED
    BY <2>1, <2>2, <2>3, RowOnly
<1>9. ASSUME NEW i \in Ids, GradingBegin(i) PROVE LimitSteps /\ Ended'
  <2> DEFINE r == [sub[i] EXCEPT !.status = "G", !.asked = FALSE, !.cases = {},
                                 !.revealed = {}]
  <2>1. r.status = "G" /\ r.rejudged = sub[i].rejudged /\ r.flag = sub[i].flag
    BY DEF Types, SubType
  <2>2. sub' = [sub EXCEPT ![i] = r] /\ sub[i].asked
        /\ wasIE' = wasIE /\ proc' = WithoutCases(i, proc)
    BY <1>9 DEF GradingBegin, bridge
  <2> HIDE DEF r
  <2>3. sub[i].status # "none" /\ (sub[i].rejudged \/ sub[i].status = "QU")
    <3>1. sub[i].status # "none"
      BY <2>2, IdleTyped DEF Existing
    <3>. QED
      BY <2>2, <3>1 DEF JudgingAsked
  <2>4. /\ r.status \in {"QU", "G"} /\ ~r.rejudged => i \in Pending
        /\ r.flag => i \in Hinted
    BY <2>1, <2>3 DEF Pending, Hinted
  <2>5. \A w \in Procs : proc'[w].at = proc[w].at
    BY <2>2, WithoutCasesFields
  <2>. QED
    BY <2>1, <2>2, <2>3, <2>4, <2>5, RowOnly
<1>10. ASSUME NEW i \in Ids, EndSave(i) PROVE LimitSteps /\ Ended'
  <2> DEFINE r == [sub[i] EXCEPT !.status = "D", !.flag = (reading[i] = "flag")]
  <2>1. r.status = "D" /\ r.flag = (reading[i] = "flag")
    BY DEF Types, SubType
  <2>2. sub' = [sub EXCEPT ![i] = r] /\ UNCHANGED <<proc, wasIE>> /\ sub[i].status = "G"
    BY <1>10 DEF EndSave, Reading
  <2> HIDE DEF r
  <2>3. r.flag => i \in Hinted
    BY <2>1 DEF Reading, Hinted
  <2>. QED
    BY <2>1, <2>2, <2>3, RowOnly
<1>11. ASSUME NEW i \in Ids, NEW s \in {"IE", "CE"}, Fail(i, s) PROVE LimitSteps /\ Ended'
  <2> DEFINE r == [sub[i] EXCEPT !.status = s, !.asked = FALSE]
  <2>1. r.status = s /\ r.flag = sub[i].flag
    BY DEF Types, SubType
  <2>2. /\ sub' = [sub EXCEPT ![i] = r] /\ proc' = proc /\ sub[i].status \in {"QU", "G"}
        /\ wasIE' = wasIE \/ wasIE' = wasIE \cup {i}
        /\ s = "IE" => i \in wasIE'
    BY <1>11 DEF Fail
  <2> HIDE DEF r
  <2>3. r.flag => i \in Hinted
    BY <2>1 DEF Hinted
  <2>. QED
    BY <2>1, <2>2, <2>3, RowOnly
<1>12. ASSUME NEW w \in Procs, NEW i \in Ids, Rejudge(w, i) PROVE LimitSteps /\ Ended'
  <2> DEFINE r == [sub[i] EXCEPT !.status = "QU", !.rejudged = TRUE]
  <2>1. r.status = "QU" /\ r.rejudged /\ r.flag = sub[i].flag
    BY DEF Types, SubType
  <2>2. /\ sub' = [sub EXCEPT ![i] = r] /\ wasIE' = wasIE /\ sub[i].status # "none"
        /\ proc[w].at = "idle" /\ proc'[w].at = "clear"
        /\ \A v \in Procs : v # w => proc'[v] = proc[v]
    BY <1>12, IdleTyped DEF Rejudge, IsIdle, bridge, Types, ProcType
  <2> HIDE DEF r
  <2>3. r.flag => i \in Hinted
    BY <2>1 DEF Hinted
  <2>4. \A v \in Procs : \/ proc'[v].at = proc[v].at
                         \/ /\ proc'[v].at \in {"idle", "clear"}
                            /\ proc[v].at \in {"idle", "clear"}
    BY <2>2
  <2>. QED
    BY <2>1, <2>2, <2>3, <2>4, RowOnly
<1>13. ASSUME NEW w \in Procs, ClearCases(w) PROVE LimitSteps /\ Ended'
  <2>1. PICK i \in Ids : proc[w].sub = i /\ sub[i].rejudged /\ sub[i].status # "none"
    BY <1>13 DEF ClearCases, Existing, JudgingAsked
  <2> DEFINE r == [sub[i] EXCEPT !.cases = {}, !.revealed = {},
                                 !.asked = (sub[i].status # "G")]
  <2>2. r.rejudged /\ r.flag = sub[i].flag /\ r.status = sub[i].status
    BY <2>1 DEF Types, SubType
  <2>3. /\ sub' = [sub EXCEPT ![i] = r] /\ wasIE' = wasIE /\ proc[w].at = "clear"
        /\ proc' = [WithoutCases(i, proc) EXCEPT ![w] = Idle]
    BY <1>13, <2>1 DEF ClearCases, bridge
  <2> HIDE DEF r
  <2>4. (r.flag => i \in Hinted) /\ (r.status = "IE" => i \in wasIE')
    BY <2>2, <2>3 DEF Hinted, Ended
  <2>5. \A v \in Procs : \/ proc'[v].at = proc[v].at
                         \/ /\ proc'[v].at \in {"idle", "clear"}
                            /\ proc[v].at \in {"idle", "clear"}
    BY <2>3, WithoutCasesFields, IdleTyped
  <2>. QED
    BY <2>1, <2>2, <2>3, <2>4, <2>5, RowOnly
\* Two that have passed act: by a submission, and by a hint.
<1>14. ASSUME NEW w \in Procs, NEW i \in Ids, Create(w, i) PROVE LimitSteps /\ Ended'
  <2> DEFINE r == [NoSub EXCEPT !.status = "QU", !.asked = TRUE]
  <2>1. r.status = "QU" /\ ~r.rejudged /\ ~r.flag
    BY DEF NoSub
  <2>2. /\ sub' = [sub EXCEPT ![i] = r] /\ wasIE' = wasIE /\ proc[w].at = "create"
        /\ sub[i] = NoSub /\ i \notin wasIE
    BY <1>14 DEF Create, bridge, Existing
  <2>3. /\ proc'[w].at = "idle" /\ \A v \in Procs : v # w => proc'[v] = proc[v]
    BY <1>14, Turn DEF Create, Stages
  <2> HIDE DEF r
  <2>4. /\ Passed({"limit", "create"})' = Passed({"limit", "create"}) \ {w}
        /\ Passed({"create"})' = Passed({"create"}) \ {w}
        /\ Passed({"grant"})' = Passed({"grant"})
        /\ w \in Passed({"limit", "create"}) /\ w \in Passed({"create"})
    BY <2>2, <2>3 DEF Passed
  <2>5. Pending' = Pending \cup {i} /\ Hinted' = Hinted
    <3>1. i \notin Hinted
      BY <2>2 DEF Hinted, NoSub
    <3>2. Hinted' = Hinted \ {i}
      BY <2>1, <2>2, RowChange
    <3>3. Pending' = Pending \cup {i}
      BY <2>1, <2>2, RowChange
    <3>. QED
      BY <3>1, <3>2, <3>3
  <2>6. Used' = Used \cup {i} /\ Ended'
    <3>1. sub'[i] = r /\ \A j \in Ids : j # i => sub'[j] = sub[j]
      BY <2>2 DEF Types
    <3>. QED
      BY <2>1, <2>2, <3>1 DEF Used, Ended
  <2>. QED
    BY <2>4, <2>5, <2>6 DEF LimitSteps, LimitStep
<1>15. ASSUME NEW w \in Procs, GrantHint(w) PROVE LimitSteps /\ Ended'
  <2>1. PICK i \in Ids : proc[w].sub = i /\ sub[i].status # "none"
    BY <1>15 DEF GrantHint, Existing
  <2>2. /\ wasIE' = wasIE /\ proc[w].at = "grant"
        /\ proc'[w].at = "idle" /\ \A v \in Procs : v # w => proc'[v] = proc[v]
    BY <1>15, Turn DEF GrantHint, Stages, bridge
  <2>3. /\ Passed({"limit", "create"})' = Passed({"limit", "create"})
        /\ Passed({"create"})' = Passed({"create"})
        /\ Passed({"grant"})' = Passed({"grant"}) \ {w}
        /\ w \in Passed({"grant"})
    BY <2>2 DEF Passed
  <2>4. /\ Pending' = Pending /\ Used' = Used
        /\ Hinted' = Hinted \/ Hinted' = Hinted \cup {i}
        /\ Ended'
    <3>1. CASE proc[w].case \notin sub[i].cases
      <4>1. sub' = sub
        BY <1>15, <2>1, <3>1 DEF GrantHint
      <4>. QED
        BY <2>2, <4>1 DEF Pending, Used, Hinted, Ended
    <3>2. CASE proc[w].case \in sub[i].cases
      <4>1. /\ sub'[i].status = sub[i].status /\ sub'[i].rejudged = sub[i].rejudged
            /\ sub'[i].flag
            /\ \A j \in Ids : j # i => sub'[j] = sub[j]
        BY <1>15, <2>1, <3>2 DEF GrantHint, Types, SubType
      <4>2. Pending' = Pending
        BY <4>1 DEF Pending
      <4>3. Used' = Used /\ Ended'
        BY <2>2, <4>1 DEF Used, Ended
      <4>4. Hinted' = Hinted \cup {i}
        BY <4>1 DEF Hinted
      <4>. QED
        BY <4>2, <4>3, <4>4
    <3>. QED
      BY <3>1, <3>2
  <2>. QED
    BY <2>3, <2>4 DEF LimitSteps, LimitStep
<1>. QED
  BY <1>1, <1>2, <1>3, <1>4, <1>5, <1>6, <1>7, <1>8, <1>9, <1>10, <1>11, <1>12, <1>13, <1>14,
     <1>15 DEF SubmittingNext

\* CheckThenAct counts as this module does.
LEMMA SameCount ==
  \A S : /\ InProgress!Cardinality(S) = Cardinality(S)
         /\ InAll!Cardinality(S) = Cardinality(S)
         /\ Hints!Cardinality(S) = Cardinality(S)
BY DEF Cardinality, InProgress!Cardinality, InAll!Cardinality, Hints!Cardinality

\* Every limit is exceeded by those only who had passed the check.
LEMMA WithinHolds == Spec => [](IInv /\ Ended /\ AllWithin)
<1>1. Init => Ended /\ AllWithin
  <2> SUFFICES ASSUME Init PROVE Ended /\ AllWithin
    OBVIOUS
  <2>1. /\ Pending = {} /\ Used = {} /\ Hinted = {} /\ Ended
        /\ \A A \in {{"limit", "create"}, {"create"}, {"grant"}} : Passed(A) = {}
    BY IdleTyped DEF Init, SubmittingInit, Pending, Used, Hinted, Ended, Passed
  <2>2. IsFiniteSet({}) /\ Cardinality({}) = 0
    BY FS_EmptySet
  <2>3. Cardinality(Procs) \in Nat /\ Cardinality(Procs) # 0
    BY ProcsFinite, FS_CardinalityType, FS_EmptySet
  <2>. QED
    BY <2>1, <2>2, <2>3, LimitsAssumption DEF AllWithin, Within
<1>2. IInv /\ Ended /\ AllWithin /\ [Next]_<<svars, requests, cvars>> => (Ended /\ AllWithin)'
  <2> SUFFICES ASSUME IInv, Ended, AllWithin, [Next]_<<svars, requests, cvars>>
               PROVE  Ended' /\ AllWithin'
    OBVIOUS
  <2>1. SubmittingNext \/ UNCHANGED svars
    BY CommentsApart
  <2>3. LimitSteps /\ Ended'
    BY <2>1, EveryStepOfLimits
  <2>4. /\ Within(Pending', Passed({"limit", "create"})', PendingLimit)
        /\ Within(Used', Passed({"create"})', MaxSubmissions)
        /\ Within(Hinted', Passed({"grant"})', AllowedTips)
    BY <2>3, StepKeepsWithin, LimitsAssumption DEF AllWithin, LimitSteps
  <2>. QED
    BY <2>3, <2>4 DEF AllWithin, Within
<1>. QED
  BY <1>1, <1>2, InvariantHolds, PTL DEF Spec

\* However check and use of the three limits interleave, and whatever the
\* bridge and rejudges do meanwhile, a limit is passed by less than the
\* number of web processes.
THEOREM LimitsAreKept == Spec => []LimitsHold
<1>1. IInv /\ AllWithin => LimitsHold
  <2> SUFFICES ASSUME IInv, AllWithin PROVE LimitsHold
    OBVIOUS
  <2>1. ASSUME NEW S, NEW P, NEW L, Within(S, P, L)
        PROVE  /\ Cardinality(S) \in Nat /\ P \subseteq Procs
               /\ Cardinality(S) + Cardinality(P) < L + Cardinality(Procs)
    BY <2>1, FS_CardinalityType DEF Within
  <2>2. InProgress!Bounded
    BY <2>1, SameCount DEF AllWithin, InProgress!Bounded, Passed
  <2>3. InAll!Bounded
    <3>1. Passed({"create"}) = {w \in Procs : proc[w].at = "create"}
      BY DEF Passed
    <3>. QED
      BY <2>1, <3>1, SameCount DEF AllWithin, InAll!Bounded
  <2>4. Hints!Bounded
    <3>1. Passed({"grant"}) = {w \in Procs : proc[w].at = "grant"}
      BY DEF Passed
    <3>. QED
      BY <2>1, <3>1, SameCount DEF AllWithin, Hints!Bounded
  <2>. QED
    BY <2>2, <2>3, <2>4 DEF LimitsHold
<1>. QED
  BY <1>1, WithinHolds, PTL

\* A step within a limit is a step of CheckThenAct or a stutter.
LEMMA AbstractStep ==
  ASSUME NEW S, NEW T, NEW P, NEW Q, NEW L, Within(S, P, L), LimitStep(S, T, P, Q, L)
  PROVE  \/ Cardinality(T) = Cardinality(S) /\ Q = P
         \/ Cardinality(S) > 0 /\ Cardinality(T) = Cardinality(S) - 1 /\ Q = P
         \/ \E p \in Procs :
              \/ p \notin P /\ Cardinality(S) < L /\ Q = P \cup {p}
                 /\ Cardinality(T) = Cardinality(S)
              \/ p \in P /\ Q = P \ {p} /\ Cardinality(T) \in {Cardinality(S), Cardinality(S) + 1}
<1>0. IsFiniteSet(S) /\ Cardinality(S) \in Nat /\ P \subseteq Procs
  BY FS_CardinalityType DEF Within
<1>1. CASE P = Q /\ (T = S \/ \E x : T = S \ {x})
  <2>1. CASE T = S
    BY <1>1, <2>1
  <2>2. CASE \E x : T = S \ {x}
    <3>1. PICK x : T = S \ {x}
      BY <2>2
    <3>2. /\ Cardinality(T) = IF x \in S THEN Cardinality(S) - 1 ELSE Cardinality(S)
          /\ Cardinality(T) \in Nat
      BY <1>0, <3>1, FS_RemoveElement, FS_CardinalityType
    <3>. QED
      BY <1>0, <1>1, <3>2
  <2>. QED
    BY <1>1, <2>1, <2>2
<1>2. CASE T = S /\ Cardinality(S) < L /\ \E w \in Procs : Q = P \cup {w}
  <2>1. PICK w \in Procs : Q = P \cup {w}
    BY <1>2
  <2>2. CASE w \in P
    BY <1>2, <2>1, <2>2
  <2>3. CASE w \notin P
    BY <1>2, <2>1, <2>3
  <2>. QED
    BY <2>2, <2>3
<1>3. CASE \E w \in P : Q = P \ {w} /\ (T = S \/ \E x : T = S \cup {x})
  <2>1. PICK w \in P : Q = P \ {w} /\ (T = S \/ \E x : T = S \cup {x})
    BY <1>3
  <2>2. Cardinality(T) \in {Cardinality(S), Cardinality(S) + 1}
    BY <1>0, <2>1, FS_AddElement
  <2>. QED
    BY <1>0, <2>1, <2>2
<1>. QED
  BY <1>1, <1>2, <1>3 DEF LimitStep

\* Each of the three limits is implemented as CheckThenAct promises.
THEOREM LimitsAreImplemented == Spec => EachIsALimit
<1>1. Init => InProgress!Init /\ InAll!Init /\ Hints!Init
  <2> SUFFICES ASSUME Init PROVE InProgress!Init /\ InAll!Init /\ Hints!Init
    OBVIOUS
  <2>1. Pending = {} /\ Used = {} /\ Hinted = {}
    BY IdleTyped DEF Init, SubmittingInit, Pending, Used, Hinted
  <2>2. /\ {w \in Procs : proc[w].at \in {"limit", "create"}} = {}
        /\ {w \in Procs : proc[w].at = "create"} = {}
        /\ {w \in Procs : proc[w].at = "grant"} = {}
    BY IdleTyped DEF Init, SubmittingInit
  <2>3. Cardinality({}) = 0
    BY FS_EmptySet
  <2>. QED
    BY <2>1, <2>2, <2>3, SameCount DEF InProgress!Init, InAll!Init, Hints!Init
<1>2. ASSUME IInv, Ended, AllWithin, [Next]_<<svars, requests, cvars>>
      PROVE  /\ [InProgress!Next]_<<Cardinality(Pending),
                                   {w \in Procs : proc[w].at \in {"limit", "create"}}>>
             /\ [InAll!Next]_<<Cardinality(Used), {w \in Procs : proc[w].at = "create"}>>
             /\ [Hints!Next]_<<Cardinality(Hinted),
                              {w \in Procs : proc[w].at = "grant"}>>
  <2>1. LimitSteps
    BY <1>2, CommentsApart, EveryStepOfLimits
  <2>2. /\ Passed({"limit", "create"}) = {w \in Procs : proc[w].at \in {"limit", "create"}}
        /\ Passed({"create"}) = {w \in Procs : proc[w].at = "create"}
        /\ Passed({"grant"}) = {w \in Procs : proc[w].at = "grant"}
    BY DEF Passed
  <2>3. /\ Passed({"limit", "create"})' = {w \in Procs : proc[w].at \in {"limit", "create"}}'
        /\ Passed({"create"})' = {w \in Procs : proc[w].at = "create"}'
        /\ Passed({"grant"})' = {w \in Procs : proc[w].at = "grant"}'
    BY DEF Passed
  <2>4. [InProgress!Next]_<<Cardinality(Pending),
                           {w \in Procs : proc[w].at \in {"limit", "create"}}>>
    BY <1>2, <2>1, <2>2, <2>3, AbstractStep, SameCount
       DEF AllWithin, LimitSteps, InProgress!Next, InProgress!Check, InProgress!Act,
           InProgress!GiveUp, InProgress!Release
  <2>5. [InAll!Next]_<<Cardinality(Used), {w \in Procs : proc[w].at = "create"}>>
    BY <1>2, <2>1, <2>2, <2>3, AbstractStep, SameCount
       DEF AllWithin, LimitSteps, InAll!Next, InAll!Check, InAll!Act, InAll!GiveUp,
           InAll!Release
  <2>6. [Hints!Next]_<<Cardinality(Hinted), {w \in Procs : proc[w].at = "grant"}>>
    BY <1>2, <2>1, <2>2, <2>3, AbstractStep, SameCount
       DEF AllWithin, LimitSteps, Hints!Next, Hints!Check, Hints!Act,
           Hints!GiveUp, Hints!Release
  <2>. QED
    BY <2>4, <2>5, <2>6
<1>. QED
  BY <1>1, <1>2, WithinHolds, PTL DEF Spec, EachIsALimit, InProgress!Spec, InAll!Spec,
     Hints!Spec

-----------------------------------------------------------------------------
(* The tally of the votes on a comment *)

Voting == {"save", "add", "lock", "delete", "subtract"}

\* A vote is of one point; whoever deletes one holds the lock and has read it.
Visits ==
  /\ \A h \in Visitors : visit[h].at # "away" => visit[h].comment \in Topics
  /\ \A h \in Visitors : visit[h].at \in Voting => visit[h].delta \in {-1, 1}
  /\ \A h \in Visitors : visit[h].at = "delete" => Mine(h) = -visit[h].delta
  /\ \A h, k \in Visitors : visit[h].at = "delete" /\ visit[k].at = "delete" => h = k

\* The requests that have changed a row and not yet added its delta.
Owing(c, d) ==
  {h \in Visitors : visit[h].at \in {"add", "subtract"} /\ visit[h].comment = c /\ visit[h].delta = d}
VotesOf(c, d) == {v \in Voters : votes[c][v] = d}
Owed(c, d) == Cardinality(Owing(c, d))

Tally ==
  \A c \in Topics \ overwritten :
    score[c] + Owed(c, 1) - Owed(c, -1) = Count(c, 1) - Count(c, -1)

VisitType == [at : {"away", "save", "add", "lock", "delete", "subtract", "edit"},
              comment : Topics \cup {NoCase}, delta : Int, hidden : BOOLEAN]

VoteTypes ==
  /\ votes \in [Topics -> [Voters -> {-1, 0, 1}]]
  /\ score \in [Topics -> Int] /\ hidden \in [Topics -> BOOLEAN]
  /\ visit \in [Visitors -> VisitType]
  /\ overwritten \subseteq Topics

TallyInv == VoteTypes /\ Visits /\ Tally

\* Every visitor votes as somebody.
LEMMA VoterOf == \A h \in Visitors : Voter[h] \in Voters
BY DEF Voters

\* Votes and debts can be counted.
LEMMA CountsFinite ==
  ASSUME NEW c, NEW d
  PROVE  /\ IsFiniteSet(Owing(c, d)) /\ Owed(c, d) \in Nat /\ Owed(c, d)' \in Nat
         /\ IsFiniteSet(VotesOf(c, d)) /\ Count(c, d) \in Nat /\ Count(c, d)' \in Nat
         /\ Count(c, d) = Cardinality(VotesOf(c, d))
<1>1. IsFiniteSet(Voters)
  <2> DEFINE f == [h \in Visitors |-> Voter[h]]
  <2>1. f \in Surjection(Visitors, Voters)
    BY DEF Surjection, Voters
  <2> QED
    BY <2>1, VisitorsAssumption, FS_Surjection
<1>2. Owing(c, d) \subseteq Visitors /\ VotesOf(c, d) \subseteq Voters
  BY DEF Owing, VotesOf
<1>3. IsFiniteSet(Owing(c, d)) /\ IsFiniteSet(VotesOf(c, d))
  BY <1>1, <1>2, VisitorsAssumption, FS_Subset
<1>4. Count(c, d) = Cardinality(VotesOf(c, d))
  BY DEF Count, VotesOf
<1>5. Owing(c, d)' \subseteq Visitors /\ {v \in Voters : votes'[c][v] = d} \subseteq Voters
  BY DEF Owing
<1>6. Count(c, d)' = Cardinality({v \in Voters : votes'[c][v] = d})
  BY DEF Count, Voters
<1>7. Owed(c, d)' \in Nat /\ Count(c, d)' \in Nat
  BY <1>1, <1>5, <1>6, VisitorsAssumption, FS_Subset, FS_CardinalityType DEF Owed
<1> QED
  BY <1>3, <1>4, <1>7, FS_CardinalityType DEF Owed

\* One element more or less changes a count by one.
LEMMA Joins ==
  ASSUME NEW S, IsFiniteSet(S), NEW x
  PROVE  /\ x \notin S => Cardinality(S \cup {x}) = Cardinality(S) + 1
         /\ x \in S => Cardinality(S \ {x}) = Cardinality(S) - 1
         /\ Cardinality(S) \in Nat
BY FS_AddElement, FS_RemoveElement, FS_CardinalityType

\* One set of votes grows and another shrinks by the voter of h.
LEMMA VoteChanges ==
  ASSUME TallyInv, NEW h \in Visitors, visit[h].at \in Voting, NEW x \in {-1, 0, 1}, x # Mine(h),
         votes' = [votes EXCEPT ![visit[h].comment][Voter[h]] = x]
  PROVE  \A c \in Topics, d \in {-1, 1} :
           Count(c, d)' = Count(c, d)
             + (IF c = visit[h].comment /\ d = x THEN 1 ELSE 0)
             - (IF c = visit[h].comment /\ d = Mine(h) THEN 1 ELSE 0)
<1> SUFFICES ASSUME NEW c \in Topics, NEW d \in {-1, 1}
             PROVE  Count(c, d)' = Count(c, d)
                      + (IF c = visit[h].comment /\ d = x THEN 1 ELSE 0)
                      - (IF c = visit[h].comment /\ d = Mine(h) THEN 1 ELSE 0)
  OBVIOUS
<1> DEFINE v == Voter[h]
<1>1. visit[h].comment \in Topics /\ v \in Voters /\ votes \in [Topics -> [Voters -> {-1, 0, 1}]]
  BY VoterOf DEF TallyInv, Visits, VoteTypes, Voting
<1>2. IsFiniteSet(VotesOf(c, d)) /\ Count(c, d) \in Nat /\ Count(c, d) = Cardinality(VotesOf(c, d))
  BY CountsFinite
<1>3. VotesOf(c, d)' = {w \in Voters : votes'[c][w] = d} /\ Count(c, d)' = Cardinality(VotesOf(c, d)')
  <2>1. Count(c, d)' = Cardinality({w \in Voters : votes'[c][w] = d})
    BY DEF Count, Voters
  <2>2. VotesOf(c, d)' = {w \in Voters : votes'[c][w] = d}
    BY DEF VotesOf, Voters
  <2> QED
    BY <2>1, <2>2
<1>4. CASE c # visit[h].comment
  <2>1. votes'[c] = votes[c]
    BY <1>1, <1>4
  <2>2. Count(c, d)' = Count(c, d)
    BY <1>2, <1>3, <2>1 DEF VotesOf
  <2> QED
    BY <1>2, <1>4, <2>2
<1>5. CASE c = visit[h].comment
  <2>1. votes'[c] = [votes[c] EXCEPT ![v] = x]
    BY <1>1, <1>5
  <2>2. Mine(h) = votes[c][v]
    BY <1>5 DEF Mine
  <2>3. CASE d = x
    <3>1. VotesOf(c, d)' = VotesOf(c, d) \cup {v} /\ v \notin VotesOf(c, d)
      BY <1>1, <1>3, <2>1, <2>2, <2>3 DEF VotesOf
    <3>2. Count(c, d)' = Count(c, d) + 1
      BY <1>2, <1>3, <3>1, Joins
    <3> QED
      BY <1>2, <1>5, <2>3, <3>2
  <2>4. CASE d = Mine(h)
    <3>1. VotesOf(c, d)' = VotesOf(c, d) \ {v} /\ v \in VotesOf(c, d)
      BY <1>1, <1>3, <2>1, <2>2, <2>4 DEF VotesOf
    <3>2. Count(c, d)' = Count(c, d) - 1
      BY <1>2, <1>3, <3>1, Joins
    <3> QED
      BY <1>2, <1>5, <2>4, <3>2
  <2>5. CASE d # x /\ d # Mine(h)
    <3>1. VotesOf(c, d)' = VotesOf(c, d)
      BY <1>1, <1>3, <2>1, <2>2, <2>5 DEF VotesOf
    <3>2. Count(c, d)' = Count(c, d)
      BY <1>2, <1>3, <3>1
    <3> QED
      BY <1>2, <2>5, <3>2
  <2> QED
    BY <2>3, <2>4, <2>5
<1> QED
  BY <1>4, <1>5

\* A request that starts or ends to owe its delta changes one set of debtors.
LEMMA DebtBegins ==
  ASSUME TallyInv, NEW h \in Visitors, NEW at \in {"add", "subtract"},
         visit[h].at \in {"save", "delete"}, Moves(h, at)
  PROVE  \A c \in Topics, d \in {-1, 1} :
           Owed(c, d)' = IF c = visit[h].comment /\ d = visit[h].delta THEN Owed(c, d) + 1 ELSE Owed(c, d)
<1> SUFFICES ASSUME NEW c \in Topics, NEW d \in {-1, 1}
             PROVE  Owed(c, d)' = IF c = visit[h].comment /\ d = visit[h].delta
                                    THEN Owed(c, d) + 1 ELSE Owed(c, d)
  OBVIOUS
<1>1. visit' = [visit EXCEPT ![h] = [visit[h] EXCEPT !.at = at]]
  BY DEF Moves
<1>2. Owing(c, d)' = IF c = visit[h].comment /\ d = visit[h].delta
                     THEN Owing(c, d) \cup {h} ELSE Owing(c, d)
  BY <1>1 DEF Owing, TallyInv, VoteTypes, VisitType
<1>3. h \notin Owing(c, d)
  BY DEF Owing
<1>4. IsFiniteSet(Owing(c, d)) /\ Owed(c, d) = Cardinality(Owing(c, d)) /\ Owed(c, d)' = Cardinality(Owing(c, d)')
  BY CountsFinite DEF Owed
<1>5. CASE c = visit[h].comment /\ d = visit[h].delta
  BY <1>2, <1>3, <1>4, <1>5, Joins
<1>6. CASE ~(c = visit[h].comment /\ d = visit[h].delta)
  BY <1>2, <1>4, <1>6, Joins
<1> QED
  BY <1>5, <1>6

\* A request that changed the score owes nothing any more.
LEMMA DebtEnds ==
  ASSUME TallyInv, NEW h \in Visitors, visit[h].at \in {"add", "subtract"}, GoesAway(h)
  PROVE  \A c \in Topics, d \in {-1, 1} :
           Owed(c, d)' = IF c = visit[h].comment /\ d = visit[h].delta THEN Owed(c, d) - 1 ELSE Owed(c, d)
<1> SUFFICES ASSUME NEW c \in Topics, NEW d \in {-1, 1}
             PROVE  Owed(c, d)' = IF c = visit[h].comment /\ d = visit[h].delta
                                    THEN Owed(c, d) - 1 ELSE Owed(c, d)
  OBVIOUS
<1>1. visit' = [visit EXCEPT ![h] = Away]
  BY DEF GoesAway
<1>2. Owing(c, d)' = Owing(c, d) \ {h}
  BY <1>1 DEF Owing, TallyInv, VoteTypes, VisitType, Away
<1>3. h \in Owing(c, d) <=> c = visit[h].comment /\ d = visit[h].delta
  BY DEF Owing
<1>4. IsFiniteSet(Owing(c, d)) /\ Owed(c, d) = Cardinality(Owing(c, d)) /\ Owed(c, d)' = Cardinality(Owing(c, d)')
  BY CountsFinite DEF Owed
<1>5. CASE h \in Owing(c, d)
  <2>1. Owed(c, d)' = Owed(c, d) - 1
    BY <1>2, <1>4, <1>5, Joins
  <2> QED
    BY <1>3, <1>5, <2>1
<1>6. CASE h \notin Owing(c, d)
  <2>1. Owed(c, d)' = Owed(c, d) /\ Owed(c, d) \in Nat
    BY <1>2, <1>4, <1>6, Joins
  <2> QED
    BY <1>3, <1>6, <2>1
<1> QED
  BY <1>5, <1>6

\* A request that owes nothing may go wherever it will owe nothing.
LEMMA NoDebt ==
  ASSUME TallyInv, NEW h \in Visitors, NEW r, r.at \notin {"add", "subtract"},
         visit[h].at \notin {"add", "subtract"}, visit' = [visit EXCEPT ![h] = r]
  PROVE  \A c, d : Owed(c, d)' = Owed(c, d)
<1>1. \A c, d : Owing(c, d)' = Owing(c, d)
  BY DEF Owing, TallyInv, VoteTypes, VisitType
<1> QED
  BY <1>1 DEF Owed
-----------------------------------------------------------------------------
\* A visit that moves on is about the same vote.
LEMMA VisitFields ==
  ASSUME NEW r \in VisitType, NEW at \in Voting
  PROVE  /\ [r EXCEPT !.at = at] \in VisitType /\ [r EXCEPT !.at = at].at = at
         /\ [r EXCEPT !.at = at].comment = r.comment /\ [r EXCEPT !.at = at].delta = r.delta
BY DEF VisitType, Voting

\* Nobody's visit is well typed.
LEMMA AwayTyped == Away \in VisitType /\ Away.at = "away"
BY DEF Away, VisitType

\* The visit of h becomes r, and the rows keep their types.
LEMMA TypesStep ==
  ASSUME VoteTypes, NEW h \in Visitors, NEW r \in VisitType, visit' = [visit EXCEPT ![h] = r],
         votes' \in [Topics -> [Voters -> {-1, 0, 1}]], score' \in [Topics -> Int],
         hidden' \in [Topics -> BOOLEAN], overwritten' \subseteq Topics
  PROVE  VoteTypes' /\ visit' \in [Visitors -> VisitType] /\ visit'[h] = r
                /\ \A k \in Visitors \ {h} : visit'[k] = visit[k]
<1>1. VisitType' = VisitType /\ Voters' = Voters
  BY DEF VisitType, Voters
<1>2. visit \in [Visitors -> VisitType]
  BY DEF VoteTypes
<1> QED
  BY <1>1, <1>2 DEF VoteTypes

\* A request that moves on stays well typed.
LEMMA MovesStep ==
  ASSUME VoteTypes, NEW h \in Visitors, NEW at \in Voting, Moves(h, at)
  PROVE  /\ visit' = [visit EXCEPT ![h] = [visit[h] EXCEPT !.at = at]]
         /\ [visit[h] EXCEPT !.at = at] \in VisitType
         /\ visit'[h].at = at /\ visit'[h].comment = visit[h].comment
         /\ visit'[h].delta = visit[h].delta
         /\ \A k \in Visitors \ {h} : visit'[k] = visit[k]
<1>1. visit' = [visit EXCEPT ![h] = [visit[h] EXCEPT !.at = at]]
  BY DEF Moves
<1>2. visit \in [Visitors -> VisitType] /\ visit[h] \in VisitType
  BY DEF VoteTypes
<1>3. visit'[h] = [visit[h] EXCEPT !.at = at] /\ \A k \in Visitors \ {h} : visit'[k] = visit[k]
  BY <1>1, <1>2
<1> QED
  BY <1>1, <1>2, <1>3, VisitFields

\* At first nobody has voted.
LEMMA TallyInit == ASSUME CommentsInit PROVE TallyInv
<1>1. visit = [h \in Visitors |-> Away] /\ \A h \in Visitors : visit[h].at = "away"
  BY AwayTyped DEF CommentsInit
<1>2. VoteTypes
  BY <1>1, AwayTyped DEF CommentsInit, VoteTypes
<1>3. Visits
  BY <1>1 DEF Visits, Voting
<1>4. ASSUME NEW c \in Topics, NEW d \in {-1, 1} PROVE Owed(c, d) = 0 /\ Count(c, d) = 0
  <2>1. Owing(c, d) = {} /\ VotesOf(c, d) = {}
    BY <1>1 DEF CommentsInit, Owing, VotesOf
  <2> QED
    BY <2>1, CountsFinite, FS_EmptySet DEF Owed
<1>5. Tally
  BY <1>4 DEF Tally, CommentsInit
<1> QED
  BY <1>2, <1>3, <1>5 DEF TallyInv

\* What a request decides about comments, votes or itself keeps the tally as
\* long as it owes nothing.
LEMMA DebtlessStep ==
  ASSUME TallyInv, UNCHANGED <<votes, score, overwritten>>,
         \A c, d : Owed(c, d)' = Owed(c, d)
  PROVE  Tally'
<1>1. \A c, d : Count(c, d)' = Count(c, d)
  BY DEF Count, Voters
<1> QED
  BY <1>1 DEF TallyInv, Tally

\* The request for a vote changes nothing yet.
LEMMA VoteKeeps ==
  ASSUME TallyInv, NEW h \in Visitors, NEW c \in Topics, NEW d \in {-1, 1}, Vote(h, c, d)
  PROVE  TallyInv'
<1> DEFINE r == [at |-> "save", comment |-> c, delta |-> d, hidden |-> FALSE]
<1>1. visit' = [visit EXCEPT ![h] = r] /\ visit[h].at = "away"
  BY AwayTyped DEF Vote
<1>2. r \in VisitType /\ r.at = "save" /\ r.comment = c /\ r.delta = d
  BY DEF VisitType
<1>a. /\ VoteTypes' /\ visit'[h] = r
      /\ \A k \in Visitors \ {h} : visit'[k] = visit[k]
  <2>1. UNCHANGED <<votes, score, hidden, overwritten>>
    BY DEF Vote
  <2>2. VoteTypes
    BY DEF TallyInv
  <2>3. /\ votes' \in [Topics -> [Voters -> {-1, 0, 1}]] /\ score' \in [Topics -> Int]
        /\ hidden' \in [Topics -> BOOLEAN] /\ overwritten' \subseteq Topics
    BY <2>1, <2>2 DEF VoteTypes
  <2> HIDE DEF r
  <2> QED
    BY <1>1, <1>2, <2>2, <2>3, TypesStep
<1>3. Visits'
  <2> HIDE DEF r
  <2> QED
    BY <1>1, <1>2, <1>a DEF TallyInv, Visits, Voting, Mine, Vote
<1>4. \A t, e : Owed(t, e)' = Owed(t, e)
  <2> HIDE DEF r
  <2> QED
    BY <1>1, <1>2, NoDebt
<1> QED
  BY <1>a, <1>3, <1>4, DebtlessStep DEF TallyInv, Vote

\* Moving on without touching any row.
LEMMA MovesOn ==
  ASSUME TallyInv, NEW h \in Visitors, NEW at \in {"save", "lock", "delete"}, Moves(h, at),
         visit[h].at \in {"save", "lock"}, UNCHANGED <<votes, score, hidden, overwritten>>,
         \A k \in Visitors : visit[k].at # "delete",
         at = "delete" => Mine(h) = -visit[h].delta
  PROVE  TallyInv'
<1>1. VoteTypes /\ visit[h].comment \in Topics /\ visit[h].delta \in {-1, 1}
  BY DEF TallyInv, Visits, Voting
<1>2. at \in Voting
  BY DEF Voting
<1>3. /\ votes' \in [Topics -> [Voters -> {-1, 0, 1}]] /\ score' \in [Topics -> Int]
      /\ hidden' \in [Topics -> BOOLEAN] /\ overwritten' \subseteq Topics
  BY <1>1 DEF VoteTypes
<1>a. /\ visit' = [visit EXCEPT ![h] = [visit[h] EXCEPT !.at = at]]
      /\ [visit[h] EXCEPT !.at = at] \in VisitType
  BY <1>1, <1>2, MovesStep
<1>4. VoteTypes'
  BY <1>1, <1>3, <1>a, TypesStep
<1>b. visit[h] \in VisitType
  BY <1>1 DEF VoteTypes
<1>c. [visit[h] EXCEPT !.at = at].at = at
  BY <1>2, <1>b, VisitFields
<1>d. /\ visit' = [visit EXCEPT ![h] = [visit[h] EXCEPT !.at = at]]
      /\ visit'[h].at = at /\ visit'[h].comment = visit[h].comment
      /\ visit'[h].delta = visit[h].delta
      /\ \A k \in Visitors \ {h} : visit'[k] = visit[k]
  BY <1>1, <1>2, MovesStep
<1>5. Visits'
  <2>1. /\ visit'[h].at = at /\ visit'[h].comment = visit[h].comment
        /\ visit'[h].delta = visit[h].delta
        /\ \A k \in Visitors \ {h} : visit'[k] = visit[k]
    BY <1>d
  <2>2. votes' = votes
    OBVIOUS
  <2> QED
    BY <1>1, <1>2, <2>1, <2>2 DEF TallyInv, Visits, Voting, Mine
<1>6. \A c, d : Owed(c, d)' = Owed(c, d)
  BY <1>1, <1>d, <1>c, NoDebt
<1> QED
  BY <1>4, <1>5, <1>6, DebtlessStep DEF TallyInv

\* Going away without owing anything.
LEMMA EndsVisit ==
  ASSUME TallyInv, NEW h \in Visitors, GoesAway(h), UNCHANGED votes,
         score' \in [Topics -> Int], hidden' \in [Topics -> BOOLEAN], overwritten' \subseteq Topics
  PROVE  VoteTypes' /\ Visits'
<1>1. VoteTypes /\ votes' \in [Topics -> [Voters -> {-1, 0, 1}]] /\ visit' = [visit EXCEPT ![h] = Away]
  BY DEF TallyInv, VoteTypes, GoesAway
<1>2. VoteTypes' /\ visit'[h] = Away /\ \A k \in Visitors \ {h} : visit'[k] = visit[k]
  BY <1>1, AwayTyped, TypesStep
<1>3. Visits'
  BY <1>2, AwayTyped DEF TallyInv, Visits, Voting, Mine
<1> QED
  BY <1>2, <1>3

\* A vote is written and the request goes on to add or subtract its point.
LEMMA WritesVote ==
  ASSUME TallyInv, NEW h \in Visitors, NEW at \in {"add", "subtract"}, NEW x \in {-1, 0, 1},
         visit[h].at \in {"save", "delete"}, Moves(h, at),
         \A k \in Visitors \ {h} : visit[k].at # "delete",
         votes' = [votes EXCEPT ![visit[h].comment][Voter[h]] = x], x = Mine(h) + visit[h].delta,
         UNCHANGED <<score, hidden, overwritten>>
  PROVE  TallyInv'
<1>1. /\ VoteTypes /\ visit[h].at \in Voting /\ visit[h].comment \in Topics
      /\ visit[h].delta \in {-1, 1} /\ Voter[h] \in Voters /\ at \in Voting
  BY VoterOf DEF TallyInv, Visits, Voting
<1>2. Mine(h) \in {-1, 0, 1} /\ x # Mine(h)
  BY <1>1 DEF VoteTypes, Mine
<1>3. VoteTypes'
  <2>1. votes' \in [Topics -> [Voters -> {-1, 0, 1}]]
    BY <1>1 DEF VoteTypes
  <2>2. score' \in [Topics -> Int] /\ hidden' \in [Topics -> BOOLEAN] /\ overwritten' \subseteq Topics
    BY <1>1 DEF VoteTypes
  <2> QED
    BY <1>1, <2>1, <2>2, MovesStep, TypesStep
<1>4. Visits'
  <2>1. /\ visit'[h].at = at /\ visit'[h].comment = visit[h].comment
        /\ visit'[h].delta = visit[h].delta
        /\ \A k \in Visitors \ {h} : visit'[k] = visit[k]
    BY <1>1, MovesStep
  <2>2. \A k \in Visitors : visit'[k].at # "delete"
    BY <2>1
  <2> QED
    BY <1>1, <2>1, <2>2 DEF TallyInv, Visits, Voting
<1>b. \A c \in Topics, d \in {-1, 1} : Count(c, d)' = Count(c, d)
             + (IF c = visit[h].comment /\ d = x THEN 1 ELSE 0)
             - (IF c = visit[h].comment /\ d = Mine(h) THEN 1 ELSE 0)
  BY <1>1, <1>2, VoteChanges
<1>5. ASSUME NEW c \in Topics
      PROVE  Count(c, 1)' - Count(c, -1)' - Owed(c, 1)' + Owed(c, -1)'
               = Count(c, 1) - Count(c, -1) - Owed(c, 1) + Owed(c, -1)
  <2>1. \A d \in {-1, 1} : Owed(c, d)' = IF c = visit[h].comment /\ d = visit[h].delta
                                          THEN Owed(c, d) + 1 ELSE Owed(c, d)
    BY <1>1, DebtBegins
  <2>2. \A d \in {-1, 1} : Count(c, d)' = Count(c, d)
             + (IF c = visit[h].comment /\ d = x THEN 1 ELSE 0)
             - (IF c = visit[h].comment /\ d = Mine(h) THEN 1 ELSE 0)
    BY <1>b
  <2>3. /\ Owed(c, 1) \in Nat /\ Owed(c, -1) \in Nat
        /\ Count(c, 1) \in Nat /\ Count(c, -1) \in Nat
    BY CountsFinite
  <2>4. CASE c # visit[h].comment
    BY <2>1, <2>2, <2>3, <2>4
  <2>5. CASE c = visit[h].comment
    BY <1>1, <1>2, <2>1, <2>2, <2>3, <2>5
  <2> QED
    BY <2>4, <2>5
<1>6. Tally'
  <2> SUFFICES ASSUME NEW c \in Topics \ overwritten
               PROVE  score[c] + Owed(c, 1)' - Owed(c, -1)' = Count(c, 1)' - Count(c, -1)'
    BY DEF Tally
  <2>1. /\ Owed(c, 1) \in Nat /\ Owed(c, -1) \in Nat /\ Count(c, 1) \in Nat /\ Count(c, -1) \in Nat
        /\ Owed(c, 1)' \in Nat /\ Owed(c, -1)' \in Nat /\ Count(c, 1)' \in Nat /\ Count(c, -1)' \in Nat
    BY CountsFinite
  <2>2. score[c] \in Int /\ score[c] + Owed(c, 1) - Owed(c, -1) = Count(c, 1) - Count(c, -1)
    BY <1>1 DEF TallyInv, Tally, VoteTypes
  <2> QED
    BY <1>5, <2>1, <2>2
<1> QED
  BY <1>3, <1>4, <1>6 DEF TallyInv

\* The row of a vote is saved, or there is one already.
LEMMA SaveVoteKeeps ==
  ASSUME TallyInv, NEW h \in Visitors, SaveVote(h)
  PROVE  TallyInv'
<1>1. visit[h].at = "save" /\ visit[h].delta \in {-1, 1}
  BY DEF SaveVote, TallyInv, Visits, Voting
<1>2. \A k \in Visitors : visit[k].at # "delete"
  BY DEF SaveVote, TableLocked
<1>3. CASE Mine(h) = 0
  <2>1. /\ votes' = [votes EXCEPT ![visit[h].comment][Voter[h]] = visit[h].delta]
        /\ Moves(h, "add") /\ UNCHANGED <<score, hidden, overwritten>>
    BY <1>3 DEF SaveVote
  <2>2. visit[h].delta = Mine(h) + visit[h].delta /\ visit[h].delta \in {-1, 0, 1}
    BY <1>1, <1>3
  <2> QED
    BY <1>1, <1>2, <2>1, <2>2, WritesVote
<1>4. CASE Mine(h) # 0
  BY <1>1, <1>2, <1>4, MovesOn DEF SaveVote
<1> QED
  BY <1>3, <1>4

\* The row that is there is locked and read.
LEMMA ReadVoteKeeps ==
  ASSUME TallyInv, NEW h \in Visitors, ReadVote(h)
  PROVE  TallyInv'
<1>1. visit[h].at = "lock"
  BY DEF ReadVote
<1>2. \A k \in Visitors : visit[k].at # "delete"
  BY DEF ReadVote, TableLocked
<1>3. UNCHANGED <<votes, score, hidden, overwritten>>
  BY DEF ReadVote
<1>4. CASE GoesAway(h)
  <2>1. VoteTypes' /\ Visits'
    BY <1>3, <1>4, EndsVisit DEF TallyInv, VoteTypes
  <2>2. \A c, d : Owed(c, d)' = Owed(c, d)
    BY <1>1, <1>4, AwayTyped, NoDebt DEF GoesAway
  <2> QED
    BY <1>3, <2>1, <2>2, DebtlessStep DEF TallyInv
<1>5. CASE Mine(h) = 0 /\ Moves(h, "save")
  BY <1>1, <1>2, <1>3, <1>5, MovesOn
<1>6. CASE Mine(h) = -visit[h].delta /\ Moves(h, "delete")
  BY <1>1, <1>2, <1>3, <1>6, MovesOn
<1> QED
  BY <1>4, <1>5, <1>6 DEF ReadVote

\* A vote against it deletes the row.
LEMMA DeleteVoteKeeps ==
  ASSUME TallyInv, NEW h \in Visitors, DeleteVote(h)
  PROVE  TallyInv'
<1>1. visit[h].at = "delete" /\ visit[h].delta \in {-1, 1} /\ Mine(h) = -visit[h].delta
  BY DEF DeleteVote, TallyInv, Visits, Voting
<1>2. \A k \in Visitors \ {h} : visit[k].at # "delete"
  BY <1>1 DEF TallyInv, Visits
<1>3. /\ votes' = [votes EXCEPT ![visit[h].comment][Voter[h]] = 0]
      /\ Moves(h, "subtract") /\ UNCHANGED <<score, hidden, overwritten>>
  BY DEF DeleteVote
<1>4. 0 = Mine(h) + visit[h].delta
  BY <1>1
<1> QED
  BY <1>1, <1>2, <1>3, <1>4, WritesVote

\* The UPDATE of the score pays the debt.
LEMMA UpdateScoreKeeps ==
  ASSUME TallyInv, NEW h \in Visitors, UpdateScore(h)
  PROVE  TallyInv'
<1>1. /\ visit[h].at \in {"add", "subtract"} /\ VoteTypes
      /\ visit[h].comment \in Topics /\ visit[h].delta \in {-1, 1}
  BY DEF UpdateScore, TallyInv, Visits, Voting
<1>2. score' = [score EXCEPT ![visit[h].comment] = @ + visit[h].delta]
  BY <1>1 DEF UpdateScore, VoteTypes
<1>3. GoesAway(h) /\ UNCHANGED <<votes, hidden, overwritten>>
  BY DEF UpdateScore
<1>4. score' \in [Topics -> Int] /\ hidden' \in [Topics -> BOOLEAN] /\ overwritten' \subseteq Topics
  BY <1>1, <1>2, <1>3 DEF VoteTypes
<1>5. VoteTypes' /\ Visits'
  BY <1>3, <1>4, EndsVisit
<1>6. ASSUME NEW c \in Topics
      PROVE  score'[c] + Owed(c, 1)' - Owed(c, -1)' = score[c] + Owed(c, 1) - Owed(c, -1)
  <2>1. \A d \in {-1, 1} : Owed(c, d)' = IF c = visit[h].comment /\ d = visit[h].delta
                                          THEN Owed(c, d) - 1 ELSE Owed(c, d)
    BY <1>1, <1>3, DebtEnds
  <2>2. score'[c] = IF c = visit[h].comment THEN score[c] + visit[h].delta ELSE score[c]
    BY <1>1, <1>2 DEF VoteTypes
  <2>3. score[c] \in Int /\ Owed(c, 1) \in Nat /\ Owed(c, -1) \in Nat
    BY <1>1, CountsFinite DEF VoteTypes
  <2> QED
    BY <1>1, <2>1, <2>2, <2>3
<1>7. \A c, d : Count(c, d)' = Count(c, d)
  BY <1>3 DEF Count, Voters
<1>8. Tally'
  BY <1>3, <1>6, <1>7 DEF TallyInv, Tally
<1> QED
  BY <1>5, <1>8 DEF TallyInv

\* A form is opened with the score as it is.
LEMMA OpenEditKeeps ==
  ASSUME TallyInv, NEW h \in Visitors, NEW c \in Topics, OpenEdit(h, c)
  PROVE  TallyInv'
<1> DEFINE r == [at |-> "edit", comment |-> c, delta |-> score[c], hidden |-> hidden[c]]
<1>1. visit' = [visit EXCEPT ![h] = r] /\ visit[h].at = "away"
  BY AwayTyped DEF OpenEdit
<1>2. r \in VisitType /\ r.at = "edit" /\ r.comment = c
  BY DEF VisitType, TallyInv, VoteTypes
<1>3. UNCHANGED <<votes, score, hidden, overwritten>>
  BY DEF OpenEdit
<1> HIDE DEF r
<1>4. /\ VoteTypes' /\ visit'[h] = r
      /\ \A k \in Visitors \ {h} : visit'[k] = visit[k]
  <2>1. VoteTypes
    BY DEF TallyInv
  <2>2. /\ votes' \in [Topics -> [Voters -> {-1, 0, 1}]] /\ score' \in [Topics -> Int]
        /\ hidden' \in [Topics -> BOOLEAN] /\ overwritten' \subseteq Topics
    BY <1>3, <2>1 DEF VoteTypes
  <2> QED
    BY <1>1, <1>2, <2>1, <2>2, TypesStep
<1>5. Visits'
  BY <1>2, <1>3, <1>4 DEF TallyInv, Visits, Voting, Mine
<1>6. \A t, e : Owed(t, e)' = Owed(t, e)
  BY <1>1, <1>2, NoDebt
<1> QED
  BY <1>3, <1>4, <1>5, <1>6, DebtlessStep DEF TallyInv

\* A form that is saved may put the score back.
LEMMA SaveEditKeeps ==
  ASSUME TallyInv, NEW h \in Visitors, SaveEdit(h)
  PROVE  TallyInv'
<1>1. visit[h].at = "edit" /\ visit[h].comment \in Topics /\ VoteTypes
  BY DEF SaveEdit, TallyInv, Visits
<1>2. visit[h].delta \in Int /\ visit[h].hidden \in BOOLEAN
  BY <1>1 DEF VoteTypes, VisitType
<1>3. GoesAway(h) /\ UNCHANGED votes
  BY DEF SaveEdit
<1>4. /\ score' = [score EXCEPT ![visit[h].comment] = visit[h].delta]
      /\ hidden' = [hidden EXCEPT ![visit[h].comment] = visit[h].hidden]
      /\ overwritten' = IF score[visit[h].comment] # visit[h].delta
                        THEN overwritten \cup {visit[h].comment} ELSE overwritten
  BY DEF SaveEdit
<1>5. score' \in [Topics -> Int] /\ hidden' \in [Topics -> BOOLEAN] /\ overwritten' \subseteq Topics
  BY <1>1, <1>2, <1>4 DEF VoteTypes
<1>6. VoteTypes' /\ Visits'
  BY <1>3, <1>5, EndsVisit
<1>7. \A c, d : Owed(c, d)' = Owed(c, d)
  BY <1>1, <1>3, AwayTyped, NoDebt DEF GoesAway
<1>8. \A c, d : Count(c, d)' = Count(c, d)
  BY <1>3 DEF Count, Voters
<1>9. \A c \in Topics \ overwritten' : c \notin overwritten /\ score'[c] = score[c]
  BY <1>1, <1>2, <1>4 DEF VoteTypes
<1>10. Tally'
  BY <1>7, <1>8, <1>9 DEF TallyInv, Tally
<1> QED
  BY <1>6, <1>10 DEF TallyInv

\* What leaves votes and scores alone keeps the tally.
LEMMA NothingOfComments ==
  ASSUME TallyInv, UNCHANGED <<votes, score, visit, overwritten>>, hidden' \in [Topics -> BOOLEAN]
  PROVE  TallyInv'
<1>1. VoteTypes'
  BY DEF TallyInv, VoteTypes, VisitType, Voters
<1>2. Visits'
  BY DEF TallyInv, Visits, Voting, Mine
<1>3. \A c, d : Owed(c, d)' = Owed(c, d)
  BY DEF Owed, Owing
<1> QED
  BY <1>1, <1>2, <1>3, DebtlessStep DEF TallyInv

\* The tally and its debts hold in every reachable state.
LEMMA TallyHolds == Spec => []TallyInv
<1>1. Init => TallyInv
  BY TallyInit DEF Init
<1>2. TallyInv /\ [Next]_<<svars, requests, cvars>> => TallyInv'
  <2> SUFFICES ASSUME TallyInv, [Next]_<<svars, requests, cvars>> PROVE TallyInv'
    OBVIOUS
  <2>1. CASE UNCHANGED cvars
    BY <2>1, NothingOfComments DEF cvars, TallyInv, VoteTypes
  <2>2. ASSUME NEW h \in Visitors,
               SaveVote(h) \/ ReadVote(h) \/ DeleteVote(h) \/ UpdateScore(h) \/ SaveEdit(h)
        PROVE  TallyInv'
    BY <2>2, SaveVoteKeeps, ReadVoteKeeps, DeleteVoteKeeps, UpdateScoreKeeps, SaveEditKeeps
  <2>3. ASSUME NEW h \in Visitors, NEW c \in Topics, OpenEdit(h, c) PROVE TallyInv'
    BY <2>3, OpenEditKeeps
  <2>4. ASSUME NEW h \in Visitors, NEW c \in Topics, NEW d \in {-1, 1}, Vote(h, c, d)
        PROVE  TallyInv'
    BY <2>4, VoteKeeps
  <2>5. ASSUME NEW c \in Topics, Hide(c) PROVE TallyInv'
    BY <2>5, NothingOfComments DEF Hide, TallyInv, VoteTypes
  <2> QED
    BY <2>1, <2>2, <2>3, <2>4, <2>5 DEF Next, CommentsNext, cvars
<1> QED
  BY <1>1, <1>2, PTL DEF Spec

\* At rest, the score of a comment that no edit put back is its votes up without
\* its votes down: a request owes its point from the change of a row to the change
\* of the score, and at rest nobody owes any.
THEOREM TallyIsRight == Spec => []ScoreIsTally
<1>1. TallyInv => ScoreIsTally
  <2> SUFFICES ASSUME TallyInv, \A h \in Visitors : visit[h] = Away, NEW c \in Topics \ overwritten
               PROVE  score[c] = Count(c, 1) - Count(c, -1)
    BY DEF ScoreIsTally
  <2>1. Owed(c, 1) = 0 /\ Owed(c, -1) = 0
    <3>1. Owing(c, 1) = {} /\ Owing(c, -1) = {}
      BY AwayTyped DEF Owing
    <3> QED
      BY <3>1, FS_EmptySet DEF Owed
  <2>2. score[c] \in Int
    BY DEF TallyInv, VoteTypes
  <2> QED
    BY <2>1, <2>2, CountsFinite DEF TallyInv, Tally
<1> QED
  BY <1>1, TallyHolds, PTL
-----------------------------------------------------------------------------
(* Tickets: the page shows what there is *)

\* What may be left of a request: of one that files a ticket, writes a message,
\* changes the state, edits the notes.
File4 == <<"ticket", "message", "assign", "new-ticket">>
File3 == <<"message", "assign", "new-ticket">>
File2 == <<"assign", "new-ticket">>
File1 == <<"new-ticket">>
Write2 == <<"message", "tell of it">>
Write1 == <<"tell of it">>
Turn4 == <<"ticket", "tell all", "tell own", "answer">>
Turn3 == <<"tell all", "tell own", "answer">>
Turn2 == <<"tell own", "answer">>
Turn1 == <<"answer">>
Note1 == <<"ticket">>
FilePlans == {File4, File3, File2, File1}
WritePlans == {Write2, Write1}
TurnPlans == {Turn4, Turn3, Turn2, Turn1}
Plans == FilePlans \cup WritePlans \cup TurnPlans \cup {Note1}

TicketRow == [open : BOOLEAN, by : People, about : Subjects]
Errand == [todo : Plans, ticket : Tickets, row : {NoTicket} \cup TicketRow, message : Nat, mine : BOOLEAN]
ErrandShape(d) ==
  \/ d = NoErrand
  \/ d \in Errand /\ (d.row = NoTicket <=> d.todo \in WritePlans)
TicketEvent == [channel : {"tickets", "ticket"}, type : {"new-ticket", "ticket-status", "ticket-message"},
          ticket : Tickets, open : BOOLEAN, message : Nat, user : People, assignees : SUBSET People]
Numbers == Nat \cup Tickets
TabType == [at : {"none", "ask", "render", "live"}, kind : {"list", "ticket"}, ticket : Numbers, own : BOOLEAN,
        about : {"all"} \cup Subjects, open : BOOLEAN, opened : Nat, last : Nat, bare : BOOLEAN,
        shown : SUBSET Nat, rows : [Tickets -> {"none", "open", "closed"}],
        fetching : SUBSET [id : Numbers, state : {"asked", "open", "closed"}],
        passed : SUBSET Numbers, elsewhere : SUBSET Tickets]
TicketTypes ==
  /\ ticket \in [Tickets -> {NoTicket} \cup TicketRow]
  /\ assignees \in [Tickets -> SUBSET People]
  /\ messages \in Seq([ticket : Tickets, first : BOOLEAN])
  /\ posted \in Seq(TicketEvent)
  /\ DOMAIN server = Servers /\ \A s \in Servers : ErrandShape(server[s])
  /\ tab \in TabType /\ tab.last <= Len(posted) /\ tab.opened <= Len(posted)
  /\ tab.at # "live" => tab.fetching = {}
  /\ tab.at = "ask" => tab.passed = {}

\* A ticket is filed once, by one request, and until that has come to them it has
\* no first message and no assignees.
Files(s, t) == server[s].todo \in FilePlans /\ server[s].ticket = t
FilingHolds ==
  /\ \A t \in Tickets : ticket[t] = NoTicket => FirstOf(t) = {} /\ assignees[t] = {}
  /\ \A s, r \in Servers, t \in Tickets : Files(s, t) /\ Files(r, t) => s = r
  /\ \A s \in Servers, t \in Tickets : Files(s, t) =>
       /\ t \in Filed <=> server[s].todo # File4
       /\ server[s].todo \in {File4, File3} => FirstOf(t) = {}
       /\ server[s].todo \in {File4, File3, File2} => assignees[t] = {}

\* The other requests are about tickets that are filed.
ErrandHolds(d) ==
  /\ d.todo \in WritePlans => d.ticket \in Filed
  /\ d.todo = Write1 => d.message \in DOMAIN messages /\ messages[d.message].ticket = d.ticket
  /\ d.todo \in TurnPlans \cup {Note1} =>
       d.ticket \in Filed /\ d.row.by = ticket[d.ticket].by /\ d.row.about = ticket[d.ticket].about
  /\ d.mine => tab.kind = "ticket" /\ tab.at = "live" /\ tab.ticket = d.ticket
ErrandsHold == \A s \in Servers : ErrandHolds(server[s])

\* One request at a time changes a ticket that is not crossed, and knows its state.
ChangesHold ==
  \A t \in Tickets \ crossed :
    /\ \A s, r \in Changing(t) : s = r
    /\ \A s \in Changing(t) :
         /\ server[s].todo = Note1 => server[s].row = ticket[t]
         /\ server[s].todo \in {Turn3, Turn2, Turn1} => server[s].row.open = ticket[t].open

EventsHold ==
  \A i \in DOMAIN posted :
    LET e == posted[i]
        t == e.ticket
    IN  /\ t \in Filed /\ e.user = ticket[t].by /\ e.assignees \subseteq assignees[t]
        /\ e.type = "ticket-message" => e.channel = "ticket" /\ e.message \in MessagesOf(t)
        /\ e.type = "new-ticket" => e.channel = "tickets"
        /\ e.type = "ticket-status" /\ t \notin crossed =>
             e.assignees = assignees[t] /\ \A s \in Servers : ~Files(s, t)

\* The last event of a state tells it, unless the one after it is about to be posted.
IsTurn(i, c, t) == posted[i].channel = c /\ posted[i].type = "ticket-status" /\ posted[i].ticket = t
Telling(c, t) ==
  \E s \in Servers : server[s].ticket = t /\ server[s].todo \in {Turn3} \cup (IF c = "ticket" THEN {Turn2} ELSE {})
LastTold ==
  \A t \in Tickets \ crossed, c \in {"tickets", "ticket"} : \A i \in DOMAIN posted :
    IsTurn(i, c, t) /\ (\A j \in DOMAIN posted : IsTurn(j, c, t) => j <= i)
    => posted[i].open = ticket[t].open \/ Telling(c, t)

\* What is to come to the page.
Base == IF tab.at = "ask" THEN tab.opened ELSE tab.last
Awaited(c, t) == \E i \in DOMAIN posted : i > Base /\ IsTurn(i, c, t)
Fetching(id) == \E f \in tab.fetching : f.id = id
MessageComes(m) ==
  \/ \E i \in DOMAIN posted : /\ i > tab.last /\ posted[i].type = "ticket-message"
                              /\ posted[i].ticket = tab.ticket /\ posted[i].message = m
  \/ \E s \in Servers : server[s].todo = Write1 /\ server[s].ticket = tab.ticket /\ server[s].message = m
RowComes(t) ==
  \/ \E i \in DOMAIN posted : /\ i > tab.last /\ posted[i].type = "new-ticket" /\ posted[i].ticket = t
                              /\ tab.own => for_viewer(posted[i])
  \/ \E s \in Servers : Files(s, t)
TurnComes(c, t) == Awaited(c, t) \/ Telling(c, t)

\* A page of a ticket: what it has is the ticket's, what it lacks is to come, and its
\* state is the ticket's or will be told.
PageIsOf ==
  /\ tab.ticket \in Filed /\ readable(Viewer, tab.ticket)
  /\ tab.shown \subseteq MessagesOf(tab.ticket) /\ \A f \in tab.fetching : f.id \in MessagesOf(tab.ticket)
MessagesCome ==
  /\ \A m \in MessagesOf(tab.ticket) \ tab.shown : \/ Fetching(m) \/ MessageComes(m)
                                                    \/ (tab.bare /\ messages[m].first)
  /\ tab.bare \/ FirstOf(tab.ticket) # {}
PageTurns ==
  \A t \in Tickets \ (crossed \cup tab.passed) :
    tab.ticket = t => TurnComes("ticket", t) \/ tab.open = ticket[t].open
TicketTabHolds ==
  tab.kind = "ticket" /\ tab.at # "none" => PageIsOf /\ (tab.at = "live" => MessagesCome) /\ PageTurns

\* A list: what belongs there has a row or will have one, rows and those fetched
\* belong there, and their states are those of the tickets or will be told.
InList(t) == t \in Filed /\ (tab.own => own_ticket(Viewer, t))
RowsCome == \A t \in listed(tab.own, tab.about) : tab.rows[t] # "none" \/ Fetching(t) \/ RowComes(t)
RowsBelong ==
  /\ \A t \in Tickets : tab.rows[t] # "none" => InList(t) /\ readable(Viewer, t)
  /\ \A f \in tab.fetching : InList(f.id) /\ (f.state # "asked" => readable(Viewer, f.id))
RowsTurn ==
  \A t \in Tickets \ (crossed \cup tab.passed \cup tab.elsewhere) :
    \/ TurnComes("tickets", t)
    \/ /\ tab.rows[t] \in {"none", state(ticket[t].open)}
       /\ \A f \in tab.fetching : f.id = t => f.state \in {"asked", state(ticket[t].open)}
ListTabHolds == tab.kind = "list" /\ tab.at = "live" => RowsCome /\ RowsBelong /\ RowsTurn

TicketInv ==
  /\ TicketTypes /\ FilingHolds /\ ErrandsHold /\ ChangesHold /\ EventsHold /\ LastTold
  /\ TicketTabHolds /\ ListTabHolds

\* What follows the first of a few.
LEMMA TailOf4 == ASSUME NEW a, NEW b, NEW c, NEW d PROVE Tail(<<a, b, c, d>>) = <<b, c, d>>
OBVIOUS
LEMMA TailOf3 == ASSUME NEW a, NEW b, NEW c PROVE Tail(<<a, b, c>>) = <<b, c>>
OBVIOUS
LEMMA TailOf2 == ASSUME NEW a, NEW b PROVE Tail(<<a, b>>) = <<b>>
OBVIOUS

\* What each plan begins with and what is left of it after a step.
LEMMA FilePlansAre ==
  /\ Head(File4) = "ticket" /\ Tail(File4) = File3
  /\ Head(File3) = "message" /\ Tail(File3) = File2
  /\ Head(File2) = "assign" /\ Tail(File2) = File1
  /\ Head(File1) = "new-ticket"
<1>1. Head(File4) = "ticket"
  BY DEF File4
<1>2. Tail(File4) = File3
  BY TailOf4 DEF File4, File3
<1>3. Head(File3) = "message"
  BY DEF File3
<1>4. Tail(File3) = File2
  BY TailOf3 DEF File3, File2
<1>5. Head(File2) = "assign"
  BY DEF File2
<1>6. Tail(File2) = File1
  BY TailOf2 DEF File2, File1
<1>7. Head(File1) = "new-ticket"
  BY DEF File1
<1> QED
  BY <1>1, <1>2, <1>3, <1>4, <1>5, <1>6, <1>7

LEMMA TurnPlansAre ==
  /\ Head(Turn4) = "ticket" /\ Tail(Turn4) = Turn3
  /\ Head(Turn3) = "tell all" /\ Tail(Turn3) = Turn2
  /\ Head(Turn2) = "tell own" /\ Tail(Turn2) = Turn1
  /\ Head(Turn1) = "answer"
<1>1. Head(Turn4) = "ticket"
  BY DEF Turn4
<1>2. Tail(Turn4) = Turn3
  BY TailOf4 DEF Turn4, Turn3
<1>3. Head(Turn3) = "tell all"
  BY DEF Turn3
<1>4. Tail(Turn3) = Turn2
  BY TailOf3 DEF Turn3, Turn2
<1>5. Head(Turn2) = "tell own"
  BY DEF Turn2
<1>6. Tail(Turn2) = Turn1
  BY TailOf2 DEF Turn2, Turn1
<1>7. Head(Turn1) = "answer"
  BY DEF Turn1
<1> QED
  BY <1>1, <1>2, <1>3, <1>4, <1>5, <1>6, <1>7

LEMMA OtherPlansAre ==
  /\ Head(Write2) = "message" /\ Tail(Write2) = Write1
  /\ Head(Write1) = "tell of it"
  /\ Head(Note1) = "ticket"
<1>1. Head(Write2) = "message"
  BY DEF Write2
<1>2. Tail(Write2) = Write1
  BY TailOf2 DEF Write2, Write1
<1>3. Head(Write1) = "tell of it"
  BY DEF Write1
<1>4. Head(Note1) = "ticket"
  BY DEF Note1
<1> QED
  BY <1>1, <1>2, <1>3, <1>4

\* How many steps each has.
LEMMA PlanLengths ==
  /\ Len(File4) = 4 /\ Len(File3) = 3 /\ Len(File2) = 2 /\ Len(File1) = 1
  /\ Len(Turn4) = 4 /\ Len(Turn3) = 3 /\ Len(Turn2) = 2 /\ Len(Turn1) = 1
  /\ Len(Write2) = 2 /\ Len(Write1) = 1 /\ Len(Note1) = 1
  /\ Len(<<>>) = 0
<1>1. Len(File4) = 4
  BY DEF File4
<1>2. Len(File3) = 3
  BY DEF File3
<1>3. Len(File2) = 2
  BY DEF File2
<1>4. Len(File1) = 1
  BY DEF File1
<1>5. Len(Turn4) = 4
  BY DEF Turn4
<1>6. Len(Turn3) = 3
  BY DEF Turn3
<1>7. Len(Turn2) = 2
  BY DEF Turn2
<1>8. Len(Turn1) = 1
  BY DEF Turn1
<1>9. Len(Write2) = 2
  BY DEF Write2
<1>10. Len(Write1) = 1
  BY DEF Write1
<1>11. Len(Note1) = 1
  BY DEF Note1
<1> QED
  BY <1>1, <1>2, <1>3, <1>4, <1>5, <1>6, <1>7, <1>8, <1>9, <1>10, <1>11

\* No two plans are the same.
LEMMA PlansDiffer ==
  /\ File4 \notin {File3, File2, File1, Turn4, Turn3, Turn2, Turn1, Write2, Write1, Note1}
  /\ File3 \notin {File2, File1, Turn4, Turn3, Turn2, Turn1, Write2, Write1, Note1}
  /\ File2 \notin {File1, Turn4, Turn3, Turn2, Turn1, Write2, Write1, Note1}
  /\ File1 \notin {Turn4, Turn3, Turn2, Turn1, Write2, Write1, Note1}
  /\ Turn4 \notin {Turn3, Turn2, Turn1, Write2, Write1, Note1}
  /\ Turn3 \notin {Turn2, Turn1, Write2, Write1, Note1}
  /\ Turn2 \notin {Turn1, Write2, Write1, Note1}
  /\ Turn1 \notin {Write2, Write1, Note1}
  /\ Write2 \notin {Write1, Note1}
  /\ Write1 \notin {Note1}
  /\ <<>> \notin {File4, File3, File2, File1, Turn4, Turn3, Turn2, Turn1, Write2, Write1, Note1}
<1>1. File4 \notin {File3, File2, File1, Turn3, Turn2, Turn1, Write2, Write1, Note1}
  BY PlanLengths
<1>2. File4 \notin {Turn4}
  BY FilePlansAre, TurnPlansAre, OtherPlansAre
<1>3. File3 \notin {File2, File1, Turn4, Turn2, Turn1, Write2, Write1, Note1}
  BY PlanLengths
<1>4. File3 \notin {Turn3}
  BY FilePlansAre, TurnPlansAre, OtherPlansAre
<1>5. File2 \notin {File1, Turn4, Turn3, Turn1, Write1, Note1}
  BY PlanLengths
<1>6. File2 \notin {Turn2, Write2}
  BY FilePlansAre, TurnPlansAre, OtherPlansAre
<1>7. File1 \notin {Turn4, Turn3, Turn2, Write2}
  BY PlanLengths
<1>8. File1 \notin {Turn1, Write1, Note1}
  BY FilePlansAre, TurnPlansAre, OtherPlansAre
<1>9. Turn4 \notin {Turn3, Turn2, Turn1, Write2, Write1, Note1}
  BY PlanLengths
<1>10. Turn3 \notin {Turn2, Turn1, Write2, Write1, Note1}
  BY PlanLengths
<1>11. Turn2 \notin {Turn1, Write1, Note1}
  BY PlanLengths
<1>12. Turn2 \notin {Write2}
  BY FilePlansAre, TurnPlansAre, OtherPlansAre
<1>13. Turn1 \notin {Write2}
  BY PlanLengths
<1>14. Turn1 \notin {Write1, Note1}
  BY FilePlansAre, TurnPlansAre, OtherPlansAre
<1>15. Write2 \notin {Write1, Note1}
  BY PlanLengths
<1>16. Write1 \notin {Note1}
  BY FilePlansAre, TurnPlansAre, OtherPlansAre
<1>17. <<>> \notin {File4, File3, File2, File1, Turn4, Turn3, Turn2, Turn1, Write2, Write1, Note1}
  BY PlanLengths
<1> QED
  BY <1>1, <1>2, <1>3, <1>4, <1>5, <1>6, <1>7, <1>8, <1>9, <1>10, <1>11, <1>12, <1>13, <1>14, <1>15, <1>16, <1>17

PlanNames == {File4, File3, File2, File1, Write2, Write1, Turn4, Turn3, Turn2, Turn1, Note1}
LEMMA PlansNamed == Plans = PlanNames
BY DEF Plans, FilePlans, WritePlans, TurnPlans, PlanNames

\* What a request is doing is known by its plan.
LEMMA ErrandFacts ==
  ASSUME TicketTypes, NEW s \in Servers
  PROVE  /\ server[s] = NoErrand \/ server[s] \in Errand
         /\ server[s].todo = <<>> \/ server[s].todo \in PlanNames
         /\ server[s].todo = <<>> <=> server[s] = NoErrand
         /\ server[s] = NoErrand => server[s].todo = <<>> /\ ~server[s].mine
         /\ IsDoing(s, "ticket") <=> server[s].todo \in {File4, Turn4, Note1}
         /\ IsDoing(s, "message") <=> server[s].todo \in {File3, Write2}
         /\ IsDoing(s, "assign") <=> server[s].todo = File2
         /\ IsDoing(s, "new-ticket") <=> server[s].todo = File1
         /\ IsDoing(s, "tell all") <=> server[s].todo = Turn3
         /\ IsDoing(s, "tell own") <=> server[s].todo = Turn2
         /\ IsDoing(s, "tell of it") <=> server[s].todo = Write1
         /\ IsDoing(s, "answer") <=> server[s].todo = Turn1
         /\ \A t : s \in Changing(t) <=> server[s].todo \in PlanNames \ {Write2, Write1} /\ server[s].ticket = t
         /\ server[s].todo # <<>> => (server[s].row = NoTicket <=> server[s].todo \in {Write2, Write1})
<1>1. server[s] = NoErrand \/ (server[s] \in Errand /\ (server[s].row = NoTicket <=> server[s].todo \in {Write2, Write1}))
  BY DEF TicketTypes, ErrandShape, WritePlans
<1>2. NoErrand.todo = <<>> /\ NoErrand.row = NoTicket /\ ~NoErrand.mine
  BY DEF NoErrand
<1>3. server[s] \in Errand => server[s].todo \in PlanNames /\ server[s].todo # <<>>
  BY PlansDiffer, PlansNamed DEF Errand, PlanNames
<1>4. CASE server[s] = NoErrand
  <2>1. server[s].todo = <<>> /\ server[s].todo \notin PlanNames /\ server[s].row = NoTicket /\ ~server[s].mine
    BY <1>2, <1>4, PlansDiffer DEF PlanNames
  <2>2. \A step : ~IsDoing(s, step)
    BY <2>1 DEF IsDoing
  <2>3. \A t : s \notin Changing(t)
    BY <2>1 DEF Changing
  <2> QED
    BY <1>4, <2>1, <2>2, <2>3 DEF PlanNames
<1>5. CASE server[s] \in Errand
  <2>1. server[s].todo \in PlanNames /\ server[s].todo # <<>> /\ server[s] # NoErrand
    BY <1>2, <1>3, <1>5
  <2>2. \A step : IsDoing(s, step) <=> Head(server[s].todo) = step
    BY <2>1 DEF IsDoing
  <2>3. /\ IsDoing(s, "ticket") <=> server[s].todo \in {File4, Turn4, Note1}
        /\ IsDoing(s, "message") <=> server[s].todo \in {File3, Write2}
    BY <2>1, <2>2, FilePlansAre, TurnPlansAre, OtherPlansAre DEF PlanNames
  <2>4. /\ IsDoing(s, "assign") <=> server[s].todo = File2
        /\ IsDoing(s, "new-ticket") <=> server[s].todo = File1
    BY <2>1, <2>2, FilePlansAre, TurnPlansAre, OtherPlansAre DEF PlanNames
  <2>5. /\ IsDoing(s, "tell all") <=> server[s].todo = Turn3
        /\ IsDoing(s, "tell own") <=> server[s].todo = Turn2
    BY <2>1, <2>2, FilePlansAre, TurnPlansAre, OtherPlansAre DEF PlanNames
  <2>6. /\ IsDoing(s, "tell of it") <=> server[s].todo = Write1
        /\ IsDoing(s, "answer") <=> server[s].todo = Turn1
    BY <2>1, <2>2, FilePlansAre, TurnPlansAre, OtherPlansAre DEF PlanNames
  <2>7. server[s].row = NoTicket <=> server[s].todo \in {Write2, Write1}
    BY <1>1, <1>5, <2>1
  <2>8. \A t : s \in Changing(t) <=> server[s].todo \in PlanNames \ {Write2, Write1} /\ server[s].ticket = t
    BY <2>1, <2>7 DEF Changing
  <2> QED
    BY <1>5, <2>1, <2>3, <2>4, <2>5, <2>6, <2>7, <2>8
<1> QED
  BY <1>1, <1>4, <1>5

\* Rows are never lost, nor who filed a ticket or who looks after it.
RowsGrow ==
  /\ \A t \in Filed : t \in Filed' /\ ticket'[t].by = ticket[t].by /\ ticket'[t].about = ticket[t].about
  /\ \A t \in Tickets : assignees[t] \subseteq assignees'[t]
  /\ \A t \in Tickets : MessagesOf(t) \subseteq MessagesOf(t)'
  /\ \A m \in DOMAIN messages : m \in DOMAIN messages' /\ messages'[m] = messages[m]

LEMMA RowsGrowFacts ==
  ASSUME RowsGrow, NEW t \in Filed
  PROVE  /\ t \in Tickets /\ t \in Filed'
         /\ readable(Viewer, t) => readable(Viewer, t)'
         /\ own_ticket(Viewer, t) => own_ticket(Viewer, t)'
<1>1. t \in Tickets
  BY DEF Filed
<1> QED
  BY <1>1 DEF RowsGrow, readable, own_ticket

\* What an errand under way has, and is after its step.
LEMMA ErrandFields ==
  ASSUME TicketTypes, NEW s \in Servers, server[s].todo # <<>>
  PROVE  /\ server[s].ticket \in Tickets /\ server[s].row \in {NoTicket} \cup TicketRow
         /\ server[s].message \in Nat /\ server[s].mine \in BOOLEAN /\ server[s] # NoErrand
         /\ server[s].todo \notin {Write2, Write1} => server[s].row \in TicketRow
BY ErrandFacts DEF Errand

LEMMA PlanGoesOn ==
  ASSUME NEW plan \in PlanNames
  PROVE  /\ plan \in {File1, Write1, Turn1, Note1} <=> Len(plan) = 1
         /\ plan = File4 => Tail(plan) = File3
         /\ plan = File3 => Tail(plan) = File2
         /\ plan = File2 => Tail(plan) = File1
         /\ plan = Write2 => Tail(plan) = Write1
         /\ plan = Turn4 => Tail(plan) = Turn3
         /\ plan = Turn3 => Tail(plan) = Turn2
         /\ plan = Turn2 => Tail(plan) = Turn1
<1>1. plan \in {File1, Write1, Turn1, Note1} <=> Len(plan) = 1
  BY PlanLengths DEF PlanNames
<1> QED
  BY <1>1, FilePlansAre, TurnPlansAre, OtherPlansAre

\* A request takes a step: it ends, or goes on with the rest of its plan.
LEMMA StepFacts ==
  ASSUME TicketTypes, NEW s \in Servers, server[s].todo # <<>>, Step(s)
  PROVE  /\ DOMAIN server' = Servers
         /\ \A r \in Servers \ {s} : server'[r] = server[r]
         /\ server[s].todo \in {File1, Write1, Turn1, Note1} => server'[s] = NoErrand
         /\ server[s].todo \notin {File1, Write1, Turn1, Note1} =>
              /\ server'[s] = [server[s] EXCEPT !.todo = Tail(@)]
              /\ server'[s].todo = Tail(server[s].todo)
              /\ server'[s].ticket = server[s].ticket /\ server'[s].row = server[s].row
              /\ server'[s].message = server[s].message /\ server'[s].mine = server[s].mine
         /\ \A r \in Servers : ErrandShape(server'[r])
<1>1. server[s] \in Errand /\ server[s].todo \in PlanNames
  BY ErrandFacts
<1>2. DOMAIN server = Servers /\ \A r \in Servers : ErrandShape(server[r])
  BY DEF TicketTypes
<1>3. /\ DOMAIN server' = Servers
      /\ \A r \in Servers \ {s} : server'[r] = server[r]
      /\ server'[s] = IF Len(server[s].todo) = 1 THEN NoErrand ELSE [server[s] EXCEPT !.todo = Tail(@)]
  BY <1>2 DEF Step
<1>4. server[s].todo \in {File1, Write1, Turn1, Note1} => server'[s] = NoErrand
  BY <1>1, <1>3, PlanGoesOn
<1>5. ASSUME server[s].todo \notin {File1, Write1, Turn1, Note1}
      PROVE  /\ server'[s] = [server[s] EXCEPT !.todo = Tail(@)]
             /\ server'[s].todo = Tail(server[s].todo)
             /\ server'[s].ticket = server[s].ticket /\ server'[s].row = server[s].row
             /\ server'[s].message = server[s].message /\ server'[s].mine = server[s].mine
  BY <1>1, <1>3, <1>5, PlanGoesOn DEF Errand
<1>6. ASSUME server[s].todo \notin {File1, Write1, Turn1, Note1}
      PROVE  Tail(server[s].todo) \in PlanNames
             /\ (Tail(server[s].todo) \in {Write2, Write1} <=> server[s].todo \in {Write2, Write1})
  BY <1>1, <1>6, PlanGoesOn, PlansDiffer DEF PlanNames
<1>7. ErrandShape(server'[s])
  <2>1. server[s].row = NoTicket <=> server[s].todo \in {Write2, Write1}
    BY <1>1, ErrandFacts
  <2>2. CASE server[s].todo \in {File1, Write1, Turn1, Note1}
    BY <1>4, <2>2 DEF ErrandShape
  <2>3. CASE server[s].todo \notin {File1, Write1, Turn1, Note1}
    <3>1. server'[s] \in Errand
      BY <1>1, <1>5, <1>6, <2>3, PlansNamed DEF Errand
    <3> QED
      BY <1>5, <1>6, <2>1, <2>3, <3>1 DEF ErrandShape, WritePlans
  <2> QED
    BY <2>2, <2>3
<1> QED
  BY <1>2, <1>3, <1>4, <1>5, <1>7

\* The rows a request holds as it ends.
LEMMA NoErrandFacts ==
  /\ NoErrand.todo = <<>> /\ NoErrand.row = NoTicket /\ ~NoErrand.mine
  /\ NoErrand.todo \notin Plans /\ NoErrand.todo \notin PlanNames
  /\ NoErrand.todo \notin {File4, File3, File2, File1, Write2, Write1, Turn4, Turn3, Turn2, Turn1, Note1}
BY PlansDiffer, PlansNamed DEF NoErrand, PlanNames

\* A request that begins has not told of anything yet.
LEMMA BeginsFacts ==
  ASSUME TicketTypes, NEW s \in Servers, NEW errand, Begins(s, errand)
  PROVE  /\ server[s] = NoErrand /\ DOMAIN server' = Servers /\ server'[s] = errand
         /\ \A r \in Servers \ {s} : server'[r] = server[r]
         /\ UNCHANGED <<ticket, assignees, messages, posted, tab>> /\ RowsGrow
         /\ \A r \in Servers : server[r].todo # <<>> => r # s
BY NoErrandFacts DEF TicketTypes, Begins, RowsGrow, Filed, MessagesOf

\* What holds of the tickets, events and the page while requests begin.
LEMMA BeginKeeps ==
  ASSUME TicketInv, NEW s \in Servers, NEW errand \in Errand, Begins(s, errand), crossed \subseteq crossed',
         errand.row = NoTicket <=> errand.todo \in WritePlans,
         errand.todo \in FilePlans => errand.todo = File4 /\ errand.ticket \notin Filed,
         ErrandHolds(errand)
  PROVE  TicketTypes' /\ ErrandsHold' /\ EventsHold' /\ LastTold' /\ TicketTabHolds' /\ ListTabHolds'
<1> USE DEF TicketInv
<1>1. /\ server[s] = NoErrand /\ DOMAIN server' = Servers /\ server'[s] = errand
      /\ \A r \in Servers \ {s} : server'[r] = server[r]
      /\ UNCHANGED <<ticket, assignees, messages, posted, tab>>
      /\ \A r \in Servers : server[r].todo # <<>> => r # s
  BY BeginsFacts
<1>2. TicketTypes'
  BY <1>1 DEF TicketTypes, ErrandShape
<1>3. ErrandsHold'
  <2>1. \A d : ErrandHolds(d)' <=> ErrandHolds(d)
    BY <1>1 DEF ErrandHolds, Filed, MessagesOf
  <2>2. \A r \in Servers : ErrandHolds(server'[r])
    BY <1>1 DEF ErrandsHold
  <2> QED
    BY <1>1, <2>1, <2>2 DEF ErrandsHold, ErrandHolds
<1>4. EventsHold'
  <2>1. Filed' = Filed /\ \A t : MessagesOf(t)' = MessagesOf(t)
    BY <1>1 DEF Filed, MessagesOf
  <2>2. \A t \in Filed, r \in Servers : Files(r, t)' => Files(r, t)
    BY <1>1 DEF Files
  <2> QED
    BY <1>1, <2>1, <2>2 DEF EventsHold
<1>5. \A c, t : Telling(c, t) => Telling(c, t)'
  BY <1>1, NoErrandFacts DEF Telling
<1>6. LastTold'
  <2>1. \A i, c, t : IsTurn(i, c, t)' <=> IsTurn(i, c, t)
    BY <1>1 DEF IsTurn
  <2> QED
    BY <1>1, <1>5, <2>1 DEF LastTold
<1>7. \A c, t : TurnComes(c, t) => TurnComes(c, t)'
  <2>1. \A c, t : Awaited(c, t)' <=> Awaited(c, t)
    BY <1>1 DEF Awaited, Base, IsTurn
  <2> QED
    BY <1>5, <2>1 DEF TurnComes
<1>8. \A m : MessageComes(m) => MessageComes(m)'
  BY <1>1, NoErrandFacts DEF MessageComes
<1>9. TicketTabHolds'
  <2>1. /\ Filed' = Filed /\ \A t : MessagesOf(t)' = MessagesOf(t) /\ FirstOf(t)' = FirstOf(t)
                                    /\ (readable(Viewer, t)' <=> readable(Viewer, t))
        /\ \A m : Fetching(m)' <=> Fetching(m)
    BY <1>1 DEF Filed, MessagesOf, FirstOf, readable, Fetching
  <2>2. PageIsOf => PageIsOf'
    BY <1>1, <2>1 DEF PageIsOf
  <2>3. MessagesCome => MessagesCome'
    BY <1>1, <1>8, <2>1 DEF MessagesCome
  <2>4. PageTurns => PageTurns'
    BY <1>1, <1>7 DEF PageTurns
  <2> QED
    BY <1>1, <2>2, <2>3, <2>4 DEF TicketTabHolds
<1>10. \A t : RowComes(t) => RowComes(t)'
  BY <1>1, NoErrandFacts DEF RowComes, Files, FilePlans, for_viewer
<1>11. ListTabHolds'
  <2>1. /\ listed(tab.own, tab.about)' = listed(tab.own, tab.about)
        /\ \A t : Fetching(t)' <=> Fetching(t)
        /\ \A t : (readable(Viewer, t)' <=> readable(Viewer, t)) /\ (InList(t)' <=> InList(t))
    BY <1>1 DEF listed, Filed, own_ticket, visible_ticket, readable, Fetching, InList
  <2>2. RowsCome => RowsCome'
    BY <1>1, <1>10, <2>1 DEF RowsCome
  <2>3. RowsBelong => RowsBelong'
    BY <1>1, <2>1 DEF RowsBelong
  <2>4. RowsTurn => RowsTurn'
    BY <1>1, <1>7 DEF RowsTurn, state
  <2> QED
    BY <1>1, <2>2, <2>3, <2>4 DEF ListTabHolds
<1> QED
  BY <1>2, <1>3, <1>4, <1>6, <1>9, <1>11

\* A ticket that is filed has a row, and only one that files it has it to save.
LEMMA FiledFacts ==
  ASSUME TicketInv, NEW t \in Filed
  PROVE  t \in Tickets /\ ticket[t] \in TicketRow /\ ticket[t] # NoTicket
BY DEF TicketInv, TicketTypes, Filed

LEMMA NoTicketIsNone == NoTicket \notin TicketRow
BY TicketsAssumption DEF NoTicket, TicketRow

LEMMA PlanKinds ==
  /\ FilePlans = {File4, File3, File2, File1} /\ WritePlans = {Write2, Write1}
  /\ TurnPlans = {Turn4, Turn3, Turn2, Turn1}
BY DEF FilePlans, WritePlans, TurnPlans

\* What a request has as it begins.
LEMMA ErrandFrom ==
  ASSUME NEW plans \in SUBSET PlanNames, NEW t \in Tickets, NEW rows \in SUBSET ({NoTicket} \cup TicketRow),
         NEW d \in [todo : plans, ticket : {t}, row : rows, message : {0}, mine : BOOLEAN]
  PROVE  d \in Errand /\ d.todo \in plans /\ d.ticket = t /\ d.row \in rows
BY PlansNamed DEF Errand

\* A request that files a ticket begins.
LEMMA NewTicketStep ==
  ASSUME TicketInv, NEW s \in Servers, NEW u \in People, NEW p \in Subjects, NewTicket(s, u, p)
  PROVE  TicketInv'
<1> USE DEF TicketInv
<1>1. PICK t \in Tickets \ Taken :
        Begins(s, [NoErrand EXCEPT !.todo = <<"ticket", "message", "assign", "new-ticket">>, !.ticket = t,
                                   !.row = [open |-> TRUE, by |-> u, about |-> p]])
  BY DEF NewTicket
<1> DEFINE d == [NoErrand EXCEPT !.todo = File4, !.ticket = t, !.row = [open |-> TRUE, by |-> u, about |-> p]]
<1>2. d \in [todo : {File4}, ticket : {t}, row : TicketRow, message : {0}, mine : BOOLEAN] /\ ~d.mine
  <2>1. [open |-> TRUE, by |-> u, about |-> p] \in TicketRow
    BY DEF TicketRow
  <2> QED
    BY <2>1 DEF NoErrand
<1>3. Begins(s, d) /\ UNCHANGED crossed
  <2>1. File4 = <<"ticket", "message", "assign", "new-ticket">>
    BY DEF File4
  <2> QED
    BY <1>1, <2>1 DEF NewTicket
<1> HIDE DEF d
<1>4. d \in Errand /\ d.todo = File4 /\ d.ticket = t /\ d.row \in TicketRow /\ ~d.mine
  <2>1. {File4} \in SUBSET PlanNames
    BY DEF PlanNames
  <2> QED
    BY <1>2, <2>1, ErrandFrom
<1>5. t \notin Filed /\ ticket[t] = NoTicket /\ \A r \in Servers : server[r].ticket = t => ~IsDoing(r, "ticket")
  BY DEF Taken, Filed
<1>6. /\ server[s] = NoErrand /\ DOMAIN server' = Servers /\ server'[s] = d
      /\ \A r \in Servers \ {s} : server'[r] = server[r]
      /\ UNCHANGED <<ticket, assignees, messages, posted, tab>>
  BY <1>3, BeginsFacts
<1>7. d.todo = File4 /\ d.ticket = t /\ ~d.mine
  BY <1>4
<1>8. ErrandHolds(d) /\ d.todo \notin WritePlans /\ d.row # NoTicket
  BY <1>4, <1>7, NoTicketIsNone, PlansDiffer, PlanKinds DEF ErrandHolds
<1>9. TicketTypes' /\ ErrandsHold' /\ EventsHold' /\ LastTold' /\ TicketTabHolds' /\ ListTabHolds'
  BY <1>3, <1>4, <1>5, <1>7, <1>8, BeginKeeps
\* Nobody else is about this ticket.
<1>10. \A r \in Servers : ~Files(r, t) /\ r \notin Changing(t)
  <2> SUFFICES ASSUME NEW r \in Servers, server[r].ticket = t, server[r].todo \in PlanNames \ {Write2, Write1} PROVE FALSE
    <3>1. \A r \in Servers : Files(r, t) => server[r].ticket = t /\ server[r].todo \in PlanNames \ {Write2, Write1}
      BY PlansDiffer, PlanKinds DEF Files, PlanNames
    <3>2. \A r \in Servers : r \in Changing(t) => server[r].ticket = t /\ server[r].todo \in PlanNames \ {Write2, Write1}
      BY ErrandFacts
    <3> QED
      BY <3>1, <3>2
  <2>1. server[r].todo \notin {File4, Turn4, Note1}
    BY <1>5, ErrandFacts
  <2>2. server[r].todo \notin {File3, File2, File1}
    BY <1>5, PlansDiffer, PlanKinds DEF FilingHolds, Files
  <2>3. server[r].todo \notin {Turn3, Turn2, Turn1}
    BY <1>5, PlanKinds DEF ErrandsHold, ErrandHolds
  <2> QED
    BY <2>1, <2>2, <2>3 DEF PlanNames
<1>11. FilingHolds'
  <2>1. /\ Filed' = Filed /\ \A x : MessagesOf(x)' = MessagesOf(x) /\ FirstOf(x)' = FirstOf(x)
    BY <1>6 DEF Filed, MessagesOf, FirstOf
  <2>2. \A r \in Servers, x \in Tickets : Files(r, x)' => (r # s /\ x # t /\ Files(r, x)) \/ (r = s /\ x = t)
    BY <1>6, <1>7, <1>10 DEF Files
  <2>3. \A x \in Tickets : ticket'[x] = NoTicket => FirstOf(x)' = {} /\ assignees'[x] = {}
    BY <1>6, <2>1 DEF FilingHolds
  <2>4. \A r1, r2 \in Servers, x \in Tickets : (Files(r1, x) /\ Files(r2, x))' => r1 = r2
    BY <2>2 DEF FilingHolds
  <2>5. ASSUME NEW r \in Servers, NEW x \in Tickets, Files(r, x)'
        PROVE  /\ x \in Filed' <=> server'[r].todo # File4
               /\ server'[r].todo \in {File4, File3} => FirstOf(x)' = {}
               /\ server'[r].todo \in {File4, File3, File2} => assignees'[x] = {}
    <3>1. CASE r # s /\ x # t /\ Files(r, x)
      BY <1>6, <2>1, <3>1 DEF FilingHolds
    <3>2. CASE r = s /\ x = t
      BY <1>5, <1>6, <1>7, <2>1, <3>2 DEF FilingHolds
    <3> QED
      BY <2>2, <2>5, <3>1, <3>2
  <2> QED
    BY <2>3, <2>4, <2>5 DEF FilingHolds
<1>12. ChangesHold'
  <2>1. \A r \in Servers : \A x : r \in Changing(x)' => (r # s /\ x # t /\ r \in Changing(x)) \/ (r = s /\ x = t)
    BY <1>6, <1>7, <1>10 DEF Changing
  <2>2. \A x : Changing(x)' \subseteq Servers
    BY DEF Changing
  <2> QED
    BY <1>3, <1>6, <1>7, <2>1, <2>2, PlansDiffer DEF ChangesHold
<1> QED
  BY <1>9, <1>11, <1>12

\* What the others that begin leave as it is.
LEMMA BeginKeepsFiling ==
  ASSUME TicketInv, NEW s \in Servers, NEW errand, Begins(s, errand), errand.todo \notin FilePlans
  PROVE  FilingHolds'
<1> USE DEF TicketInv
<1>1. /\ server[s] = NoErrand /\ DOMAIN server' = Servers /\ server'[s] = errand
      /\ \A r \in Servers \ {s} : server'[r] = server[r]
      /\ UNCHANGED <<ticket, assignees, messages, posted, tab>>
  BY BeginsFacts
<1>2. /\ Filed' = Filed /\ \A x : MessagesOf(x)' = MessagesOf(x) /\ FirstOf(x)' = FirstOf(x)
  BY <1>1 DEF Filed, MessagesOf, FirstOf
<1>3. \A r \in Servers, x \in Tickets : Files(r, x)' => r # s /\ Files(r, x)
  BY <1>1 DEF Files
<1> QED
  BY <1>1, <1>2, <1>3 DEF FilingHolds

\* A message is posted.
LEMMA PostMessageStep ==
  ASSUME TicketInv, NEW s \in Servers, NEW u \in People, NEW t \in Tickets, PostMessage(s, u, t)
  PROVE  TicketInv'
<1> USE DEF TicketInv
<1> DEFINE d == [NoErrand EXCEPT !.todo = Write2, !.ticket = t]
<1>1. d \in [todo : {Write2}, ticket : {t}, row : {NoTicket}, message : {0}, mine : BOOLEAN] /\ ~d.mine
  BY DEF NoErrand
<1>2. Begins(s, d) /\ UNCHANGED crossed /\ t \in Filed
  <2>1. Write2 = <<"message", "tell of it">>
    BY DEF Write2
  <2> QED
    BY <2>1 DEF PostMessage
<1> HIDE DEF d
<1>3. d \in Errand /\ d.todo = Write2 /\ d.ticket = t /\ d.row = NoTicket /\ ~d.mine
  <2>1. {Write2} \in SUBSET PlanNames /\ {NoTicket} \in SUBSET ({NoTicket} \cup TicketRow)
    BY DEF PlanNames
  <2> QED
    BY <1>1, <2>1, ErrandFrom
<1>4. ErrandHolds(d) /\ d.todo \in WritePlans /\ d.todo \notin FilePlans
  BY <1>2, <1>3, PlansDiffer, PlanKinds DEF ErrandHolds
<1>5. TicketTypes' /\ ErrandsHold' /\ EventsHold' /\ LastTold' /\ TicketTabHolds' /\ ListTabHolds'
  BY <1>2, <1>3, <1>4, BeginKeeps
<1>6. FilingHolds'
  BY <1>2, <1>4, BeginKeepsFiling
<1>7. ChangesHold'
  <2>1. /\ server'[s] = d /\ \A r \in Servers \ {s} : server'[r] = server[r]
        /\ UNCHANGED ticket
    BY <1>2, BeginsFacts
  <2>2. \A r \in Servers : \A x : r \in Changing(x)' => r # s /\ r \in Changing(x)
    BY <1>3, <2>1 DEF Changing
  <2>3. \A x : Changing(x)' \subseteq Servers
    BY DEF Changing
  <2> QED
    BY <1>2, <2>1, <2>2, <2>3 DEF ChangesHold
<1> QED
  BY <1>5, <1>6, <1>7

\* A ticket is about to be changed: crossed if another request is about to change it.
LEMMA ChangeBegins ==
  ASSUME TicketInv, NEW s \in Servers, NEW errand \in Errand, BeginsChange(s, errand),
         errand.todo \in TurnPlans \cup {Note1}, errand.row # NoTicket, ErrandHolds(errand),
         errand.todo = Note1 => errand.row = ticket[errand.ticket],
         errand.todo \in {Turn3, Turn2, Turn1} => errand.row.open = ticket[errand.ticket].open
  PROVE  TicketInv'
<1> USE DEF TicketInv
<1>1. Begins(s, errand) /\ crossed \subseteq crossed' /\ (Changing(errand.ticket) # {} => errand.ticket \in crossed')
  BY DEF BeginsChange
<1>2. errand.todo \notin WritePlans /\ errand.todo \notin FilePlans
  BY PlansDiffer, PlanKinds
<1>3. TicketTypes' /\ ErrandsHold' /\ EventsHold' /\ LastTold' /\ TicketTabHolds' /\ ListTabHolds'
  BY <1>1, <1>2, BeginKeeps
<1>4. FilingHolds'
  BY <1>1, <1>2, BeginKeepsFiling
<1>5. ChangesHold'
  <2>1. /\ server'[s] = errand /\ \A r \in Servers \ {s} : server'[r] = server[r]
        /\ UNCHANGED ticket
    BY <1>1, BeginsFacts
  <2>2. \A r \in Servers : \A x : r \in Changing(x)' =>
          (r # s /\ r \in Changing(x)) \/ (r = s /\ x = errand.ticket)
    BY <2>1 DEF Changing
  <2>3. \A x : Changing(x)' \subseteq Servers
    BY DEF Changing
  <2> SUFFICES ASSUME NEW x \in Tickets \ crossed'
               PROVE  /\ \A r1, r2 \in Changing(x)' : r1 = r2
                      /\ \A r \in Changing(x)' :
                           /\ server'[r].todo = Note1 => server'[r].row = ticket'[x]
                           /\ server'[r].todo \in {Turn3, Turn2, Turn1} => server'[r].row.open = ticket'[x].open
    BY DEF ChangesHold
  <2>4. CASE x = errand.ticket
    <3>1. \A r \in Changing(x)' : r = s
      BY <1>1, <2>2, <2>3, <2>4
    <3> QED
      BY <2>1, <2>4, <3>1
  <2>5. CASE x # errand.ticket
    <3>1. x \in Tickets \ crossed /\ \A r \in Changing(x)' : r \in Changing(x) /\ r \in Servers \ {s}
      BY <1>1, <2>2, <2>3, <2>5
    <3> QED
      BY <2>1, <3>1 DEF ChangesHold
  <2> QED
    BY <2>4, <2>5
<1> QED
  BY <1>3, <1>4, <1>5

\* The state of a ticket is changed, or found to be so.
LEMMA ChangeStatusStep ==
  ASSUME TicketInv, NEW s \in Servers, NEW u \in People, NEW t \in Tickets, NEW open \in BOOLEAN,
         NEW mine \in BOOLEAN, ChangeStatus(s, u, t, open, mine)
  PROVE  TicketInv'
<1> USE DEF TicketInv
<1> DEFINE d == [NoErrand EXCEPT !.todo = IF ticket[t].open = open THEN Turn1 ELSE Turn4, !.ticket = t,
                                 !.row = [ticket[t] EXCEPT !.open = open], !.mine = mine]
<1>1. Turn1 = <<"answer">>
  BY DEF Turn1
<1>2. BeginsChange(s, d) /\ t \in Filed
  <2>1. Turn4 = <<"ticket", "tell all", "tell own", "answer">>
    BY DEF Turn4
  <2> QED
    BY <1>1, <2>1 DEF ChangeStatus
<1>3. ticket[t] \in TicketRow
  BY <1>2, FiledFacts
<1> DEFINE row == [ticket[t] EXCEPT !.open = open]
<1>4. row \in TicketRow /\ row.open = open /\ row.by = ticket[t].by /\ row.about = ticket[t].about
  BY <1>3 DEF TicketRow
<1>5. /\ d \in [todo : {Turn1, Turn4}, ticket : {t}, row : {row}, message : {0}, mine : BOOLEAN] /\ d.mine = mine
      /\ d.todo = IF ticket[t].open = open THEN Turn1 ELSE Turn4
  BY DEF NoErrand
<1>6. /\ d.todo \in {Turn1, Turn4} /\ d.ticket = t /\ d.row \in TicketRow /\ d.row.open = open
      /\ d.row.by = ticket[t].by /\ d.row.about = ticket[t].about
      /\ d.mine = mine /\ (d.todo = Turn1 => ticket[t].open = open) /\ d \in Errand
  <2>1. {Turn1, Turn4} \in SUBSET PlanNames /\ Turn1 # Turn4
    BY PlansDiffer DEF PlanNames
  <2> HIDE DEF d, row
  <2>2. d \in Errand /\ d.todo \in {Turn1, Turn4} /\ d.ticket = t /\ d.row = row /\ d.mine = mine
    BY <1>4, <1>5, <2>1, ErrandFrom
  <2> QED
    BY <1>4, <1>5, <2>1, <2>2
<1>7. mine => tab.kind = "ticket" /\ tab.at = "live" /\ tab.ticket = t
  BY DEF ChangeStatus
<1> HIDE DEF d
<1>8. ErrandHolds(d) /\ d.row # NoTicket
  BY <1>2, <1>6, <1>7, NoTicketIsNone, PlansDiffer, PlanKinds DEF ErrandHolds
<1> QED
  BY <1>2, <1>6, <1>8, ChangeBegins, PlansDiffer, PlanKinds

\* The notes of a ticket are edited.
LEMMA EditNotesStep ==
  ASSUME TicketInv, NEW s \in Servers, NEW u \in People, NEW t \in Tickets, EditNotes(s, u, t)
  PROVE  TicketInv'
<1> USE DEF TicketInv
<1> DEFINE d == [NoErrand EXCEPT !.todo = Note1, !.ticket = t, !.row = ticket[t]]
<1>1. d \in [todo : {Note1}, ticket : {t}, row : {ticket[t]}, message : {0}, mine : BOOLEAN] /\ ~d.mine
  BY DEF NoErrand
<1>2. BeginsChange(s, d) /\ t \in Filed
  <2>1. Note1 = <<"ticket">>
    BY DEF Note1
  <2> QED
    BY <2>1 DEF EditNotes
<1>3. ticket[t] \in TicketRow
  BY <1>2, FiledFacts
<1> HIDE DEF d
<1>4. {Note1} \in SUBSET PlanNames
  BY DEF PlanNames
<1>5. d \in Errand /\ d.todo = Note1 /\ d.ticket = t /\ d.row = ticket[t] /\ ~d.mine
  BY <1>1, <1>3, <1>4, ErrandFrom
<1>6. ErrandHolds(d) /\ d.row # NoTicket
  BY <1>2, <1>3, <1>5, NoTicketIsNone, PlansDiffer, PlanKinds DEF ErrandHolds
<1> QED
  BY <1>2, <1>5, <1>6, ChangeBegins, PlansDiffer, PlanKinds

\* What a step of a request does to the filing of tickets, when it saves no ticket,
\* message or assignees: nothing but that it may end.
LEMMA StepErrands ==
  ASSUME TicketInv, NEW s \in Servers, server[s].todo # <<>>, Step(s)
  PROVE  /\ \A r \in Servers : \A t : Files(r, t)' => Files(r, t)
         /\ \A r \in Servers : \A t : Files(r, t) => Files(r, t)' \/ (r = s /\ server[s].todo = File1)
         /\ \A t : Changing(t)' \subseteq Changing(t)
         /\ \A c, t : Telling(c, t) =>
              \/ Telling(c, t)'
              \/ /\ server[s].ticket = t
                 /\ \/ server[s].todo = Turn2 /\ c = "ticket"
                    \/ server[s].todo = Turn3 /\ c # "ticket"
<1> USE DEF TicketInv
<1>1. \A r \in Servers \ {s} : server'[r] = server[r]
  BY StepFacts
<1>2. server[s].todo \in PlanNames
  BY ErrandFacts
<1>3. /\ server[s].todo \in {File1, Write1, Turn1, Note1} => server'[s] = NoErrand
      /\ server[s].todo \notin {File1, Write1, Turn1, Note1} =>
           /\ server'[s].todo = Tail(server[s].todo)
           /\ server'[s].ticket = server[s].ticket /\ server'[s].row = server[s].row
  BY StepFacts
<1>4. server'[s].todo \in FilePlans => server[s].todo \in FilePlans /\ server'[s].ticket = server[s].ticket
  BY <1>2, <1>3, PlanGoesOn, PlansDiffer, PlanKinds, NoErrandFacts DEF PlanNames
<1>5. server[s].todo \in FilePlans \ {File1} => server'[s].todo \in FilePlans /\ server'[s].ticket = server[s].ticket
  BY <1>2, <1>3, PlanGoesOn, PlansDiffer, PlanKinds DEF PlanNames
<1>6. \A r \in Servers : \A t : Files(r, t)' => Files(r, t)
  BY <1>1, <1>4 DEF Files
<1>7. \A r \in Servers : \A t : Files(r, t) => Files(r, t)' \/ (r = s /\ server[s].todo = File1)
  BY <1>1, <1>5 DEF Files
<1>8. \A t : Changing(t)' \subseteq Changing(t)
  <2>1. server'[s].todo # <<>> /\ server'[s].row # NoTicket =>
          server[s].row # NoTicket /\ server'[s].ticket = server[s].ticket
    BY <1>3, NoErrandFacts
  <2> QED
    BY <1>1, <2>1 DEF Changing
<1>9. \A c, t : Telling(c, t) =>
        \/ Telling(c, t)'
        \/ /\ server[s].ticket = t
           /\ \/ server[s].todo = Turn2 /\ c = "ticket"
              \/ server[s].todo = Turn3 /\ c # "ticket"
  <2> SUFFICES ASSUME NEW c, NEW t, NEW r \in Servers, server[r].ticket = t,
                      server[r].todo \in {Turn3} \cup (IF c = "ticket" THEN {Turn2} ELSE {})
               PROVE  \/ Telling(c, t)'
                      \/ /\ server[s].ticket = t
                         /\ \/ server[s].todo = Turn2 /\ c = "ticket"
                            \/ server[s].todo = Turn3 /\ c # "ticket"
    BY DEF Telling
  <2>1. CASE r # s
    BY <1>1, <2>1 DEF Telling
  <2>2. CASE r = s /\ server[s].todo = Turn3 /\ c = "ticket"
    <3>1. server'[s].todo = Turn2 /\ server'[s].ticket = t
      BY <1>2, <1>3, <2>2, PlanGoesOn, PlansDiffer
    <3> QED
      BY <2>2, <3>1 DEF Telling
  <2> QED
    BY <2>1, <2>2
<1> QED
  BY <1>6, <1>7, <1>8, <1>9

\* What holds of the errands and events after a step, from the growth of the rows.
LEMMA StepKeeps ==
  ASSUME TicketInv, NEW s \in Servers, server[s].todo # <<>>, Step(s), RowsGrow,
         server'[s].todo \in {Turn3, Turn2, Turn1, Write1} => ErrandHolds(server[s])',
         tab'.kind = tab.kind /\ tab'.at = tab.at /\ tab'.ticket = tab.ticket
  PROVE  ErrandsHold'
<1> USE DEF TicketInv
<1>1. \A r \in Servers \ {s} : server'[r] = server[r]
  BY StepFacts
<1>2. ASSUME NEW r \in Servers \ {s} PROVE ErrandHolds(server[r])'
  <2>1. ErrandHolds(server[r])
    BY DEF ErrandsHold
  <2> QED
    BY <1>1, <2>1 DEF ErrandHolds, RowsGrow
<1>3. ErrandHolds(server[s])'
  <2>1. server[s].todo \in PlanNames
    BY ErrandFacts
  <2>2. /\ server[s].todo \in {File1, Write1, Turn1, Note1} => server'[s] = NoErrand
        /\ server[s].todo \notin {File1, Write1, Turn1, Note1} => server'[s].todo = Tail(server[s].todo)
                                 /\ server'[s].mine = server[s].mine /\ server'[s].ticket = server[s].ticket
    BY StepFacts
  <2>3. \/ server'[s].todo \in {Turn3, Turn2, Turn1, Write1}
        \/ server'[s] = NoErrand
        \/ server'[s].todo \in {File3, File2, File1} /\ server'[s].mine = server[s].mine /\ server'[s].ticket = server[s].ticket
    BY <2>1, <2>2, PlanGoesOn DEF PlanNames
  <2>4. CASE server'[s] = NoErrand
    BY <2>4, NoErrandFacts, PlanKinds DEF ErrandHolds
  <2>5. CASE server'[s].todo \in {File3, File2, File1} /\ server'[s].mine = server[s].mine /\ server'[s].ticket = server[s].ticket
    BY <2>5, PlansDiffer, PlanKinds DEF ErrandHolds, ErrandsHold
  <2> QED
    BY <2>3, <2>4, <2>5
<1> QED
  BY <1>2, <1>3 DEF ErrandsHold, ErrandHolds

\* While no event is posted and the page does nothing, what is told stays told.
LEMMA TurnsKeep ==
  ASSUME TicketInv, UNCHANGED <<posted, tab, crossed>>,
         \A c, t : Telling(c, t) => Telling(c, t)',
         \A t \in Filed \ crossed : ticket'[t].open = ticket[t].open \/ \A c : Telling(c, t)'
  PROVE  LastTold' /\ (PageIsOf /\ PageTurns => PageTurns') /\ (RowsBelong /\ RowsTurn => RowsTurn')
<1> USE DEF TicketInv
<1>1. LastTold'
  <2>1. \A i, c, t : IsTurn(i, c, t)' <=> IsTurn(i, c, t)
    BY DEF IsTurn
  <2>2. \A i \in DOMAIN posted : \A c, t : IsTurn(i, c, t) => t \in Filed
    BY DEF IsTurn, EventsHold
  <2> QED
    BY <2>1, <2>2 DEF LastTold
<1>2. \A c, t : TurnComes(c, t) => TurnComes(c, t)'
  <2>1. \A c, t : Awaited(c, t)' <=> Awaited(c, t)
    BY DEF Awaited, Base, IsTurn
  <2> QED
    BY <2>1 DEF TurnComes
<1>3. \A c, t : Telling(c, t)' => TurnComes(c, t)'
  BY DEF TurnComes
<1>4. PageIsOf /\ PageTurns => PageTurns'
  BY <1>2, <1>3 DEF PageIsOf, PageTurns
<1>5. RowsBelong /\ RowsTurn => RowsTurn'
  <2> SUFFICES ASSUME RowsBelong, RowsTurn, NEW t \in Tickets \ (crossed \cup tab.passed \cup tab.elsewhere)
               PROVE  \/ TurnComes("tickets", t)'
                      \/ /\ tab.rows[t] \in {"none", state(ticket'[t].open)}
                         /\ \A f \in tab.fetching : f.id = t => f.state \in {"asked", state(ticket'[t].open)}
    BY DEF RowsTurn, state
  <2>1. CASE t \in Filed
    BY <1>2, <1>3, <2>1 DEF RowsTurn
  <2>2. CASE t \notin Filed
    BY <2>2 DEF RowsBelong, InList
  <2> QED
    BY <2>1, <2>2
<1> QED
  BY <1>1, <1>4, <1>5

\* What the page has stays where it belongs as rows grow.
LEMMA BelongsKeep ==
  ASSUME TicketTypes, RowsGrow, tab' = tab
  PROVE  (PageIsOf => PageIsOf') /\ (RowsBelong => RowsBelong')
<1>1. \A t \in Filed : /\ t \in Tickets /\ t \in Filed'
                       /\ readable(Viewer, t) => readable(Viewer, t)'
                       /\ own_ticket(Viewer, t) => own_ticket(Viewer, t)'
  BY RowsGrowFacts
<1>2. \A t : InList(t) => InList(t)'
  BY <1>1 DEF InList
<1>3. \A t : InList(t) => t \in Filed
  BY DEF InList
<1> QED
  BY <1>1, <1>2, <1>3 DEF PageIsOf, RowsBelong, RowsGrow

\* A ticket is saved: it is new, or only its state changes.
LEMMA SaveTicketStep ==
  ASSUME TicketInv, NEW s \in Servers, SaveTicket(s)
  PROVE  TicketInv'
<1> USE DEF TicketInv
<1> DEFINE t == server[s].ticket
           row == server[s].row
<1>1. /\ server[s].todo \in {File4, Turn4, Note1} /\ server[s].todo # <<>> /\ Step(s)
      /\ ticket' = [ticket EXCEPT ![t] = row]
      /\ UNCHANGED <<assignees, messages, posted, errands, tab, crossed>>
  <2>1. IsDoing(s, "ticket")
    BY DEF SaveTicket
  <2> QED
    BY <2>1, ErrandFacts DEF SaveTicket, IsDoing
<1>2. t \in Tickets /\ row \in TicketRow
  BY <1>1, ErrandFields, PlansDiffer
<1>3. /\ ticket' \in [Tickets -> {NoTicket} \cup TicketRow]
      /\ ticket'[t] = row /\ row # NoTicket
      /\ \A x \in Tickets \ {t} : ticket'[x] = ticket[x]
  BY <1>1, <1>2, NoTicketIsNone DEF TicketTypes
<1> HIDE DEF t, row
<1>4. server[s].ticket = t /\ server[s].row = row
  BY DEF t, row
<1>5. /\ DOMAIN server' = Servers /\ \A r \in Servers \ {s} : server'[r] = server[r]
      /\ server[s].todo = Note1 => server'[s] = NoErrand
      /\ server[s].todo # Note1 => /\ server'[s].todo = Tail(server[s].todo)
                                  /\ server'[s].ticket = t /\ server'[s].row = row /\ server'[s].mine = server[s].mine
      /\ \A r \in Servers : ErrandShape(server'[r])
  BY <1>1, <1>4, StepFacts, PlansDiffer
<1>6. /\ server[s].todo = File4 => server'[s].todo = File3
      /\ server[s].todo = Turn4 => server'[s].todo = Turn3
  BY <1>5, FilePlansAre, TurnPlansAre, PlansDiffer
<1>7. /\ server[s].todo = File4 => t \notin Filed
      /\ server[s].todo # File4 => t \in Filed /\ row.by = ticket[t].by /\ row.about = ticket[t].about
  BY <1>1, <1>2, <1>4, PlanKinds DEF FilingHolds, Files, ErrandsHold, ErrandHolds
<1>8. Filed' = Filed \cup {t} /\ \A x : MessagesOf(x)' = MessagesOf(x) /\ FirstOf(x)' = FirstOf(x)
  BY <1>1, <1>2, <1>3 DEF Filed, MessagesOf, FirstOf
<1>9. RowsGrow
  BY <1>1, <1>3, <1>7, <1>8 DEF RowsGrow, Filed
<1>10. TicketTypes'
  BY <1>1, <1>3, <1>5 DEF TicketTypes
<1>11. /\ \A r \in Servers : \A x : Files(r, x)' => Files(r, x)
       /\ \A r \in Servers : \A x : Files(r, x) => Files(r, x)'
       /\ \A x : Changing(x)' \subseteq Changing(x)
       /\ \A c, x : Telling(c, x) => Telling(c, x)'
  BY <1>1, StepErrands, PlansDiffer
<1>12. FilingHolds'
  <2>1. \A x \in Tickets : ticket'[x] = NoTicket => FirstOf(x)' = {} /\ assignees'[x] = {}
    BY <1>1, <1>3, <1>8 DEF FilingHolds
  <2>2. \A r1, r2 \in Servers, x \in Tickets : (Files(r1, x) /\ Files(r2, x))' => r1 = r2
    BY <1>11 DEF FilingHolds
  <2>3. ASSUME NEW r \in Servers, NEW x \in Tickets, Files(r, x)'
        PROVE  /\ x \in Filed' <=> server'[r].todo # File4
               /\ server'[r].todo \in {File4, File3} => FirstOf(x)' = {}
               /\ server'[r].todo \in {File4, File3, File2} => assignees'[x] = {}
    <3>1. Files(r, x)
      BY <1>11, <2>3
    <3>2. CASE r = s
      <4>1. x = t /\ server[s].todo = File4
        BY <1>1, <1>4, <3>1, <3>2, PlansDiffer, PlanKinds DEF Files
      <4> QED
        BY <1>1, <1>6, <1>8, <3>1, <3>2, <4>1, PlansDiffer DEF FilingHolds
    <3>3. CASE r # s
      <4>1. server[s].todo = File4 => x # t
        BY <1>4, <3>1, <3>3, PlanKinds DEF FilingHolds, Files
      <4>2. x \in Filed' <=> x \in Filed
        BY <1>7, <1>8, <4>1
      <4> QED
        BY <1>1, <1>5, <1>8, <3>1, <3>3, <4>2 DEF FilingHolds
    <3> QED
      BY <3>2, <3>3
  <2> QED
    BY <2>1, <2>2, <2>3 DEF FilingHolds
<1>13. ErrandsHold'
  <2>1. ASSUME server'[s].todo \in {Turn3, Turn2, Turn1, Write1} PROVE ErrandHolds(server[s])'
    <3>1. server[s].todo = Turn4
      BY <1>1, <1>5, <1>6, <2>1, PlansDiffer, NoErrandFacts
    <3>2. server[s].mine => tab.kind = "ticket" /\ tab.at = "live" /\ tab.ticket = t
      BY <1>4 DEF ErrandsHold, ErrandHolds
    <3> QED
      BY <1>1, <1>2, <1>3, <1>5, <1>6, <1>8, <3>1, <3>2, PlansDiffer, PlanKinds DEF ErrandHolds
  <2> QED
    BY <1>1, <1>9, <2>1, StepKeeps
<1>14. \A x \in Tickets \ crossed : t = x => s \in Changing(x) /\ \A r \in Changing(x) : r = s
  <2>1. s \in Changing(t)
    BY <1>1, <1>3, <1>4 DEF Changing
  <2> QED
    BY <2>1 DEF ChangesHold
<1>15. ChangesHold'
  <2> SUFFICES ASSUME NEW x \in Tickets \ crossed
               PROVE  /\ \A r1, r2 \in Changing(x)' : r1 = r2
                      /\ \A r \in Changing(x)' :
                           /\ server'[r].todo = Note1 => server'[r].row = ticket'[x]
                           /\ server'[r].todo \in {Turn3, Turn2, Turn1} => server'[r].row.open = ticket'[x].open
    BY <1>1 DEF ChangesHold
  <2>1. \A r \in Changing(x) : r \in Servers
    BY DEF Changing
  <2>2. CASE x = t
    BY <1>1, <1>3, <1>5, <1>6, <1>11, <1>14, <2>2, PlansDiffer, NoErrandFacts
  <2>3. CASE x # t
    <3>1. \A r \in Changing(x) : r # s
      BY <1>4, <2>3 DEF Changing
    <3> QED
      BY <1>3, <1>5, <1>11, <2>1, <2>3, <3>1 DEF ChangesHold
  <2> QED
    BY <2>2, <2>3
<1>16. EventsHold'
  BY <1>1, <1>8, <1>9, <1>11 DEF EventsHold, RowsGrow
\* The state of a ticket that is not crossed changes as it is about to be told.
<1>17. \A x \in Filed \ crossed : ticket'[x].open = ticket[x].open \/ \A c : Telling(c, x)'
  <2> SUFFICES ASSUME NEW x \in Filed \ crossed, x = t PROVE ticket'[x].open = ticket[x].open \/ \A c : Telling(c, x)'
    BY <1>3 DEF Filed
  <2>1. server[s].todo # File4
    BY <1>7
  <2>2. CASE server[s].todo = Turn4
    BY <1>5, <1>6, <2>2, PlansDiffer DEF Telling
  <2>3. CASE server[s].todo = Note1
    <3>1. row = ticket[x]
      BY <1>2, <1>4, <1>14, <2>3 DEF ChangesHold
    <3> QED
      BY <1>3, <3>1
  <2> QED
    BY <1>1, <2>1, <2>2, <2>3
<1>18. LastTold' /\ (PageIsOf /\ PageTurns => PageTurns') /\ (RowsBelong /\ RowsTurn => RowsTurn')
  BY <1>1, <1>11, <1>17, TurnsKeep
<1>19. (PageIsOf => PageIsOf') /\ (RowsBelong => RowsBelong')
  BY <1>1, <1>9, BelongsKeep
<1>20. TicketTabHolds'
  <2>1. \A m : MessageComes(m) => MessageComes(m)'
    BY <1>1, <1>5, PlansDiffer DEF MessageComes
  <2>2. \A m : Fetching(m) => Fetching(m)'
    BY <1>1 DEF Fetching
  <2>3. MessagesCome => MessagesCome'
    BY <1>1, <1>8, <2>1, <2>2 DEF MessagesCome
  <2> QED
    BY <1>1, <1>18, <1>19, <2>3 DEF TicketTabHolds
<1>21. ListTabHolds'
  <2>1. \A x : RowComes(x) => RowComes(x)'
    <3>1. \A i : for_viewer(posted[i])' <=> for_viewer(posted[i])
      BY <1>1 DEF for_viewer
    <3> QED
      BY <1>1, <1>11, <3>1 DEF RowComes
  <2>2. RowsCome => RowsCome'
    <3> SUFFICES ASSUME RowsCome, NEW x, x \in listed(tab.own, tab.about)'
                 PROVE  (tab.rows[x] # "none" \/ Fetching(x) \/ RowComes(x))'
      BY <1>1 DEF RowsCome
    <3>1. x \in Filed'
      BY DEF listed
    <3>2. CASE x \in Filed
      <4>1. ticket'[x].by = ticket[x].by /\ ticket'[x].about = ticket[x].about
        BY <1>9, <3>2 DEF RowsGrow
      <4>2. x \in listed(tab.own, tab.about)
        BY <1>1, <3>2, <4>1 DEF listed, own_ticket, visible_ticket
      <4> QED
        BY <1>1, <2>1, <4>2 DEF RowsCome, Fetching
    <3>3. CASE x \notin Filed
      <4>1. x = t /\ server[s].todo = File4
        BY <1>1, <1>7, <1>8, <3>1, <3>3
      <4>2. Files(s, x)'
        BY <1>5, <1>6, <4>1, PlansDiffer, PlanKinds DEF Files
      <4> QED
        BY <4>2 DEF RowComes
    <3> QED
      BY <3>2, <3>3
  <2> QED
    BY <1>1, <1>18, <1>19, <2>2 DEF ListTabHolds
<1> QED
  BY <1>10, <1>12, <1>13, <1>15, <1>16, <1>18, <1>20, <1>21

\* A message is saved, and a request that has posted it is about to tell of it.
LEMMA SaveMessageStep ==
  ASSUME TicketInv, NEW s \in Servers, SaveMessage(s)
  PROVE  TicketInv'
<1> USE DEF TicketInv
<1> PICK n : n = Len(messages) + 1
  OBVIOUS
<1> DEFINE t == server[s].ticket
           new == [ticket |-> t, first |-> server[s].row # NoTicket]
<1>1. /\ server[s].todo \in {File3, Write2} /\ server[s].todo # <<>>
      /\ messages' = Append(messages, new)
      /\ server' = [server EXCEPT ![s].todo = Tail(@), ![s].message = Len(messages')]
      /\ UNCHANGED <<ticket, assignees, posted, errands, tab, crossed>>
  <2>1. IsDoing(s, "message")
    BY DEF SaveMessage
  <2> QED
    BY <2>1, ErrandFacts DEF SaveMessage, IsDoing
<1>2. t \in Tickets /\ new \in [ticket : Tickets, first : BOOLEAN]
  BY <1>1, ErrandFields
<1>3. /\ messages' \in Seq([ticket : Tickets, first : BOOLEAN]) /\ n \in Nat
      /\ Len(messages') = n /\ DOMAIN messages' = DOMAIN messages \cup {n} /\ n \notin DOMAIN messages
      /\ messages'[n] = new /\ \A m \in DOMAIN messages : messages'[m] = messages[m]
  <2>1. messages \in Seq([ticket : Tickets, first : BOOLEAN])
    BY DEF TicketTypes
  <2> HIDE DEF new
  <2> QED
    BY <1>1, <1>2, <2>1
<1>4. new.ticket = t /\ (new.first <=> server[s].row # NoTicket)
  OBVIOUS
<1> HIDE DEF t, new
<1>5. server[s].ticket = t
  BY DEF t
<1>6. /\ DOMAIN server' = Servers /\ \A r \in Servers \ {s} : server'[r] = server[r]
      /\ server'[s].todo = Tail(server[s].todo) /\ server'[s].message = n
      /\ server'[s].ticket = t /\ server'[s].row = server[s].row /\ server'[s].mine = server[s].mine
      /\ server'[s] \in Errand
  <2>1. server[s] \in Errand /\ DOMAIN server = Servers
    BY <1>1, ErrandFacts, NoErrandFacts DEF TicketTypes
  <2>2. Tail(server[s].todo) \in Plans
    BY <1>1, FilePlansAre, OtherPlansAre, PlansNamed DEF PlanNames
  <2> QED
    BY <1>1, <1>3, <1>5, <2>1, <2>2 DEF Errand
<1>7. /\ server[s].todo = File3 => server'[s].todo = File2
      /\ server[s].todo = Write2 => server'[s].todo = Write1
  BY <1>6, FilePlansAre, OtherPlansAre
<1>8. \/ server[s].todo = File3 /\ server'[s].todo = File2
      \/ server[s].todo = Write2 /\ server'[s].todo = Write1
  BY <1>1, <1>7
<1>9. UNCHANGED <<ticket, assignees, posted, errands, tab, crossed>>
  BY <1>1
<1>10. /\ \A r \in Servers \ {s} : server'[r] = server[r]
       /\ server'[s].message = n /\ server'[s].ticket = t /\ server'[s].row = server[s].row
       /\ server'[s].mine = server[s].mine
  BY <1>6
<1>11. t \in Filed
  BY <1>1, <1>2, <1>5, PlansDiffer, PlanKinds DEF FilingHolds, Files, ErrandsHold, ErrandHolds
<1>12. new.first => server[s].todo = File3
  BY <1>1, <1>4, ErrandFacts
<1>13. /\ Filed' = Filed
       /\ \A x : MessagesOf(x)' = MessagesOf(x) \cup (IF x = t THEN {n} ELSE {})
       /\ \A x : FirstOf(x)' = FirstOf(x) \cup (IF x = t /\ new.first THEN {n} ELSE {})
  <2>1. \A x : MessagesOf(x)' = MessagesOf(x) \cup (IF x = t THEN {n} ELSE {})
    BY <1>1, <1>3, <1>4 DEF MessagesOf
  <2>2. \A x, m : m \in FirstOf(x)' <=> m \in FirstOf(x) \cup (IF x = t /\ new.first THEN {n} ELSE {})
    <3>1. \A x : FirstOf(x)' = {m \in MessagesOf(x)' : messages'[m].first}
      BY DEF FirstOf
    <3>2. \A x, m : m \in MessagesOf(x) => messages'[m] = messages[m] /\ m # n
      BY <1>3 DEF MessagesOf
    <3> QED
      BY <1>3, <2>1, <3>1, <3>2 DEF FirstOf
  <2> QED
    BY <1>1, <2>1, <2>2 DEF Filed
<1>14. RowsGrow
  BY <1>1, <1>3, <1>13 DEF RowsGrow
<1>15. TicketTypes'
  <2>1. server'[s].row = NoTicket <=> server'[s].todo \in WritePlans
    BY <1>8, <1>10, ErrandFacts, PlansDiffer, PlanKinds
  <2>2. \A r \in Servers : ErrandShape(server'[r])
    BY <1>6, <2>1 DEF TicketTypes, ErrandShape
  <2> QED
    BY <1>1, <1>3, <1>6, <2>2 DEF TicketTypes
<1>16. /\ \A r \in Servers : \A x : Files(r, x)' <=> Files(r, x)
       /\ \A x : Changing(x)' = Changing(x)
       /\ \A c, x : Telling(c, x)' <=> Telling(c, x)
  <2>1. server'[s].todo \in FilePlans <=> server[s].todo \in FilePlans
    BY <1>8, PlansDiffer, PlanKinds
  <2>2. \A r \in Servers : \A x : Files(r, x)' <=> Files(r, x)
    BY <1>5, <1>10, <2>1 DEF Files
  <2>3. server'[s].todo # <<>>
    BY <1>8, PlansDiffer
  <2>4. \A x, r : r \in Changing(x)' <=> r \in Changing(x)
    BY <1>1, <1>5, <1>10, <2>3 DEF Changing
  <2>5. \A c, x : Telling(c, x)' <=> Telling(c, x)
    BY <1>8, <1>10, PlansDiffer DEF Telling
  <2>6. \A x : Changing(x)' = Changing(x)
    <3> SUFFICES ASSUME NEW x PROVE Changing(x)' = Changing(x)
      OBVIOUS
    <3>1. Changing(x)' \subseteq Changing(x)
      BY <2>4
    <3>2. Changing(x) \subseteq Changing(x)'
      BY <2>4
    <3> QED
      BY <3>1, <3>2
  <2> QED
    BY <2>2, <2>5, <2>6
<1>17. FilingHolds'
  <2>1. \A x \in Tickets : ticket'[x] = NoTicket => FirstOf(x)' = {} /\ assignees'[x] = {}
    <3>1. ticket[t] # NoTicket
      BY <1>11 DEF Filed
    <3> QED
      BY <1>1, <1>13, <3>1 DEF FilingHolds
  <2>2. \A r1, r2 \in Servers, x \in Tickets : (Files(r1, x) /\ Files(r2, x))' => r1 = r2
    BY <1>16 DEF FilingHolds
  <2>3. ASSUME NEW r \in Servers, NEW x \in Tickets, Files(r, x)'
        PROVE  /\ x \in Filed' <=> server'[r].todo # File4
               /\ server'[r].todo \in {File4, File3} => FirstOf(x)' = {}
               /\ server'[r].todo \in {File4, File3, File2} => assignees'[x] = {}
    <3>1. Files(r, x)
      BY <1>16, <2>3
    <3>2. CASE r = s
      <4>1. server[s].todo = File3
        BY <1>1, <3>1, <3>2, PlansDiffer, PlanKinds DEF Files
      <4> QED
        BY <1>1, <1>7, <1>13, <3>1, <3>2, <4>1, PlansDiffer DEF FilingHolds
    <3>3. CASE r # s
      <4>1. new.first => x # t
        BY <1>2, <1>5, <1>12, <3>1, <3>3, PlanKinds DEF FilingHolds, Files
      <4> QED
        BY <1>1, <1>6, <1>13, <3>1, <3>3, <4>1 DEF FilingHolds
    <3> QED
      BY <3>2, <3>3
  <2> QED
    BY <2>1, <2>2, <2>3 DEF FilingHolds
<1>18. ErrandsHold'
  <2>1. ASSUME NEW r \in Servers \ {s} PROVE ErrandHolds(server[r])'
    <3>1. ErrandHolds(server[r])
      BY DEF ErrandsHold
    <3> QED
      BY <1>1, <1>6, <1>13, <1>14, <3>1 DEF ErrandHolds, RowsGrow
  <2>2. ErrandHolds(server[s])'
    <3>1. ErrandHolds(server[s])
      BY DEF ErrandsHold
    <3>2. messages'[n].ticket = t /\ n \in DOMAIN messages'
      BY <1>3, <1>4
    <3> QED
      BY <1>5, <1>8, <1>9, <1>10, <1>11, <1>13, <3>1, <3>2, PlansDiffer, PlanKinds DEF ErrandHolds
  <2> QED
    BY <2>1, <2>2 DEF ErrandsHold, ErrandHolds
<1>19. ChangesHold'
  <2>1. \A r \in Servers : server'[r].row = server[r].row
    BY <1>6
  <2>2. \A r \in Servers : server'[r].todo \in {Note1, Turn3, Turn2, Turn1} => server'[r].todo = server[r].todo
    BY <1>8, <1>10, PlansDiffer
  <2>3. \A x : Changing(x) \subseteq Servers
    BY DEF Changing
  <2> QED
    BY <1>9, <1>16, <2>1, <2>2, <2>3 DEF ChangesHold
<1>20. EventsHold'
  BY <1>1, <1>13, <1>14, <1>16 DEF EventsHold, RowsGrow
<1>21. LastTold' /\ (PageIsOf /\ PageTurns => PageTurns') /\ (RowsBelong /\ RowsTurn => RowsTurn')
  BY <1>1, <1>16, TurnsKeep
<1>22. (PageIsOf => PageIsOf') /\ (RowsBelong => RowsBelong')
  BY <1>1, <1>14, BelongsKeep
<1>23. TicketTabHolds'
  <2>1. \A m : MessageComes(m) => MessageComes(m)'
    BY <1>1, <1>6, PlansDiffer DEF MessageComes
  <2>2. \A m : Fetching(m) => Fetching(m)'
    BY <1>1 DEF Fetching
  <2>3. ASSUME tab.ticket = t, server[s].todo = Write2 PROVE MessageComes(n)'
    BY <1>8, <1>9, <1>10, <2>3, PlansDiffer DEF MessageComes
  <2>4. ASSUME server[s].todo = File3 PROVE FirstOf(t) = {}
    BY <1>2, <1>5, <2>4, PlansDiffer, PlanKinds DEF FilingHolds, Files
  <2>5. ASSUME server[s].todo = File3 PROVE new.first
    BY <1>4, <2>5, ErrandFacts, PlansDiffer
  <2>6. MessagesCome => MessagesCome'
    <3> SUFFICES ASSUME MessagesCome
                 PROVE  /\ \A m \in MessagesOf(tab.ticket)' \ tab.shown :
                             Fetching(m)' \/ MessageComes(m)' \/ (tab.bare /\ messages'[m].first)
                        /\ tab.bare \/ FirstOf(tab.ticket)' # {}
      BY <1>1 DEF MessagesCome
    <3>1. \A m \in MessagesOf(tab.ticket) : messages'[m] = messages[m]
      BY <1>3 DEF MessagesOf
    <3>2. \A m \in MessagesOf(tab.ticket) \ tab.shown :
            Fetching(m)' \/ MessageComes(m)' \/ (tab.bare /\ messages'[m].first)
      BY <2>1, <2>2, <3>1 DEF MessagesCome
    <3>3. tab.ticket = t => Fetching(n)' \/ MessageComes(n)' \/ (tab.bare /\ messages'[n].first)
      BY <1>1, <1>3, <2>3, <2>4, <2>5 DEF MessagesCome
    <3>4. tab.bare \/ FirstOf(tab.ticket)' # {}
      BY <1>1, <1>13 DEF MessagesCome
    <3>5. MessagesOf(tab.ticket)' = MessagesOf(tab.ticket) \cup (IF tab.ticket = t THEN {n} ELSE {})
      BY <1>1, <1>13
    <3>6. \A m \in MessagesOf(tab.ticket)' \ tab.shown : m \in MessagesOf(tab.ticket) \/ (m = n /\ tab.ticket = t)
      BY <3>5
    <3> QED
      BY <3>2, <3>3, <3>4, <3>6
  <2> QED
    BY <1>1, <1>21, <1>22, <2>6 DEF TicketTabHolds
<1>24. ListTabHolds'
  <2>1. \A x : RowComes(x) => RowComes(x)'
    <3>1. \A i : for_viewer(posted[i])' <=> for_viewer(posted[i])
      BY <1>1 DEF for_viewer
    <3> QED
      BY <1>1, <1>16, <3>1 DEF RowComes
  <2>2. listed(tab.own, tab.about)' = listed(tab.own, tab.about)
    BY <1>1 DEF listed, own_ticket, visible_ticket, Filed
  <2>3. \A x : Fetching(x) => Fetching(x)'
    BY <1>1 DEF Fetching
  <2>4. RowsCome => RowsCome'
    BY <1>1, <2>1, <2>2, <2>3 DEF RowsCome
  <2> QED
    BY <1>1, <1>21, <1>22, <2>4 DEF ListTabHolds
<1> QED
  BY <1>15, <1>17, <1>18, <1>19, <1>20, <1>21, <1>23, <1>24

\* A ticket that is filed gets its assignees.
LEMMA AssignStep ==
  ASSUME TicketInv, NEW s \in Servers, Assign(s)
  PROVE  TicketInv'
<1> USE DEF TicketInv
<1> DEFINE t == server[s].ticket
<1>1. /\ server[s].todo = File2 /\ server[s].todo # <<>> /\ Step(s)
      /\ assignees' = [assignees EXCEPT ![t] = Authors[server[s].row.about]]
      /\ UNCHANGED <<ticket, messages, posted, errands, tab, crossed>>
  <2>1. IsDoing(s, "assign")
    BY DEF Assign
  <2> QED
    BY <2>1, ErrandFacts DEF Assign, IsDoing
<1>2. t \in Tickets /\ Authors[server[s].row.about] \in SUBSET People
  <2>1. server[s].row \in TicketRow
    BY <1>1, ErrandFields, PlansDiffer
  <2> QED
    BY <1>1, <2>1, ErrandFields, TicketsAssumption DEF TicketRow
<1>3. assignees' \in [Tickets -> SUBSET People] /\ \A x \in Tickets \ {t} : assignees'[x] = assignees[x]
  BY <1>1, <1>2 DEF TicketTypes
<1> HIDE DEF t
<1>4. server[s].ticket = t
  BY DEF t
<1>5. /\ DOMAIN server' = Servers /\ \A r \in Servers \ {s} : server'[r] = server[r]
      /\ server'[s].todo = File1 /\ server'[s].ticket = t
      /\ \A r \in Servers : ErrandShape(server'[r])
  BY <1>1, <1>4, StepFacts, FilePlansAre, PlansDiffer
<1>6. Files(s, t) /\ t \in Filed /\ assignees[t] = {}
  BY <1>1, <1>2, <1>4, PlansDiffer, PlanKinds DEF FilingHolds, Files
<1>7. Filed' = Filed /\ \A x : MessagesOf(x)' = MessagesOf(x) /\ FirstOf(x)' = FirstOf(x)
  BY <1>1 DEF Filed, MessagesOf, FirstOf
<1>8. RowsGrow
  BY <1>1, <1>3, <1>6, <1>7 DEF RowsGrow
<1>9. TicketTypes'
  BY <1>1, <1>3, <1>5 DEF TicketTypes
<1>10. /\ \A r \in Servers : \A x : Files(r, x)' <=> Files(r, x)
       /\ \A x : Changing(x)' \subseteq Changing(x)
       /\ \A c, x : Telling(c, x) => Telling(c, x)'
  BY <1>1, StepErrands, PlansDiffer
<1>11. FilingHolds'
  <2>1. \A x \in Tickets : ticket'[x] = NoTicket => FirstOf(x)' = {} /\ assignees'[x] = {}
    <3>1. ticket[t] # NoTicket
      BY <1>6 DEF Filed
    <3> QED
      BY <1>1, <1>3, <1>7, <3>1 DEF FilingHolds
  <2>2. \A r1, r2 \in Servers, x \in Tickets : (Files(r1, x) /\ Files(r2, x))' => r1 = r2
    BY <1>10 DEF FilingHolds
  <2>3. ASSUME NEW r \in Servers, NEW x \in Tickets, Files(r, x)'
        PROVE  /\ x \in Filed' <=> server'[r].todo # File4
               /\ server'[r].todo \in {File4, File3} => FirstOf(x)' = {}
               /\ server'[r].todo \in {File4, File3, File2} => assignees'[x] = {}
    <3>1. Files(r, x)
      BY <1>10, <2>3
    <3>2. CASE r = s
      <4>1. x = t
        BY <1>4, <3>1, <3>2 DEF Files
      <4> QED
        BY <1>5, <1>6, <1>7, <3>2, <4>1, PlansDiffer
    <3>3. CASE r # s
      <4>1. x # t
        BY <1>2, <1>6, <3>1, <3>3 DEF FilingHolds
      <4> QED
        BY <1>3, <1>5, <1>7, <3>1, <3>3, <4>1 DEF FilingHolds
    <3> QED
      BY <3>2, <3>3
  <2> QED
    BY <2>1, <2>2, <2>3 DEF FilingHolds
<1>12. ErrandsHold'
  BY <1>1, <1>5, <1>8, StepKeeps, PlansDiffer
<1>13. ChangesHold'
  <2>1. server'[s].todo \notin {Note1, Turn3, Turn2, Turn1}
    BY <1>5, PlansDiffer
  <2>2. \A x : Changing(x) \subseteq Servers
    BY DEF Changing
  <2> QED
    BY <1>1, <1>5, <1>10, <2>1, <2>2 DEF ChangesHold
<1>14. EventsHold'
  <2> SUFFICES ASSUME NEW i \in DOMAIN posted, NEW x, x = posted[i].ticket
               PROVE  /\ x \in Filed' /\ posted[i].user = ticket'[x].by /\ posted[i].assignees \subseteq assignees'[x]
                      /\ posted[i].type = "ticket-message" =>
                           posted[i].channel = "ticket" /\ posted[i].message \in MessagesOf(x)'
                      /\ posted[i].type = "new-ticket" => posted[i].channel = "tickets"
                      /\ posted[i].type = "ticket-status" /\ x \notin crossed' =>
                           posted[i].assignees = assignees'[x] /\ \A r \in Servers : ~Files(r, x)'
    BY <1>1 DEF EventsHold
  <2>1. x \in Filed /\ x \in Tickets
    BY FiledFacts DEF EventsHold
  <2>2. posted[i].assignees \subseteq assignees'[x]
    BY <1>8, <2>1 DEF EventsHold, RowsGrow
  <2>3. posted[i].type = "ticket-status" /\ x \notin crossed => x # t
    BY <1>6 DEF EventsHold
  <2> QED
    BY <1>1, <1>3, <1>7, <1>10, <2>1, <2>2, <2>3 DEF EventsHold
<1>15. LastTold' /\ (PageIsOf /\ PageTurns => PageTurns') /\ (RowsBelong /\ RowsTurn => RowsTurn')
  BY <1>1, <1>10, TurnsKeep
<1>16. (PageIsOf => PageIsOf') /\ (RowsBelong => RowsBelong')
  BY <1>1, <1>8, BelongsKeep
<1>17. TicketTabHolds'
  <2>1. \A m : MessageComes(m) => MessageComes(m)'
    BY <1>1, <1>5, PlansDiffer DEF MessageComes
  <2>2. \A m : Fetching(m) => Fetching(m)'
    BY <1>1 DEF Fetching
  <2>3. MessagesCome => MessagesCome'
    BY <1>1, <1>7, <2>1, <2>2 DEF MessagesCome
  <2> QED
    BY <1>1, <1>15, <1>16, <2>3 DEF TicketTabHolds
<1>18. ListTabHolds'
  <2>1. \A x : RowComes(x) => RowComes(x)'
    <3>1. \A i : for_viewer(posted[i])' <=> for_viewer(posted[i])
      BY <1>1 DEF for_viewer
    <3> QED
      BY <1>1, <1>10, <3>1 DEF RowComes
  <2>2. RowsCome => RowsCome'
    <3> SUFFICES ASSUME RowsCome, NEW x, x \in listed(tab.own, tab.about)'
                 PROVE  (tab.rows[x] # "none" \/ Fetching(x) \/ RowComes(x))'
      BY <1>1 DEF RowsCome
    <3>1. CASE x = t
      <4>1. Files(s, x)'
        BY <1>6, <1>10, <3>1
      <4> QED
        BY <4>1 DEF RowComes
    <3>2. CASE x # t
      <4>1. x \in Tickets
        BY <1>7 DEF listed, Filed
      <4>2. assignees'[x] = assignees[x]
        BY <1>3, <3>2, <4>1
      <4>3. x \in listed(tab.own, tab.about)
        BY <1>1, <1>7, <4>2 DEF listed, own_ticket, visible_ticket
      <4> QED
        BY <1>1, <2>1, <4>3 DEF RowsCome, Fetching
    <3> QED
      BY <3>1, <3>2
  <2> QED
    BY <1>1, <1>15, <1>16, <2>2 DEF ListTabHolds
<1> QED
  BY <1>9, <1>11, <1>12, <1>13, <1>14, <1>15, <1>17, <1>18

\* What is told of a ticket goes to the end of the events.
LEMMA EventPosted ==
  ASSUME TicketInv, NEW e \in TicketEvent, posted' = Append(posted, e), tab' = tab
  PROVE  /\ posted' \in Seq(TicketEvent) /\ Len(posted') = Len(posted) + 1
         /\ DOMAIN posted' = DOMAIN posted \cup {Len(posted) + 1} /\ Len(posted) + 1 \notin DOMAIN posted
         /\ posted'[Len(posted) + 1] = e /\ \A i \in DOMAIN posted : posted'[i] = posted[i]
         /\ Base < Len(posted) + 1 /\ tab.last < Len(posted) + 1
         /\ \A i \in DOMAIN posted : i < Len(posted) + 1
<1>1. posted \in Seq(TicketEvent) /\ tab.last \in Nat /\ tab.opened \in Nat /\ tab.last <= Len(posted) /\ tab.opened <= Len(posted)
  BY DEF TicketInv, TicketTypes, TabType
<1>2. Base < Len(posted) + 1 /\ tab.last < Len(posted) + 1
  BY <1>1 DEF Base
<1> QED
  BY <1>1, <1>2

\* A request tells of what it has done.
LEMMA TellStep ==
  ASSUME TicketInv, NEW s \in Servers, Tell(s)
  PROVE  TicketInv'
<1> USE DEF TicketInv
<1>1. PICK channel, type :
        /\ \/ server[s].todo = File1 /\ channel = "tickets" /\ type = "new-ticket"
           \/ server[s].todo = Turn3 /\ channel = "tickets" /\ type = "ticket-status"
           \/ server[s].todo = Turn2 /\ channel = "ticket" /\ type = "ticket-status"
           \/ server[s].todo = Write1 /\ channel = "ticket" /\ type = "ticket-message"
        /\ posted' = Append(posted, [channel |-> channel, type |-> type, ticket |-> server[s].ticket,
                                     open |-> server[s].row.open, message |-> server[s].message,
                                     user |-> ticket[server[s].ticket].by, assignees |-> assignees[server[s].ticket]])
  BY ErrandFacts, Zenon DEF Tell
<1>2. Step(s) /\ UNCHANGED <<ticket, assignees, messages, errands, tab, crossed>>
  BY DEF Tell
<1>3. server[s].todo \in {File1, Turn3, Turn2, Write1} /\ server[s].todo # <<>>
  BY <1>1, PlansDiffer
<1>4. PICK t \in Tickets : t = server[s].ticket
  BY <1>3, ErrandFields
<1>5. t \in Filed
  BY <1>3, <1>4, PlansDiffer, PlanKinds DEF FilingHolds, Files, ErrandsHold, ErrandHolds
<1>6. PICK e \in TicketEvent :
        /\ posted' = Append(posted, e) /\ e.channel = channel /\ e.type = type /\ e.ticket = t
        /\ e.open = server[s].row.open /\ e.message = server[s].message
        /\ e.user = ticket[t].by /\ e.assignees = assignees[t]
  <2> DEFINE e == [channel |-> channel, type |-> type, ticket |-> t,
                   open |-> server[s].row.open, message |-> server[s].message,
                   user |-> ticket[t].by, assignees |-> assignees[t]]
  <2>1. ticket[t].by \in People
    BY <1>5, FiledFacts DEF TicketRow
  <2>2. server[s].row.open \in BOOLEAN
    <3>1. NoTicket.open \in BOOLEAN /\ \A row \in TicketRow : row.open \in BOOLEAN
      BY DEF TicketRow, NoTicket
    <3> QED
      BY <1>3, <3>1, ErrandFields
  <2>3. server[s].message \in Nat /\ assignees[t] \in SUBSET People
    BY <1>3, ErrandFields DEF TicketTypes
  <2>4. e \in TicketEvent
    BY <1>1, <2>1, <2>2, <2>3 DEF TicketEvent
  <2> QED
    BY <1>1, <1>4, <2>4
<1>7. PICK n : n = Len(posted) + 1
  OBVIOUS
<1>8. /\ posted' \in Seq(TicketEvent) /\ Len(posted') = n
      /\ DOMAIN posted' = DOMAIN posted \cup {n} /\ n \notin DOMAIN posted
      /\ posted'[n] = e /\ \A i \in DOMAIN posted : posted'[i] = posted[i]
      /\ Base < n /\ tab.last < n /\ \A i \in DOMAIN posted : i < n
  BY <1>2, <1>6, <1>7, EventPosted
<1>9. Filed' = Filed /\ \A x : MessagesOf(x)' = MessagesOf(x) /\ FirstOf(x)' = FirstOf(x)
  BY <1>2 DEF Filed, MessagesOf, FirstOf
<1>10. RowsGrow
  BY <1>2, <1>9 DEF RowsGrow
<1>11. /\ DOMAIN server' = Servers /\ \A r \in Servers \ {s} : server'[r] = server[r]
       /\ server[s].todo \in {File1, Write1} => server'[s] = NoErrand
       /\ server[s].todo \in {Turn3, Turn2} =>
            /\ server'[s].todo = Tail(server[s].todo)
            /\ server'[s].ticket = t /\ server'[s].row = server[s].row /\ server'[s].mine = server[s].mine
       /\ \A r \in Servers : ErrandShape(server'[r])
  BY <1>2, <1>3, <1>4, StepFacts, PlansDiffer
<1>12. /\ server[s].todo = Turn3 => server'[s].todo = Turn2
       /\ server[s].todo = Turn2 => server'[s].todo = Turn1
  BY <1>11, TurnPlansAre
<1>13. TicketTypes'
  <2>1. tab.last <= Len(posted') /\ tab.opened <= Len(posted')
    BY <1>7, <1>8 DEF TicketTypes, TabType
  <2> QED
    BY <1>2, <1>8, <1>11, <2>1 DEF TicketTypes
<1>14. /\ \A r \in Servers : \A x : Files(r, x)' => Files(r, x)
       /\ \A r \in Servers : \A x : Files(r, x) => Files(r, x)' \/ (r = s /\ server[s].todo = File1)
       /\ \A x : Changing(x)' \subseteq Changing(x)
       /\ \A c, x : Telling(c, x) =>
            \/ Telling(c, x)'
            \/ /\ server[s].ticket = x
               /\ \/ server[s].todo = Turn2 /\ c = "ticket"
                  \/ server[s].todo = Turn3 /\ c # "ticket"
  BY <1>2, <1>3, StepErrands
<1>15. FilingHolds'
  <2>1. \A r \in Servers : \A x : Files(r, x)' => server'[r] = server[r]
    BY <1>3, <1>11, <1>12, PlansDiffer, PlanKinds, NoErrandFacts DEF Files
  <2> QED
    BY <1>2, <1>9, <1>14, <2>1 DEF FilingHolds
<1>16. ErrandsHold'
  <2>1. ErrandHolds(server[s])
    BY DEF ErrandsHold
  <2>2. ASSUME server'[s].todo \in {Turn3, Turn2, Turn1, Write1} PROVE ErrandHolds(server[s])'
    <3>1. server[s].todo \in {Turn3, Turn2} /\ server'[s].todo \in {Turn2, Turn1}
      BY <1>3, <1>11, <1>12, <2>2, NoErrandFacts
    <3> QED
      BY <1>2, <1>4, <1>5, <1>9, <1>11, <2>1, <3>1, PlansDiffer, PlanKinds DEF ErrandHolds
  <2> QED
    BY <1>2, <1>3, <1>10, <2>2, StepKeeps
\* Whoever tells of a state is the only one who changes it, if it is not crossed.
<1>17. ASSUME server[s].todo \in {Turn3, Turn2}, t \notin crossed
       PROVE  server[s].row.open = ticket[t].open /\ \A r \in Servers : ~Files(r, t)
  <2>1. s \in Changing(t)
    BY <1>3, <1>4, <1>17, ErrandFacts, PlansDiffer DEF Changing
  <2>2. \A r \in Servers : Files(r, t) => r \in Changing(t)
    BY ErrandFacts, PlansDiffer, PlanKinds DEF Files, PlanNames
  <2>3. ~Files(s, t)
    BY <1>17, PlansDiffer, PlanKinds DEF Files
  <2> QED
    BY <1>17, <2>1, <2>2, <2>3 DEF ChangesHold
<1>18. ChangesHold'
  <2>1. \A r \in Servers : server'[r].todo = Note1 => server'[r] = server[r]
    BY <1>3, <1>11, <1>12, PlansDiffer, NoErrandFacts
  <2>2. \A r \in Servers : server'[r].todo \in {Turn3, Turn2, Turn1} =>
          server[r].todo \in {Turn3, Turn2, Turn1} /\ server'[r].row = server[r].row
    BY <1>3, <1>11, <1>12, PlansDiffer, NoErrandFacts
  <2>3. \A x : Changing(x) \subseteq Servers
    BY DEF Changing
  <2> QED
    BY <1>2, <1>14, <2>1, <2>2, <2>3 DEF ChangesHold
<1>19. EventsHold'
  <2> SUFFICES ASSUME NEW i \in DOMAIN posted', NEW x, x = posted'[i].ticket
               PROVE  /\ x \in Filed' /\ posted'[i].user = ticket'[x].by /\ posted'[i].assignees \subseteq assignees'[x]
                      /\ posted'[i].type = "ticket-message" =>
                           posted'[i].channel = "ticket" /\ posted'[i].message \in MessagesOf(x)'
                      /\ posted'[i].type = "new-ticket" => posted'[i].channel = "tickets"
                      /\ posted'[i].type = "ticket-status" /\ x \notin crossed' =>
                           posted'[i].assignees = assignees'[x] /\ \A r \in Servers : ~Files(r, x)'
    BY DEF EventsHold
  <2>1. CASE i \in DOMAIN posted
    BY <1>2, <1>8, <1>9, <1>14, <2>1 DEF EventsHold
  <2>2. CASE i = n
    <3>1. x = t
      BY <1>6, <1>8, <2>2
    <3>2. server[s].todo = Write1 => server[s].message \in MessagesOf(t)
      BY <1>4 DEF ErrandsHold, ErrandHolds, MessagesOf
    <3>3. type = "ticket-message" => server[s].todo = Write1 /\ channel = "ticket"
      BY <1>1
    <3>4. type = "new-ticket" => channel = "tickets"
      BY <1>1
    <3>5. type = "ticket-status" => server[s].todo \in {Turn3, Turn2}
      BY <1>1
    <3> QED
      BY <1>2, <1>5, <1>6, <1>8, <1>9, <1>14, <1>17, <2>2, <3>1, <3>2, <3>3, <3>4, <3>5
  <2> QED
    BY <1>8, <2>1, <2>2
<1>20. /\ \A i \in DOMAIN posted : \A c, x : IsTurn(i, c, x)' <=> IsTurn(i, c, x)
       /\ \A c, x : IsTurn(n, c, x)' <=> c = channel /\ type = "ticket-status" /\ x = t
  BY <1>6, <1>8 DEF IsTurn
\* What was about to be told still is, or has just been.
<1>21. \A c \in {"tickets", "ticket"} : \A x : Telling(c, x) => Telling(c, x)' \/ IsTurn(n, c, x)'
  <2> SUFFICES ASSUME NEW c \in {"tickets", "ticket"}, NEW x, Telling(c, x), ~Telling(c, x)'
               PROVE  c = channel /\ type = "ticket-status" /\ x = t
    BY <1>20
  <2>1. x = t /\ ((server[s].todo = Turn2 /\ c = "ticket") \/ (server[s].todo = Turn3 /\ c = "tickets"))
    BY <1>4, <1>14
  <2> QED
    BY <1>1, <2>1, PlansDiffer
<1>22. LastTold'
  <2> SUFFICES ASSUME NEW x \in Tickets \ crossed, NEW c \in {"tickets", "ticket"}, NEW i \in DOMAIN posted',
                      IsTurn(i, c, x)', \A j \in DOMAIN posted' : IsTurn(j, c, x)' => j <= i
               PROVE  posted'[i].open = ticket'[x].open \/ Telling(c, x)'
    BY <1>2 DEF LastTold
  <2>1. CASE i = n
    <3>1. server[s].todo \in {Turn3, Turn2} /\ x = t
      BY <1>1, <1>20, <2>1
    <3> QED
      BY <1>2, <1>6, <1>8, <1>17, <2>1, <3>1
  <2>2. CASE i \in DOMAIN posted
    <3>1. ~IsTurn(n, c, x)'
      <4>1. posted \in Seq(TicketEvent)
        BY DEF TicketTypes
      <4>2. i \in Nat /\ n \in Nat /\ i < n
        BY <1>7, <1>8, <2>2, <4>1
      <4> QED
        BY <1>8, <4>2
    <3>2. IsTurn(i, c, x) /\ \A j \in DOMAIN posted : IsTurn(j, c, x) => j <= i
      BY <1>8, <1>20, <2>2
    <3>3. posted[i].open = ticket[x].open \/ Telling(c, x)
      BY <2>2, <3>2 DEF LastTold
    <3> QED
      BY <1>2, <1>8, <1>21, <2>2, <3>1, <3>3
  <2> QED
    BY <1>8, <2>1, <2>2
<1>23. \A c \in {"tickets", "ticket"} : \A x : TurnComes(c, x) => TurnComes(c, x)'
  <2>1. Base' = Base
    BY <1>2 DEF Base
  <2>2. \A c, x : Awaited(c, x) => Awaited(c, x)'
    BY <1>8, <1>20, <2>1 DEF Awaited
  <2>3. \A c, x : IsTurn(n, c, x)' => Awaited(c, x)'
    BY <1>8, <2>1 DEF Awaited
  <2> QED
    BY <1>21, <2>2, <2>3 DEF TurnComes
<1>24. (PageIsOf => PageIsOf') /\ (RowsBelong => RowsBelong')
  BY <1>2, <1>10, BelongsKeep
<1>25. TicketTabHolds'
  <2>1. ASSUME NEW m, MessageComes(m) PROVE MessageComes(m)'
    <3>1. CASE \E i \in DOMAIN posted : /\ i > tab.last /\ posted[i].type = "ticket-message"
                                        /\ posted[i].ticket = tab.ticket /\ posted[i].message = m
      BY <1>2, <1>8, <3>1 DEF MessageComes
    <3>2. ASSUME NEW r \in Servers, server[r].todo = Write1, server[r].ticket = tab.ticket, server[r].message = m
          PROVE  MessageComes(m)'
      <4>1. CASE r # s
        BY <1>2, <1>11, <3>2, <4>1 DEF MessageComes
      <4>2. CASE r = s
        <5>1. posted'[n].type = "ticket-message" /\ posted'[n].ticket = tab.ticket /\ posted'[n].message = m
          BY <1>1, <1>4, <1>6, <1>8, <3>2, <4>2, PlansDiffer
        <5> QED
          BY <1>2, <1>8, <5>1 DEF MessageComes
      <4> QED
        BY <4>1, <4>2
    <3> QED
      BY <2>1, <3>1, <3>2 DEF MessageComes
  <2>2. \A m : Fetching(m) => Fetching(m)'
    BY <1>2 DEF Fetching
  <2>3. MessagesCome => MessagesCome'
    BY <1>2, <1>9, <2>1, <2>2 DEF MessagesCome
  <2>4. PageTurns => PageTurns'
    BY <1>2, <1>23 DEF PageTurns
  <2> QED
    BY <1>2, <1>24, <2>3, <2>4 DEF TicketTabHolds
<1>26. ListTabHolds'
  <2>1. listed(tab.own, tab.about)' = listed(tab.own, tab.about)
    BY <1>2 DEF listed, own_ticket, visible_ticket, Filed
  <2>2. ASSUME NEW x \in listed(tab.own, tab.about), RowComes(x) PROVE RowComes(x)'
    <3>1. CASE \E i \in DOMAIN posted : /\ i > tab.last /\ posted[i].type = "new-ticket" /\ posted[i].ticket = x
                                        /\ tab.own => for_viewer(posted[i])
      <4>1. \A i \in DOMAIN posted : for_viewer(posted[i])' <=> for_viewer(posted[i])
        BY <1>8 DEF for_viewer
      <4> QED
        BY <1>2, <1>8, <3>1, <4>1 DEF RowComes
    <3>2. ASSUME NEW r \in Servers, Files(r, x) PROVE RowComes(x)'
      <4>1. CASE Files(r, x)'
        BY <4>1 DEF RowComes
      <4>2. CASE r = s /\ server[s].todo = File1
        <5>1. x = t /\ type = "new-ticket"
          BY <1>1, <1>4, <3>2, <4>2, PlansDiffer DEF Files
        <5>2. tab.own => own_ticket(Viewer, t)
          BY <5>1 DEF listed
        <5>3. tab.own => for_viewer(posted[n])'
          BY <1>6, <1>8, <5>2 DEF own_ticket, for_viewer
        <5> QED
          BY <1>2, <1>6, <1>8, <5>1, <5>3 DEF RowComes
      <4> QED
        BY <1>14, <3>2, <4>1, <4>2
    <3> QED
      BY <2>2, <3>1, <3>2 DEF RowComes
  <2>3. \A x : Fetching(x) => Fetching(x)'
    BY <1>2 DEF Fetching
  <2>4. RowsCome => RowsCome'
    BY <1>2, <2>1, <2>2, <2>3 DEF RowsCome
  <2>5. RowsTurn => RowsTurn'
    BY <1>2, <1>23 DEF RowsTurn, state
  <2> QED
    BY <1>2, <1>24, <2>4, <2>5 DEF ListTabHolds
<1> QED
  BY <1>13, <1>15, <1>16, <1>18, <1>19, <1>22, <1>25, <1>26

\* The answer of a change comes back to the page that asked for it.
LEMMA AnswerStep ==
  ASSUME TicketInv, NEW s \in Servers, Answer(s)
  PROVE  TicketInv'
<1> USE DEF TicketInv
<1>1. /\ server[s].todo = Turn1 /\ server[s].todo # <<>> /\ Step(s)
      /\ tab' = IF server[s].mine THEN [tab EXCEPT !.open = server[s].row.open] ELSE tab
      /\ UNCHANGED <<ticket, assignees, messages, posted, errands, crossed>>
  <2>1. IsDoing(s, "answer")
    BY DEF Answer
  <2> QED
    BY <2>1, ErrandFacts DEF Answer, IsDoing
<1>2. server[s].row \in TicketRow /\ server[s].ticket \in Tickets /\ server[s].row.open \in BOOLEAN
  <2>1. server[s].row \in TicketRow
    BY <1>1, ErrandFields, PlansDiffer
  <2> QED
    BY <1>1, <2>1, ErrandFields DEF TicketRow
<1>3. /\ tab' \in TabType /\ tab'.at = tab.at /\ tab'.kind = tab.kind /\ tab'.ticket = tab.ticket
      /\ tab'.shown = tab.shown /\ tab'.fetching = tab.fetching /\ tab'.bare = tab.bare /\ tab'.passed = tab.passed
      /\ tab'.last = tab.last /\ tab'.opened = tab.opened
      /\ server[s].mine => tab'.open = server[s].row.open
      /\ ~server[s].mine => tab' = tab
  <2>1. tab \in TabType
    BY DEF TicketTypes
  <2>2. CASE server[s].mine
    <3>1. tab' = [tab EXCEPT !.open = server[s].row.open]
      BY <1>1, <2>2
    <3> QED
      BY <1>2, <2>1, <2>2, <3>1 DEF TabType
  <2>3. CASE ~server[s].mine
    BY <1>1, <2>1, <2>3
  <2> QED
    BY <2>2, <2>3
<1>4. /\ DOMAIN server' = Servers /\ \A r \in Servers \ {s} : server'[r] = server[r]
      /\ server'[s] = NoErrand /\ \A r \in Servers : ErrandShape(server'[r])
  BY <1>1, StepFacts
<1>5. UNCHANGED <<ticket, assignees, messages, posted, errands, crossed>>
  BY <1>1
<1>6. Filed' = Filed /\ \A x : MessagesOf(x)' = MessagesOf(x) /\ FirstOf(x)' = FirstOf(x)
  BY <1>5 DEF Filed, MessagesOf, FirstOf
<1>7. RowsGrow
  BY <1>5, <1>6 DEF RowsGrow
<1>8. TicketTypes'
  BY <1>3, <1>4, <1>5 DEF TicketTypes
<1>9. /\ \A r \in Servers : \A x : Files(r, x)' <=> Files(r, x)
      /\ \A x : Changing(x)' \subseteq Changing(x)
      /\ \A c, x : Telling(c, x) => Telling(c, x)'
  BY <1>1, StepErrands, PlansDiffer
<1>10. FilingHolds'
  <2>1. \A r \in Servers : \A x : Files(r, x)' => server'[r] = server[r]
    BY <1>4, PlanKinds, NoErrandFacts DEF Files
  <2> QED
    BY <1>5, <1>6, <1>9, <2>1 DEF FilingHolds
<1>11. ErrandsHold'
  BY <1>1, <1>3, <1>4, <1>7, NoErrandFacts, StepKeeps
<1>12. ChangesHold'
  <2>1. \A x : s \notin Changing(x)'
    BY <1>4, NoErrandFacts DEF Changing
  <2>2. \A x : Changing(x) \subseteq Servers
    BY DEF Changing
  <2> QED
    BY <1>4, <1>5, <1>9, <2>1, <2>2 DEF ChangesHold
<1>13. EventsHold'
  BY <1>5, <1>6, <1>9 DEF EventsHold
<1>14. LastTold'
  <2>1. \A i, c, x : IsTurn(i, c, x)' <=> IsTurn(i, c, x)
    BY <1>5 DEF IsTurn
  <2> QED
    BY <1>5, <1>9, <2>1 DEF LastTold
<1>15. \A c, x : TurnComes(c, x) => TurnComes(c, x)'
  <2>1. Base' = Base
    BY <1>3 DEF Base
  <2>2. \A c, x : Awaited(c, x) => Awaited(c, x)'
    BY <1>5, <2>1 DEF Awaited, IsTurn
  <2> QED
    BY <1>9, <2>2 DEF TurnComes
<1>16. TicketTabHolds'
  <2>1. PageIsOf => PageIsOf'
    BY <1>3, <1>5, <1>6 DEF PageIsOf, readable
  <2>2. \A m : MessageComes(m) => MessageComes(m)'
    BY <1>1, <1>3, <1>4, <1>5, PlansDiffer DEF MessageComes
  <2>3. \A m : Fetching(m) => Fetching(m)'
    BY <1>3 DEF Fetching
  <2>4. MessagesCome => MessagesCome'
    BY <1>3, <1>5, <1>6, <2>2, <2>3 DEF MessagesCome
  <2>5. ASSUME PageTurns PROVE PageTurns'
    <3> SUFFICES ASSUME NEW t \in Tickets \ (crossed \cup tab.passed), tab.ticket = t
                 PROVE  TurnComes("ticket", t)' \/ tab'.open = ticket[t].open
      BY <1>3, <1>5 DEF PageTurns
    <3>1. CASE server[s].mine
      <4>1. server[s].ticket = t
        BY <3>1 DEF ErrandsHold, ErrandHolds
      <4>2. s \in Changing(t)
        BY <1>1, <4>1, ErrandFacts, PlansDiffer DEF Changing
      <4>3. server[s].row.open = ticket[t].open
        BY <1>1, <4>2 DEF ChangesHold
      <4> QED
        BY <1>3, <3>1, <4>3
    <3>2. CASE ~server[s].mine
      BY <1>3, <1>15, <2>5, <3>2 DEF PageTurns
    <3> QED
      BY <3>1, <3>2
  <2> QED
    BY <1>3, <2>1, <2>4, <2>5 DEF TicketTabHolds
<1>17. ListTabHolds'
  <2>1. CASE server[s].mine
    <3>1. tab.kind = "ticket"
      BY <2>1 DEF ErrandsHold, ErrandHolds
    <3> QED
      BY <1>3, <3>1 DEF ListTabHolds
  <2>2. CASE ~server[s].mine
    <3>1. tab' = tab
      BY <1>3, <2>2
    <3>2. \A x : RowComes(x) => RowComes(x)'
      <4>1. \A i : for_viewer(posted[i])' <=> for_viewer(posted[i])
        BY <1>5 DEF for_viewer
      <4> QED
        BY <1>5, <1>9, <3>1, <4>1 DEF RowComes
    <3>3. listed(tab.own, tab.about)' = listed(tab.own, tab.about)
      BY <1>5, <3>1 DEF listed, own_ticket, visible_ticket, Filed
    <3>4. \A x : Fetching(x) => Fetching(x)'
      BY <3>1 DEF Fetching
    <3>5. RowsCome => RowsCome'
      BY <3>1, <3>2, <3>3, <3>4 DEF RowsCome
    <3>6. RowsBelong => RowsBelong'
      BY <1>7, <3>1, BelongsKeep
    <3>7. RowsTurn => RowsTurn'
      BY <1>5, <1>15, <3>1 DEF RowsTurn, state
    <3> QED
      BY <3>1, <3>5, <3>6, <3>7 DEF ListTabHolds
  <2> QED
    BY <2>1, <2>2
<1> QED
  BY <1>8, <1>10, <1>11, <1>12, <1>13, <1>14, <1>16, <1>17

\* What holds of the tickets, events and requests whatever the page does.
LEMMA PageMoves ==
  ASSUME TicketInv, UNCHANGED <<ticket, assignees, messages, posted, server, errands, crossed>>
  PROVE  /\ FilingHolds' /\ ChangesHold' /\ EventsHold' /\ LastTold'
         /\ (tab.at = "live" => tab'.at = "live" /\ tab'.kind = tab.kind /\ tab'.ticket = tab.ticket) => ErrandsHold'
         /\ (tab' \in TabType /\ tab'.last <= Len(posted) /\ tab'.opened <= Len(posted)
             /\ (tab'.at # "live" => tab'.fetching = {}) /\ (tab'.at = "ask" => tab'.passed = {})) => TicketTypes'
         /\ Filed' = Filed
         /\ \A x : /\ MessagesOf(x)' = MessagesOf(x) /\ FirstOf(x)' = FirstOf(x)
                   /\ readable(Viewer, x)' <=> readable(Viewer, x)
                   /\ own_ticket(Viewer, x)' <=> own_ticket(Viewer, x)
         /\ \A c, x : (Telling(c, x)' <=> Telling(c, x)) /\ \A i : IsTurn(i, c, x)' <=> IsTurn(i, c, x)
         /\ \A r \in Servers : \A x : Files(r, x)' <=> Files(r, x)
         /\ \A i : for_viewer(posted[i])' <=> for_viewer(posted[i])
<1> USE DEF TicketInv
<1>1. /\ Filed' = Filed
      /\ \A x : MessagesOf(x)' = MessagesOf(x) /\ FirstOf(x)' = FirstOf(x) /\ Changing(x)' = Changing(x)
                /\ (readable(Viewer, x)' <=> readable(Viewer, x))
                /\ (own_ticket(Viewer, x)' <=> own_ticket(Viewer, x))
  BY DEF Filed, MessagesOf, FirstOf, Changing, readable, own_ticket
<1>2. \A c, x : (Telling(c, x)' <=> Telling(c, x)) /\ \A i : IsTurn(i, c, x)' <=> IsTurn(i, c, x)
  BY DEF Telling, IsTurn
<1>3. \A r \in Servers : \A x : Files(r, x)' <=> Files(r, x)
  BY DEF Files
<1>4. FilingHolds' /\ ChangesHold'
  BY <1>1, <1>3 DEF FilingHolds, ChangesHold
<1>5. EventsHold'
  BY <1>1, <1>3 DEF EventsHold
<1>6. LastTold'
  BY <1>2 DEF LastTold
<1>7. ASSUME tab.at = "live" => tab'.at = "live" /\ tab'.kind = tab.kind /\ tab'.ticket = tab.ticket
      PROVE  ErrandsHold'
  BY <1>1, <1>7 DEF ErrandsHold, ErrandHolds
<1>8. ASSUME /\ tab' \in TabType /\ tab'.last <= Len(posted) /\ tab'.opened <= Len(posted)
             /\ tab'.at # "live" => tab'.fetching = {}
             /\ tab'.at = "ask" => tab'.passed = {}
      PROVE  TicketTypes'
  BY <1>8 DEF TicketTypes
<1>9. \A i : for_viewer(posted[i])' <=> for_viewer(posted[i])
  BY DEF for_viewer
<1> QED
  BY <1>1, <1>2, <1>3, <1>4, <1>5, <1>6, <1>7, <1>8, <1>9

\* No page is open.
LEMMA NoTabFacts ==
  /\ NoTab.shown = {} /\ NoTab.fetching = {} /\ NoTab.passed = {} /\ NoTab.last = 0 /\ NoTab.opened = 0
  /\ NoTab \in TabType /\ NoTab.at = "none"
BY TicketsAssumption DEF NoTab, TabType, Numbers

\* A ticket is opened.
LEMMA OpenTicketStep ==
  ASSUME TicketInv, NEW t \in Tickets, OpenTicket(t)
  PROVE  TicketInv'
<1> USE DEF TicketInv
<1>1. /\ tab.at = "none" /\ t \in Filed /\ readable(Viewer, t)
      /\ tab' = [NoTab EXCEPT !.at = "ask", !.kind = "ticket", !.ticket = t, !.open = ticket[t].open,
                              !.opened = Len(posted)]
      /\ UNCHANGED <<ticket, assignees, messages, posted, server, errands, crossed>>
  BY DEF OpenTicket
<1>2. ticket[t].open \in BOOLEAN /\ Len(posted) \in Nat
  BY <1>1, FiledFacts DEF TicketRow, TicketTypes
<1>3. /\ tab' \in TabType /\ tab'.at = "ask" /\ tab'.kind = "ticket" /\ tab'.ticket = t /\ tab'.open = ticket[t].open
      /\ tab'.opened = Len(posted) /\ tab'.last = 0 /\ tab'.fetching = {} /\ tab'.passed = {} /\ tab'.shown = {}
  BY <1>1, <1>2, NoTabFacts DEF TabType, Numbers
<1>4. /\ Filed' = Filed /\ (readable(Viewer, t)' <=> readable(Viewer, t))
      /\ FilingHolds' /\ ChangesHold' /\ EventsHold' /\ LastTold' /\ ErrandsHold'
      /\ TicketTypes'
  BY <1>1, <1>2, <1>3, PageMoves
<1>5. PageIsOf' /\ PageTurns'
  BY <1>1, <1>3, <1>4 DEF PageIsOf, PageTurns
<1> QED
  BY <1>3, <1>4, <1>5 DEF TicketTabHolds, ListTabHolds

\* A list is opened.
LEMMA OpenListStep ==
  ASSUME TicketInv, NEW list \in Lists, OpenList(list)
  PROVE  TicketInv'
<1> USE DEF TicketInv
<1>1. /\ tab.at = "none"
      /\ tab' = [NoTab EXCEPT !.at = "ask", !.own = list.own, !.about = list.about, !.elsewhere = list.elsewhere]
      /\ UNCHANGED <<ticket, assignees, messages, posted, server, errands, crossed>>
  BY DEF OpenList
<1>2. list.own \in BOOLEAN /\ list.about \in {"all"} \cup Subjects /\ list.elsewhere \in SUBSET Tickets
  BY TicketsAssumption
<1>3. /\ tab' \in TabType /\ tab'.at = "ask" /\ tab'.kind = "list"
      /\ tab'.opened = 0 /\ tab'.last = 0 /\ tab'.fetching = {} /\ tab'.passed = {}
  BY <1>1, <1>2, NoTabFacts DEF TabType, NoTab
<1>4. Len(posted) \in Nat
  BY DEF TicketTypes
<1>5. FilingHolds' /\ ChangesHold' /\ EventsHold' /\ LastTold' /\ ErrandsHold' /\ TicketTypes'
  BY <1>1, <1>3, <1>4, PageMoves
<1> QED
  BY <1>3, <1>5 DEF TicketTabHolds, ListTabHolds

\* The view asks for the last event.
LEMMA AskLastEventStep ==
  ASSUME TicketInv, AskLastEvent
  PROVE  TicketInv'
<1> USE DEF TicketInv
<1> DEFINE told == {i \in tab.opened + 1 .. Len(posted) :
                      posted[i].type = "ticket-status" /\ posted[i].ticket = tab.ticket}
<1>1. /\ tab.at = "ask"
      /\ tab' = [tab EXCEPT !.at = "render", !.last = Len(posted),
                            !.passed = IF tab.kind = "ticket" /\ told # {} THEN {tab.ticket} ELSE {}]
      /\ UNCHANGED <<ticket, assignees, messages, posted, server, errands, crossed>>
  BY DEF AskLastEvent
<1>2. Len(posted) \in Nat /\ tab \in TabType /\ tab.fetching = {} /\ tab.passed = {} /\ tab.opened <= Len(posted)
      /\ DOMAIN posted = 1 .. Len(posted) /\ tab.opened \in Nat /\ tab.ticket \in Numbers
  BY <1>1 DEF TicketTypes, TabType
<1>3. told # {} => tab'.passed = {tab.ticket} \/ tab.kind = "list"
  BY <1>1, <1>2 DEF TabType
<1>4. \A i \in DOMAIN posted : i > tab.opened /\ IsTurn(i, "ticket", tab.ticket) => i \in told
  BY <1>2 DEF IsTurn
<1> HIDE DEF told
<1>5. /\ tab' \in TabType /\ tab'.at = "render" /\ tab'.kind = tab.kind /\ tab'.ticket = tab.ticket /\ tab'.open = tab.open
      /\ tab'.opened = tab.opened /\ tab'.last = Len(posted) /\ tab'.fetching = {} /\ tab'.shown = tab.shown
  BY <1>1, <1>2 DEF TabType
<1>6. /\ Filed' = Filed /\ FilingHolds' /\ ChangesHold' /\ EventsHold' /\ LastTold' /\ ErrandsHold' /\ TicketTypes'
      /\ \A x : MessagesOf(x)' = MessagesOf(x) /\ (readable(Viewer, x)' <=> readable(Viewer, x))
      /\ \A c, x : Telling(c, x)' <=> Telling(c, x)
  BY <1>1, <1>2, <1>5, PageMoves
<1>7. ASSUME tab.kind = "ticket" PROVE PageIsOf' /\ PageTurns'
  <2>1. PageIsOf /\ PageTurns
    BY <1>1, <1>7 DEF TicketTabHolds
  <2>2. PageIsOf'
    BY <1>2, <1>5, <1>6, <2>1 DEF PageIsOf
  <2>3. PageTurns'
    <3> SUFFICES ASSUME NEW t \in Tickets \ (crossed \cup tab'.passed), tab.ticket = t
                 PROVE  TurnComes("ticket", t)' \/ tab.open = ticket[t].open
      BY <1>1, <1>5 DEF PageTurns
    <3>1. told = {}
      BY <1>3, <1>7
    <3>2. ~Awaited("ticket", t)
      BY <1>1, <1>4, <3>1 DEF Awaited, Base
    <3>3. Telling("ticket", t) => TurnComes("ticket", t)'
      BY <1>6 DEF TurnComes
    <3> QED
      BY <1>2, <2>1, <3>2, <3>3 DEF PageTurns, TurnComes
  <2> QED
    BY <2>2, <2>3
<1> QED
  BY <1>5, <1>6, <1>7 DEF TicketTabHolds, ListTabHolds

\* Open and closed are two states.
LEMMA StatesDiffer ==
  \A open : state(open) \in {"open", "closed"} /\ state(open) \notin {"none", "asked"}
BY DEF state

\* What is listed may be read, and is the viewer's own in a list of their own.
LEMMA ListedFacts ==
  ASSUME NEW own, NEW about, NEW t \in listed(own, about)
  PROVE  t \in Filed /\ readable(Viewer, t) /\ (own => own_ticket(Viewer, t))
BY DEF listed, readable, own_ticket, visible_ticket

\* The page is rendered: what it has is what there is.
LEMMA RenderStep ==
  ASSUME TicketInv, Render
  PROVE  TicketInv'
<1> USE DEF TicketInv
<1>1. /\ tab.at = "render"
      /\ UNCHANGED <<ticket, assignees, messages, posted, server, errands, crossed>>
      /\ tab.kind = "ticket" => tab' = [tab EXCEPT !.at = "live", !.shown = MessagesOf(tab.ticket),
                                                   !.bare = FirstOf(tab.ticket) = {}]
      /\ tab.kind # "ticket" =>
           tab' = [tab EXCEPT !.at = "live",
                              !.rows = [t \in Tickets |-> IF t \in listed(tab.own, tab.about)
                                                          THEN state(ticket[t].open) ELSE "none"]]
  BY DEF Render
<1>2. tab \in TabType /\ tab.fetching = {} /\ Len(posted) \in Nat /\ tab.last <= Len(posted) /\ tab.opened <= Len(posted)
  BY <1>1 DEF TicketTypes
<1>3. MessagesOf(tab.ticket) \in SUBSET Nat
  <2>1. DOMAIN messages \subseteq Nat
    BY DEF TicketTypes
  <2> QED
    BY <2>1 DEF MessagesOf
<1>4. [t \in Tickets |-> IF t \in listed(tab.own, tab.about) THEN state(ticket[t].open) ELSE "none"]
        \in [Tickets -> {"none", "open", "closed"}]
  BY StatesDiffer
<1>5. CASE tab.kind = "ticket"
  <2>1. tab' = [tab EXCEPT !.at = "live", !.shown = MessagesOf(tab.ticket), !.bare = FirstOf(tab.ticket) = {}]
    BY <1>1, <1>5
  <2>2. /\ tab' \in TabType /\ tab'.at = "live" /\ tab'.kind = "ticket" /\ tab'.ticket = tab.ticket /\ tab'.open = tab.open
        /\ tab'.opened = tab.opened /\ tab'.last = tab.last /\ tab'.fetching = {} /\ tab'.passed = tab.passed
        /\ tab'.shown = MessagesOf(tab.ticket) /\ (tab'.bare <=> FirstOf(tab.ticket) = {})
    BY <1>2, <1>3, <1>5, <2>1 DEF TabType
  <2>3. /\ Filed' = Filed /\ FilingHolds' /\ ChangesHold' /\ EventsHold' /\ LastTold' /\ ErrandsHold' /\ TicketTypes'
        /\ \A x : MessagesOf(x)' = MessagesOf(x) /\ FirstOf(x)' = FirstOf(x) /\ (readable(Viewer, x)' <=> readable(Viewer, x))
        /\ \A c, x : (Telling(c, x)' <=> Telling(c, x)) /\ \A i : IsTurn(i, c, x)' <=> IsTurn(i, c, x)
    BY <1>1, <1>2, <2>2, PageMoves
  <2>4. PageIsOf /\ PageTurns
    BY <1>1, <1>5 DEF TicketTabHolds
  <2>5. PageIsOf'
    BY <2>2, <2>3, <2>4 DEF PageIsOf
  <2>6. MessagesCome'
    BY <2>2, <2>3 DEF MessagesCome
  <2>7. Base' = Base
    BY <1>1, <2>2 DEF Base
  <2>8. \A c, x : TurnComes(c, x) => TurnComes(c, x)'
    BY <1>1, <2>3, <2>7 DEF TurnComes, Awaited
  <2>9. PageTurns'
    BY <1>1, <2>2, <2>4, <2>8 DEF PageTurns
  <2> QED
    BY <2>2, <2>3, <2>5, <2>6, <2>9 DEF TicketTabHolds, ListTabHolds
<1>6. CASE tab.kind = "list"
  <2>1. tab' = [tab EXCEPT !.at = "live",
                           !.rows = [t \in Tickets |-> IF t \in listed(tab.own, tab.about)
                                                       THEN state(ticket[t].open) ELSE "none"]]
    BY <1>1, <1>6
  <2>2. /\ tab' \in TabType /\ tab'.at = "live" /\ tab'.kind = "list" /\ tab'.own = tab.own /\ tab'.about = tab.about
        /\ tab'.opened = tab.opened /\ tab'.last = tab.last /\ tab'.fetching = {} /\ tab'.passed = tab.passed
        /\ tab'.rows = [t \in Tickets |-> IF t \in listed(tab.own, tab.about) THEN state(ticket[t].open) ELSE "none"]
    BY <1>2, <1>4, <1>6, <2>1 DEF TabType
  <2>3. /\ Filed' = Filed /\ FilingHolds' /\ ChangesHold' /\ EventsHold' /\ LastTold' /\ ErrandsHold' /\ TicketTypes'
        /\ \A x : (readable(Viewer, x)' <=> readable(Viewer, x)) /\ (own_ticket(Viewer, x)' <=> own_ticket(Viewer, x))
    BY <1>1, <1>2, <2>2, PageMoves
  <2>4. \A t \in Tickets : t \in listed(tab.own, tab.about) =>
          t \in Filed /\ readable(Viewer, t) /\ (tab.own => own_ticket(Viewer, t))
    BY ListedFacts
  <2>5. listed(tab.own, tab.about)' = listed(tab.own, tab.about)
    BY <1>1, <2>2 DEF listed, own_ticket, visible_ticket, Filed
  <2>6. listed(tab.own, tab.about) \subseteq Tickets
    BY DEF listed, Filed
  <2>7. RowsCome'
    BY <2>2, <2>5, <2>6, StatesDiffer DEF RowsCome
  <2>8. RowsBelong'
    BY <2>2, <2>3, <2>4 DEF RowsBelong, InList
  <2>9. RowsTurn'
    BY <1>1, <2>2 DEF RowsTurn, state
  <2> QED
    BY <2>2, <2>3, <2>7, <2>8, <2>9 DEF TicketTabHolds, ListTabHolds
<1> QED
  BY <1>2, <1>5, <1>6 DEF TabType

\* A row or a message is fetched.
LEMMA FetchRowStep ==
  ASSUME TicketInv, NEW f \in tab.fetching, FetchRow(f)
  PROVE  TicketInv'
<1> USE DEF TicketInv
<1> DEFINE t == IF tab.kind = "ticket" THEN tab.ticket ELSE f.id
           g == [f EXCEPT !.state = state(ticket[t].open)]
<1>1. /\ f.state = "asked"
      /\ tab' = [tab EXCEPT !.fetching = (@ \ {f}) \cup (IF readable(Viewer, t) THEN {g} ELSE {})]
      /\ UNCHANGED <<ticket, assignees, messages, posted, server, errands, crossed>>
  BY DEF FetchRow
<1>2. /\ tab \in TabType /\ tab.at = "live" /\ Len(posted) \in Nat /\ tab.last <= Len(posted) /\ tab.opened <= Len(posted)
      /\ f \in [id : Numbers, state : {"asked", "open", "closed"}]
  BY DEF TicketTypes, TabType
<1>3. g \in [id : Numbers, state : {"asked", "open", "closed"}] /\ g.id = f.id /\ g.state = state(ticket[t].open)
  BY <1>2, StatesDiffer
<1> HIDE DEF t, g
<1>4. /\ tab' \in TabType /\ tab'.at = "live" /\ tab'.kind = tab.kind /\ tab'.ticket = tab.ticket /\ tab'.open = tab.open
      /\ tab'.opened = tab.opened /\ tab'.last = tab.last /\ tab'.passed = tab.passed /\ tab'.shown = tab.shown
      /\ tab'.bare = tab.bare /\ tab'.rows = tab.rows /\ tab'.own = tab.own /\ tab'.about = tab.about
      /\ tab'.elsewhere = tab.elsewhere
      /\ tab'.fetching = (tab.fetching \ {f}) \cup (IF readable(Viewer, t) THEN {g} ELSE {})
  BY <1>1, <1>2, <1>3 DEF TabType
<1>5. /\ Filed' = Filed /\ FilingHolds' /\ ChangesHold' /\ EventsHold' /\ LastTold' /\ ErrandsHold' /\ TicketTypes'
      /\ \A x : MessagesOf(x)' = MessagesOf(x) /\ FirstOf(x)' = FirstOf(x)
                /\ (readable(Viewer, x)' <=> readable(Viewer, x)) /\ (own_ticket(Viewer, x)' <=> own_ticket(Viewer, x))
      /\ \A c, x : (Telling(c, x)' <=> Telling(c, x)) /\ \A i : IsTurn(i, c, x)' <=> IsTurn(i, c, x)
      /\ \A r \in Servers : \A x : Files(r, x)' <=> Files(r, x)
      /\ \A i : for_viewer(posted[i])' <=> for_viewer(posted[i])
  BY <1>1, <1>2, <1>4, PageMoves
<1>6. \A c, x : TurnComes(c, x) => TurnComes(c, x)'
  <2>1. Base' = Base
    BY <1>2, <1>4 DEF Base
  <2> QED
    BY <1>1, <1>5, <2>1 DEF TurnComes, Awaited
<1>7. readable(Viewer, t) => \A id : Fetching(id) => Fetching(id)'
  BY <1>3, <1>4 DEF Fetching
<1>8. ~readable(Viewer, t) => \A id : Fetching(id) /\ id # f.id => Fetching(id)'
  BY <1>4 DEF Fetching
<1>9. CASE tab.kind = "ticket"
  <2>1. PageIsOf /\ MessagesCome /\ PageTurns
    BY <1>2, <1>9 DEF TicketTabHolds
  <2>2. t = tab.ticket /\ readable(Viewer, t)
    BY <1>9, <2>1 DEF t, PageIsOf
  <2>3. PageIsOf'
    BY <1>3, <1>4, <1>5, <2>1, <2>2 DEF PageIsOf
  <2>4. \A m : MessageComes(m) => MessageComes(m)'
    BY <1>1, <1>4 DEF MessageComes
  <2>5. MessagesCome'
    BY <1>1, <1>4, <1>5, <1>7, <2>1, <2>2, <2>4 DEF MessagesCome
  <2>6. PageTurns'
    BY <1>1, <1>4, <1>6, <2>1 DEF PageTurns
  <2> QED
    BY <1>4, <1>5, <1>9, <2>3, <2>5, <2>6 DEF TicketTabHolds, ListTabHolds
<1>10. CASE tab.kind = "list"
  <2>1. RowsCome /\ RowsBelong /\ RowsTurn
    BY <1>2, <1>10 DEF ListTabHolds
  <2>2. t = f.id /\ InList(t) /\ t \in Tickets
    BY <1>10, <2>1 DEF t, RowsBelong, InList, Filed
  <2>3. listed(tab.own, tab.about)' = listed(tab.own, tab.about)
    BY <1>1, <1>4 DEF listed, own_ticket, visible_ticket, Filed
  <2>4. \A x \in listed(tab.own, tab.about) : readable(Viewer, x)
    BY ListedFacts
  <2>5. \A x : RowComes(x) => RowComes(x)'
    BY <1>1, <1>4, <1>5 DEF RowComes
  <2>6. RowsCome'
    <3>1. \A x \in listed(tab.own, tab.about) : Fetching(x) => Fetching(x)'
      BY <1>7, <1>8, <2>2, <2>4
    <3> QED
      BY <1>4, <2>1, <2>3, <2>5, <3>1 DEF RowsCome
  <2>7. RowsBelong'
    <3>1. \A x : InList(x) => InList(x)'
      BY <1>4, <1>5 DEF InList
    <3>2. \A x \in Tickets : tab'.rows[x] # "none" => InList(x)' /\ readable(Viewer, x)'
      BY <1>4, <1>5, <2>1, <3>1 DEF RowsBelong
    <3>3. ASSUME NEW h \in tab'.fetching PROVE InList(h.id)' /\ (h.state # "asked" => readable(Viewer, h.id)')
      <4>1. CASE h \in tab.fetching
        BY <1>5, <2>1, <3>1, <4>1 DEF RowsBelong
      <4>2. CASE h = g /\ readable(Viewer, t)
        BY <1>3, <1>5, <2>2, <3>1, <4>2
      <4> QED
        BY <1>4, <3>3, <4>1, <4>2
    <3> QED
      BY <3>2, <3>3 DEF RowsBelong
  <2>8. RowsTurn'
    <3>1. g.id = t /\ g.state = state(ticket[t].open)
      BY <1>3, <2>2
    <3> SUFFICES ASSUME NEW x \in Tickets \ (crossed \cup tab.passed \cup tab.elsewhere), ~TurnComes("tickets", x)'
                 PROVE  /\ tab.rows[x] \in {"none", state(ticket[x].open)}
                        /\ \A h \in tab'.fetching : h.id = x => h.state \in {"asked", state(ticket[x].open)}
      BY <1>1, <1>4 DEF RowsTurn, state
    <3>2. /\ tab.rows[x] \in {"none", state(ticket[x].open)}
          /\ \A h \in tab.fetching : h.id = x => h.state \in {"asked", state(ticket[x].open)}
      BY <1>6, <2>1 DEF RowsTurn
    <3> QED
      BY <1>4, <3>1, <3>2
  <2> QED
    BY <1>4, <1>5, <1>10, <2>6, <2>7, <2>8 DEF TicketTabHolds, ListTabHolds
<1> QED
  BY <1>2, <1>9, <1>10 DEF TabType

\* A row or a message that was fetched is added.
LEMMA AddRowStep ==
  ASSUME TicketInv, NEW f \in tab.fetching, AddRow(f)
  PROVE  TicketInv'
<1> USE DEF TicketInv
<1>1. /\ f.state # "asked"
      /\ UNCHANGED <<ticket, assignees, messages, posted, server, errands, crossed>>
      /\ tab.kind = "ticket" => tab' = [tab EXCEPT !.fetching = @ \ {f}, !.shown = @ \cup {f.id}]
      /\ tab.kind # "ticket" => tab' = [tab EXCEPT !.fetching = @ \ {f}, !.rows[f.id] = f.state]
  BY DEF AddRow
<1>2. /\ tab \in TabType /\ tab.at = "live" /\ Len(posted) \in Nat /\ tab.last <= Len(posted) /\ tab.opened <= Len(posted)
      /\ f \in [id : Numbers, state : {"asked", "open", "closed"}]
  BY DEF TicketTypes, TabType
<1>3. CASE tab.kind = "ticket"
  <2>1. PageIsOf /\ MessagesCome /\ PageTurns
    BY <1>2, <1>3 DEF TicketTabHolds
  <2>2. f.id \in MessagesOf(tab.ticket) /\ f.id \in Nat
    <3>1. DOMAIN messages \subseteq Nat
      BY DEF TicketTypes
    <3> QED
      BY <2>1, <3>1 DEF PageIsOf, MessagesOf
  <2>3. tab' = [tab EXCEPT !.fetching = @ \ {f}, !.shown = @ \cup {f.id}]
    BY <1>1, <1>3
  <2>4. /\ tab' \in TabType /\ tab'.at = "live" /\ tab'.kind = "ticket" /\ tab'.ticket = tab.ticket /\ tab'.open = tab.open
        /\ tab'.opened = tab.opened /\ tab'.last = tab.last /\ tab'.passed = tab.passed /\ tab'.bare = tab.bare
        /\ tab'.fetching = tab.fetching \ {f} /\ tab'.shown = tab.shown \cup {f.id}
    BY <1>2, <1>3, <2>2, <2>3 DEF TabType
  <2>5. /\ Filed' = Filed /\ FilingHolds' /\ ChangesHold' /\ EventsHold' /\ LastTold' /\ ErrandsHold' /\ TicketTypes'
        /\ \A x : MessagesOf(x)' = MessagesOf(x) /\ FirstOf(x)' = FirstOf(x) /\ (readable(Viewer, x)' <=> readable(Viewer, x))
        /\ \A c, x : (Telling(c, x)' <=> Telling(c, x)) /\ \A i : IsTurn(i, c, x)' <=> IsTurn(i, c, x)
    BY <1>1, <1>2, <1>3, <2>4, PageMoves
  <2>6. Base' = Base
    BY <1>2, <2>4 DEF Base
  <2>7. \A c, x : TurnComes(c, x) => TurnComes(c, x)'
    BY <1>1, <2>5, <2>6 DEF TurnComes, Awaited
  <2>8. \A m : Fetching(m) /\ m # f.id => Fetching(m)'
    BY <2>4 DEF Fetching
  <2>9. \A m : MessageComes(m) => MessageComes(m)'
    BY <1>1, <2>4 DEF MessageComes
  <2>10. PageIsOf'
    BY <2>1, <2>2, <2>4, <2>5 DEF PageIsOf
  <2>11. MessagesCome'
    BY <1>1, <2>1, <2>4, <2>5, <2>8, <2>9 DEF MessagesCome
  <2>12. PageTurns'
    BY <1>1, <2>1, <2>4, <2>7 DEF PageTurns
  <2> QED
    BY <2>4, <2>5, <2>10, <2>11, <2>12 DEF TicketTabHolds, ListTabHolds
<1>4. CASE tab.kind = "list"
  <2>1. RowsCome /\ RowsBelong /\ RowsTurn
    BY <1>2, <1>4 DEF ListTabHolds
  <2>2. InList(f.id) /\ readable(Viewer, f.id) /\ f.id \in Tickets
    BY <1>1, <2>1 DEF RowsBelong, InList, Filed
  <2>3. tab' = [tab EXCEPT !.fetching = @ \ {f}, !.rows[f.id] = f.state]
    BY <1>1, <1>4
  <2>4. f.state \in {"open", "closed"} /\ tab.rows \in [Tickets -> {"none", "open", "closed"}]
    BY <1>1, <1>2 DEF TabType
  <2>5. /\ tab'.at = "live" /\ tab'.kind = "list" /\ tab'.ticket = tab.ticket /\ tab'.open = tab.open
        /\ tab'.opened = tab.opened /\ tab'.last = tab.last /\ tab'.passed = tab.passed
        /\ tab'.own = tab.own /\ tab'.about = tab.about /\ tab'.elsewhere = tab.elsewhere
        /\ tab'.fetching = tab.fetching \ {f} /\ tab'.rows = [tab.rows EXCEPT ![f.id] = f.state]
    BY <1>2, <1>4, <2>3 DEF TabType
  <2>6. /\ tab'.rows \in [Tickets -> {"none", "open", "closed"}]
        /\ tab'.rows[f.id] = f.state /\ \A x \in Tickets \ {f.id} : tab'.rows[x] = tab.rows[x]
    BY <2>2, <2>4, <2>5
  <2>7. tab' \in TabType
    <3> DEFINE rows == [tab.rows EXCEPT ![f.id] = f.state]
    <3>1. rows \in [Tickets -> {"none", "open", "closed"}]
      BY <2>2, <2>4
    <3>2. tab' = [tab EXCEPT !.fetching = tab.fetching \ {f}, !.rows = rows]
      BY <1>2, <2>3 DEF TabType
    <3> HIDE DEF rows
    <3> QED
      BY <1>2, <3>1, <3>2 DEF TabType
  <2>8. /\ Filed' = Filed /\ FilingHolds' /\ ChangesHold' /\ EventsHold' /\ LastTold' /\ ErrandsHold' /\ TicketTypes'
        /\ \A x : (readable(Viewer, x)' <=> readable(Viewer, x)) /\ (own_ticket(Viewer, x)' <=> own_ticket(Viewer, x))
        /\ \A c, x : (Telling(c, x)' <=> Telling(c, x)) /\ \A i : IsTurn(i, c, x)' <=> IsTurn(i, c, x)
        /\ \A r \in Servers : \A x : Files(r, x)' <=> Files(r, x)
        /\ \A i : for_viewer(posted[i])' <=> for_viewer(posted[i])
    BY <1>1, <1>2, <1>4, <2>5, <2>7, PageMoves
  <2>9. Base' = Base
    BY <1>2, <2>5 DEF Base
  <2>10. \A c, x : TurnComes(c, x) => TurnComes(c, x)'
    BY <1>1, <2>8, <2>9 DEF TurnComes, Awaited
  <2>11. \A m : Fetching(m) /\ m # f.id => Fetching(m)'
    BY <2>5 DEF Fetching
  <2>12. \A x : RowComes(x) => RowComes(x)'
    BY <1>1, <2>5, <2>8 DEF RowComes
  <2>13. listed(tab.own, tab.about)' = listed(tab.own, tab.about)
    BY <1>1, <2>5 DEF listed, own_ticket, visible_ticket, Filed
  <2>14. listed(tab.own, tab.about) \subseteq Tickets
    BY DEF listed, Filed
  <2>15. RowsCome'
    BY <2>1, <2>4, <2>6, <2>11, <2>12, <2>13, <2>14 DEF RowsCome
  <2>16. \A x : InList(x) => InList(x)'
    BY <2>5, <2>8 DEF InList
  <2>17. RowsBelong'
    BY <2>1, <2>2, <2>5, <2>6, <2>8, <2>16 DEF RowsBelong
  <2>18. RowsTurn'
    <3> SUFFICES ASSUME NEW x \in Tickets \ (crossed \cup tab.passed \cup tab.elsewhere), ~TurnComes("tickets", x)'
                 PROVE  /\ tab'.rows[x] \in {"none", state(ticket[x].open)}
                        /\ \A h \in tab'.fetching : h.id = x => h.state \in {"asked", state(ticket[x].open)}
      BY <1>1, <2>5 DEF RowsTurn, state
    <3>1. /\ tab.rows[x] \in {"none", state(ticket[x].open)}
          /\ \A h \in tab.fetching : h.id = x => h.state \in {"asked", state(ticket[x].open)}
      BY <2>1, <2>10 DEF RowsTurn
    <3>2. tab'.rows[x] \in {"none", state(ticket[x].open)}
      BY <1>1, <2>6, <3>1
    <3> QED
      BY <2>5, <3>1, <3>2
  <2> QED
    BY <2>5, <2>8, <2>15, <2>17, <2>18 DEF TicketTabHolds, ListTabHolds
<1> QED
  BY <1>2, <1>3, <1>4 DEF TabType

\* The page takes the next event.
LEMMA TakeEventStep ==
  ASSUME TicketInv, TakeEvent
  PROVE  TicketInv'
<1> USE DEF TicketInv
<1>1. PICK n \in DOMAIN posted : n = tab.last + 1
  <2>1. tab.last \in Nat /\ tab.last < Len(posted) /\ DOMAIN posted = 1 .. Len(posted) /\ Len(posted) \in Nat
    BY DEF TakeEvent, TicketTypes, TabType
  <2> QED
    BY <2>1
<1>2. PICK e : e = posted[n]
  OBVIOUS
<1> DEFINE took == Take(e)
<1>3. /\ tab.at = "live" /\ tab' = [took EXCEPT !.last = @ + 1]
      /\ UNCHANGED <<ticket, assignees, messages, posted, server, errands, crossed>>
  BY <1>1, <1>2 DEF TakeEvent
<1>4. /\ tab \in TabType /\ Len(posted) \in Nat /\ tab.last <= Len(posted) /\ tab.opened <= Len(posted)
      /\ posted \in Seq(TicketEvent) /\ e \in TicketEvent
  BY <1>1, <1>2 DEF TicketTypes
<1>5. /\ \A i \in DOMAIN posted : i \in Nat /\ (i > tab.last <=> i >= n) /\ (i > tab.last /\ i # n => i > n)
      /\ n \in Nat /\ n > tab.last /\ n <= Len(posted)
  BY <1>1, <1>4 DEF TabType
<1>6. /\ e.ticket \in Filed /\ e.ticket \in Tickets /\ e.user = ticket[e.ticket].by
      /\ e.assignees \subseteq assignees[e.ticket]
      /\ e.type = "ticket-message" => e.channel = "ticket" /\ e.message \in MessagesOf(e.ticket)
      /\ e.type = "new-ticket" => e.channel = "tickets"
      /\ e.type = "ticket-status" /\ e.ticket \notin crossed => e.assignees = assignees[e.ticket]
  BY <1>1, <1>2, <1>4 DEF EventsHold, TicketEvent
<1>7. \A c, x : IsTurn(n, c, x) <=> e.channel = c /\ e.type = "ticket-status" /\ e.ticket = x
  BY <1>2 DEF IsTurn
\* Its event is the last of its state, or another is to come.
<1>8. ASSUME NEW x \in Tickets \ crossed, NEW c \in {"tickets", "ticket"}, IsTurn(n, c, x)
      PROVE  \/ \E j \in DOMAIN posted : j > n /\ IsTurn(j, c, x)
             \/ e.open = ticket[x].open \/ Telling(c, x)
  <2>1. CASE \E j \in DOMAIN posted : ~(j <= n) /\ IsTurn(j, c, x)
    BY <1>5, <2>1
  <2>2. CASE \A j \in DOMAIN posted : IsTurn(j, c, x) => j <= n
    BY <1>1, <1>2, <1>8, <2>2 DEF LastTold
  <2> QED
    BY <2>1, <2>2
<1>9. ASSUME took \in TabType, took.at = "live", took.last = tab.last, took.opened = tab.opened,
             took.kind = tab.kind, took.ticket = tab.ticket
      PROVE  /\ tab' \in TabType /\ tab'.at = "live" /\ tab'.last = n /\ tab'.kind = tab.kind /\ tab'.ticket = tab.ticket
             /\ tab'.open = took.open /\ tab'.shown = took.shown /\ tab'.fetching = took.fetching
             /\ tab'.bare = took.bare /\ tab'.passed = took.passed /\ tab'.rows = took.rows /\ tab'.own = took.own
             /\ tab'.about = took.about /\ tab'.elsewhere = took.elsewhere
             /\ tab'.opened = tab.opened
  <2> HIDE DEF took
  <2>1. took.last + 1 = n /\ n \in Nat
    BY <1>1, <1>5, <1>9
  <2> QED
    BY <1>3, <1>9, <2>1 DEF TabType
<1>10. ASSUME tab' \in TabType, tab'.at = "live", tab'.last = n, tab'.kind = tab.kind, tab'.ticket = tab.ticket,
              tab'.opened = tab.opened
       PROVE  /\ Filed' = Filed /\ FilingHolds' /\ ChangesHold' /\ EventsHold' /\ LastTold' /\ ErrandsHold' /\ TicketTypes'
              /\ \A x : MessagesOf(x)' = MessagesOf(x) /\ FirstOf(x)' = FirstOf(x)
                        /\ (readable(Viewer, x)' <=> readable(Viewer, x)) /\ (own_ticket(Viewer, x)' <=> own_ticket(Viewer, x))
              /\ \A c, x : (Telling(c, x)' <=> Telling(c, x)) /\ \A i : IsTurn(i, c, x)' <=> IsTurn(i, c, x)
              /\ \A r \in Servers : \A x : Files(r, x)' <=> Files(r, x)
              /\ \A i : for_viewer(posted[i])' <=> for_viewer(posted[i])
              /\ \A c, x : TurnComes(c, x) /\ ~IsTurn(n, c, x) => TurnComes(c, x)'
              /\ \A c, x : (\E j \in DOMAIN posted : j > n /\ IsTurn(j, c, x)) => TurnComes(c, x)'
              /\ \A c, x : Telling(c, x) => TurnComes(c, x)'
  <2>1. /\ Filed' = Filed /\ FilingHolds' /\ ChangesHold' /\ EventsHold' /\ LastTold' /\ ErrandsHold' /\ TicketTypes'
        /\ \A x : MessagesOf(x)' = MessagesOf(x) /\ FirstOf(x)' = FirstOf(x)
                  /\ (readable(Viewer, x)' <=> readable(Viewer, x)) /\ (own_ticket(Viewer, x)' <=> own_ticket(Viewer, x))
        /\ \A c, x : (Telling(c, x)' <=> Telling(c, x)) /\ \A i : IsTurn(i, c, x)' <=> IsTurn(i, c, x)
        /\ \A r \in Servers : \A x : Files(r, x)' <=> Files(r, x)
        /\ \A i : for_viewer(posted[i])' <=> for_viewer(posted[i])
    BY <1>3, <1>4, <1>5, <1>10, PageMoves
  <2>2. Base = tab.last /\ Base' = n
    BY <1>3, <1>10 DEF Base
  <2>3. \A c, x : (\E j \in DOMAIN posted : j > n /\ IsTurn(j, c, x)) => Awaited(c, x)'
    BY <1>3, <2>1, <2>2 DEF Awaited
  <2>4. \A c, x : Awaited(c, x) /\ ~IsTurn(n, c, x) => \E j \in DOMAIN posted : j > n /\ IsTurn(j, c, x)
    BY <1>5, <2>2 DEF Awaited
  <2> QED
    BY <2>1, <2>3, <2>4 DEF TurnComes
<1> HIDE DEF took
<1>11. CASE tab.kind = "ticket"
  <2>1. PageIsOf /\ MessagesCome /\ PageTurns
    BY <1>3, <1>11 DEF TicketTabHolds
  <2>2. /\ ~(e.channel = "ticket" /\ e.ticket = tab.ticket) => took = tab
        /\ e.channel = "ticket" /\ e.ticket = tab.ticket /\ e.type = "ticket-status" => took = [tab EXCEPT !.open = e.open]
        /\ e.channel = "ticket" /\ e.ticket = tab.ticket /\ e.type # "ticket-status" =>
             took = [tab EXCEPT !.fetching = @ \cup {[id |-> e.message, state |-> "asked"]}]
    BY <1>11 DEF took, Take
  <2>3. e.open \in BOOLEAN /\ [id |-> e.message, state |-> "asked"] \in [id : Numbers, state : {"asked", "open", "closed"}]
        /\ e.type \in {"new-ticket", "ticket-status", "ticket-message"}
    BY <1>4 DEF TicketEvent, Numbers
  <2>4. /\ took \in TabType /\ took.at = "live" /\ took.last = tab.last /\ took.opened = tab.opened
        /\ took.kind = tab.kind /\ took.ticket = tab.ticket /\ took.shown = tab.shown /\ took.bare = tab.bare
        /\ took.passed = tab.passed
        /\ took.open = IF IsTurn(n, "ticket", tab.ticket) THEN e.open ELSE tab.open
        /\ took.fetching = IF e.type = "ticket-message" /\ e.ticket = tab.ticket
                           THEN tab.fetching \cup {[id |-> e.message, state |-> "asked"]} ELSE tab.fetching
    <3>1. CASE ~(e.channel = "ticket" /\ e.ticket = tab.ticket)
      BY <1>3, <1>4, <1>6, <1>7, <2>2, <3>1
    <3>2. CASE e.channel = "ticket" /\ e.ticket = tab.ticket /\ e.type = "ticket-status"
      BY <1>3, <1>4, <1>7, <2>2, <2>3, <3>2 DEF TabType
    <3>3. CASE e.channel = "ticket" /\ e.ticket = tab.ticket /\ e.type # "ticket-status"
      <4>1. e.type = "ticket-message"
        BY <1>6, <2>3, <3>3
      <4> QED
        BY <1>3, <1>4, <1>7, <2>2, <2>3, <3>3, <4>1 DEF TabType
    <3> QED
      BY <3>1, <3>2, <3>3
  <2>5. /\ tab' \in TabType /\ tab'.at = "live" /\ tab'.last = n /\ tab'.kind = "ticket" /\ tab'.ticket = tab.ticket
        /\ tab'.open = took.open /\ tab'.shown = tab.shown /\ tab'.fetching = took.fetching
        /\ tab'.bare = tab.bare /\ tab'.passed = tab.passed /\ tab'.opened = tab.opened
    BY <1>9, <1>11, <2>4
  <2>6. /\ Filed' = Filed /\ FilingHolds' /\ ChangesHold' /\ EventsHold' /\ LastTold' /\ ErrandsHold' /\ TicketTypes'
        /\ \A x : MessagesOf(x)' = MessagesOf(x) /\ FirstOf(x)' = FirstOf(x) /\ (readable(Viewer, x)' <=> readable(Viewer, x))
        /\ \A c, x : TurnComes(c, x) /\ ~IsTurn(n, c, x) => TurnComes(c, x)'
        /\ \A c, x : (\E j \in DOMAIN posted : j > n /\ IsTurn(j, c, x)) => TurnComes(c, x)'
        /\ \A c, x : Telling(c, x) => TurnComes(c, x)'
    BY <1>10, <1>11, <2>5
  <2>7. PageIsOf'
    BY <1>6, <2>1, <2>4, <2>5, <2>6 DEF PageIsOf
  <2>8. \A m : Fetching(m) => Fetching(m)'
    BY <2>4, <2>5 DEF Fetching
  <2>9. \A m : MessageComes(m) => MessageComes(m)' \/ Fetching(m)'
    <3> SUFFICES ASSUME NEW m, MessageComes(m), ~Fetching(m)' PROVE MessageComes(m)'
      OBVIOUS
    <3>1. ~(e.type = "ticket-message" /\ e.ticket = tab.ticket /\ e.message = m)
      <4> DEFINE asked == [id |-> e.message, state |-> "asked"]
      <4>1. asked.id = e.message
        OBVIOUS
      <4>2. e.type = "ticket-message" /\ e.ticket = tab.ticket => asked \in tab'.fetching
        BY <2>4, <2>5
      <4> HIDE DEF asked
      <4>3. \A a : a \in tab'.fetching /\ a.id = e.message => Fetching(e.message)'
        BY DEF Fetching
      <4>4. e.type = "ticket-message" /\ e.ticket = tab.ticket => Fetching(e.message)'
        BY <4>1, <4>2, <4>3
      <4> QED
        BY <4>4
    <3> QED
      BY <1>2, <1>3, <1>5, <2>5, <3>1 DEF MessageComes
  <2>10. MessagesCome'
    BY <1>3, <2>1, <2>5, <2>6, <2>8, <2>9 DEF MessagesCome
  <2>11. PageTurns'
    <3> SUFFICES ASSUME NEW x \in Tickets \ (crossed \cup tab.passed), tab.ticket = x
                 PROVE  TurnComes("ticket", x)' \/ tab'.open = ticket[x].open
      BY <1>3, <2>5 DEF PageTurns
    <3>1. CASE IsTurn(n, "ticket", x)
      BY <1>8, <2>4, <2>5, <2>6, <3>1
    <3>2. CASE ~IsTurn(n, "ticket", x)
      BY <2>1, <2>4, <2>5, <2>6, <3>2 DEF PageTurns
    <3> QED
      BY <3>1, <3>2
  <2> QED
    BY <2>5, <2>6, <2>7, <2>10, <2>11 DEF TicketTabHolds, ListTabHolds
<1>12. CASE tab.kind = "list"
  <2>1. RowsCome /\ RowsBelong /\ RowsTurn
    BY <1>3, <1>12 DEF ListTabHolds
  <2> DEFINE taken == e.channel = "tickets" /\ (tab.own => for_viewer(e))
             asked == [id |-> e.ticket, state |-> "asked"]
             ids == {f.id : f \in tab.fetching} \cap {e.ticket}
             row == IF tab.rows[e.ticket] = "none" THEN "none" ELSE state(e.open)
  <2>2. /\ ~taken => took = tab
        /\ taken /\ e.type = "new-ticket" => took = [tab EXCEPT !.fetching = @ \cup {asked}]
        /\ taken /\ e.type # "new-ticket" /\ e.ticket \in tab.elsewhere => took = tab
        /\ taken /\ e.type # "new-ticket" /\ e.ticket \notin tab.elsewhere =>
             took = [tab EXCEPT !.rows[e.ticket] = IF @ = "none" THEN @ ELSE state(e.open), !.passed = @ \cup ids]
    BY <1>12 DEF took, Take
  <2>3. /\ asked \in [id : Numbers, state : {"asked", "open", "closed"}] /\ ids \in SUBSET Numbers
        /\ e.type \in {"new-ticket", "ticket-status", "ticket-message"}
        /\ row \in {"none", "open", "closed"} /\ asked.id = e.ticket /\ asked.state = "asked"
        /\ tab.rows \in [Tickets -> {"none", "open", "closed"}]
    BY <1>4, <1>6, StatesDiffer DEF TicketEvent, Numbers, TabType
  <2>4. taken /\ e.type # "new-ticket" => e.type = "ticket-status"
    BY <1>6, <2>3
  <2> DEFINE turned == taken /\ e.type # "new-ticket" /\ e.ticket \notin tab.elsewhere
             rows == IF turned THEN [tab.rows EXCEPT ![e.ticket] = row] ELSE tab.rows
             fetching == IF taken /\ e.type = "new-ticket" THEN tab.fetching \cup {asked} ELSE tab.fetching
             passed == IF turned THEN tab.passed \cup ids ELSE tab.passed
  <2>5. rows \in [Tickets -> {"none", "open", "closed"}]
    BY <2>3
  <2>6. took = [tab EXCEPT !.rows = rows, !.fetching = fetching, !.passed = passed]
    <3>1. CASE turned
      <4>1. took = [tab EXCEPT !.rows = [tab.rows EXCEPT ![e.ticket] = row], !.passed = tab.passed \cup ids]
        BY <1>4, <2>2, <3>1 DEF TabType
      <4> QED
        BY <1>4, <3>1, <4>1 DEF TabType
    <3>2. CASE ~turned
      BY <1>4, <2>2, <3>2 DEF TabType
    <3> QED
      BY <3>1, <3>2
  <2>7. fetching \in SUBSET [id : Numbers, state : {"asked", "open", "closed"}] /\ passed \in SUBSET Numbers
    BY <1>4, <2>3 DEF TabType
  <2>8. /\ \A x \in Tickets : rows[x] # "none" <=> tab.rows[x] # "none"
        /\ \A x \in Tickets : x # e.ticket \/ ~turned => rows[x] = tab.rows[x]
        /\ turned => rows[e.ticket] \in {"none", state(e.open)}
    BY <1>6, <2>3, StatesDiffer
  <2>9. /\ tab.fetching \subseteq fetching /\ (taken /\ e.type = "new-ticket" => asked \in fetching)
        /\ \A f \in fetching : f \in tab.fetching \/ (taken /\ e.type = "new-ticket" /\ f = asked)
        /\ tab.passed \subseteq passed
        /\ turned => \A f \in tab.fetching : f.id = e.ticket => e.ticket \in passed
    OBVIOUS
  <2> HIDE DEF rows, fetching, passed, asked, ids, row
  <2>10. /\ took \in TabType /\ took.at = "live" /\ took.last = tab.last /\ took.opened = tab.opened
         /\ took.kind = tab.kind /\ took.ticket = tab.ticket /\ took.own = tab.own /\ took.about = tab.about
         /\ took.elsewhere = tab.elsewhere /\ took.rows = rows /\ took.fetching = fetching /\ took.passed = passed
    <3> HIDE DEF taken, turned
    <3> QED
      BY <1>3, <1>4, <2>5, <2>6, <2>7 DEF TabType
  <2>11. /\ tab' \in TabType /\ tab'.at = "live" /\ tab'.last = n /\ tab'.kind = "list" /\ tab'.ticket = tab.ticket
         /\ tab'.own = tab.own /\ tab'.about = tab.about /\ tab'.elsewhere = tab.elsewhere
         /\ tab'.rows = rows /\ tab'.fetching = fetching /\ tab'.passed = passed /\ tab'.opened = tab.opened
    BY <1>9, <1>12, <2>10
  <2>12. /\ Filed' = Filed /\ FilingHolds' /\ ChangesHold' /\ EventsHold' /\ LastTold' /\ ErrandsHold' /\ TicketTypes'
         /\ \A x : (readable(Viewer, x)' <=> readable(Viewer, x)) /\ (own_ticket(Viewer, x)' <=> own_ticket(Viewer, x))
         /\ \A r \in Servers : \A x : Files(r, x)' <=> Files(r, x)
         /\ \A i : for_viewer(posted[i])' <=> for_viewer(posted[i])
         /\ \A c, x : TurnComes(c, x) /\ ~IsTurn(n, c, x) => TurnComes(c, x)'
         /\ \A c, x : (\E j \in DOMAIN posted : j > n /\ IsTurn(j, c, x)) => TurnComes(c, x)'
         /\ \A c, x : Telling(c, x) => TurnComes(c, x)'
    BY <1>10, <1>12, <2>11
  <2>13. listed(tab.own, tab.about)' = listed(tab.own, tab.about)
    BY <1>3, <2>11 DEF listed, own_ticket, visible_ticket, Filed
  <2>14. listed(tab.own, tab.about) \subseteq Tickets
    BY DEF listed, Filed
  <2>15. \A x : Fetching(x) => Fetching(x)'
    BY <2>9, <2>11 DEF Fetching
  <2>16. \A x : RowComes(x) => RowComes(x)' \/ Fetching(x)'
    <3> SUFFICES ASSUME NEW x, RowComes(x), ~Fetching(x)' PROVE RowComes(x)'
      OBVIOUS
    <3>1. ~(taken /\ e.type = "new-ticket" /\ e.ticket = x)
      BY <2>3, <2>9, <2>11 DEF Fetching
    <3>2. ASSUME NEW i \in DOMAIN posted, i > tab.last, posted[i].type = "new-ticket", posted[i].ticket = x,
                 tab.own => for_viewer(posted[i])
          PROVE  RowComes(x)'
      <4>1. i # n
        BY <1>2, <1>6, <3>1, <3>2
      <4> QED
        BY <1>3, <1>5, <2>11, <2>12, <3>2, <4>1 DEF RowComes
    <3>3. CASE \E s \in Servers : Files(s, x)
      BY <1>3, <2>12, <3>3 DEF RowComes
    <3> QED
      BY <3>2, <3>3 DEF RowComes
  <2>17. RowsCome'
    BY <2>1, <2>8, <2>11, <2>13, <2>14, <2>15, <2>16 DEF RowsCome
  <2>18. RowsBelong'
    <3>1. \A x : InList(x) => InList(x)'
      BY <2>11, <2>12 DEF InList
    <3>2. taken => InList(e.ticket)
      BY <1>6 DEF InList, for_viewer, own_ticket
    <3>3. \A x \in Tickets : tab'.rows[x] # "none" => InList(x)' /\ readable(Viewer, x)'
      BY <2>1, <2>8, <2>11, <2>12, <3>1 DEF RowsBelong
    <3>4. \A f \in tab'.fetching : InList(f.id)' /\ (f.state # "asked" => readable(Viewer, f.id)')
      BY <2>1, <2>3, <2>9, <2>11, <2>12, <3>1, <3>2 DEF RowsBelong
    <3> QED
      BY <3>3, <3>4 DEF RowsBelong
  <2>19. RowsTurn'
    <3> SUFFICES ASSUME NEW x \in Tickets \ (crossed \cup passed \cup tab.elsewhere), ~TurnComes("tickets", x)'
                 PROVE  /\ rows[x] \in {"none", state(ticket[x].open)}
                        /\ \A f \in fetching : f.id = x => f.state \in {"asked", state(ticket[x].open)}
      BY <1>3, <2>11 DEF RowsTurn, state
    <3>1. ASSUME tab.rows[x] \in {"none", state(ticket[x].open)},
                 \A f \in tab.fetching : f.id = x => f.state \in {"asked", state(ticket[x].open)},
                 ~turned \/ e.ticket # x
          PROVE  /\ rows[x] \in {"none", state(ticket[x].open)}
                 /\ \A f \in fetching : f.id = x => f.state \in {"asked", state(ticket[x].open)}
      <4> HIDE DEF taken, turned
      <4> QED
        BY <2>3, <2>8, <2>9, <3>1
    <3>2. CASE ~IsTurn(n, "tickets", x)
      <4>1. ~turned \/ e.ticket # x
        BY <1>7, <2>4, <3>2
      <4>2. x \notin tab.passed /\ ~TurnComes("tickets", x)
        BY <2>9, <2>12, <3>2
      <4> QED
        BY <2>1, <3>1, <4>1, <4>2 DEF RowsTurn
    <3>3. CASE IsTurn(n, "tickets", x)
      <4>1. e.channel = "tickets" /\ e.type = "ticket-status" /\ e.ticket = x /\ e.open = ticket[x].open
        BY <1>7, <1>8, <2>12, <3>3
      <4>2. CASE taken
        <5>1. turned
          BY <4>1, <4>2
        <5>2. \A f \in tab.fetching : f.id # x
          BY <2>9, <4>1, <5>1
        <5>3. rows[x] \in {"none", state(ticket[x].open)}
          BY <2>8, <4>1, <5>1
        <5> QED
          BY <2>9, <4>1, <5>2, <5>3
      <4>3. CASE ~taken
        <5>1. ~InList(x)
          BY <1>6, <4>1, <4>3 DEF InList, own_ticket, for_viewer
        <5>2. tab.rows[x] = "none" /\ \A f \in tab.fetching : f.id # x
          BY <2>1, <5>1 DEF RowsBelong
        <5> QED
          BY <3>1, <4>3, <5>2
      <4> QED
        BY <4>2, <4>3
    <3> QED
      BY <3>2, <3>3
  <2> QED
    BY <2>11, <2>12, <2>17, <2>18, <2>19 DEF TicketTabHolds, ListTabHolds
<1> QED
  BY <1>4, <1>11, <1>12 DEF TabType

\* The first ticket and its message, or nothing, make the invariant true.
LEMMA TicketsStart == ASSUME TicketsInit PROVE TicketInv
<1>1. /\ posted = <<>> /\ server = [s \in Servers |-> NoErrand] /\ tab = NoTab /\ crossed = {}
  BY DEF TicketsInit
<1>2. /\ DOMAIN server = Servers /\ \A s \in Servers : server[s] = NoErrand /\ ErrandShape(server[s])
      /\ DOMAIN posted = {} /\ Len(posted) = 0 /\ posted \in Seq(TicketEvent)
  BY <1>1 DEF ErrandShape
<1>3. /\ ticket \in [Tickets -> {NoTicket} \cup TicketRow] /\ assignees \in [Tickets -> SUBSET People]
      /\ messages \in Seq([ticket : Tickets, first : BOOLEAN])
      /\ \A t \in Tickets : ticket[t] = NoTicket => FirstOf(t) = {} /\ assignees[t] = {}
  <2>1. CASE ticket = [t \in Tickets |-> NoTicket] /\ assignees = [t \in Tickets |-> {}] /\ messages = <<>>
    BY <2>1 DEF FirstOf, MessagesOf
  <2>2. CASE \E u \in People, p \in Subjects :
               /\ ticket = [t \in Tickets |-> IF t = 1 THEN [open |-> TRUE, by |-> u, about |-> p] ELSE NoTicket]
               /\ assignees = [t \in Tickets |-> IF t = 1 THEN Authors[p] ELSE {}]
               /\ messages = <<[ticket |-> 1, first |-> TRUE]>>
    <3>1. PICK u \in People, p \in Subjects :
            /\ ticket = [t \in Tickets |-> IF t = 1 THEN [open |-> TRUE, by |-> u, about |-> p] ELSE NoTicket]
            /\ assignees = [t \in Tickets |-> IF t = 1 THEN Authors[p] ELSE {}]
            /\ messages = <<[ticket |-> 1, first |-> TRUE]>>
      BY <2>2
    <3> DEFINE row == [open |-> TRUE, by |-> u, about |-> p]
               message == [ticket |-> 1, first |-> TRUE]
    <3>2. row \in TicketRow /\ row # NoTicket /\ Authors[p] \in SUBSET People
      BY TicketsAssumption DEF TicketRow, NoTicket
    <3>3. message \in [ticket : Tickets, first : BOOLEAN] /\ message.ticket = 1
      BY TicketsAssumption
    <3>4. /\ ticket = [t \in Tickets |-> IF t = 1 THEN row ELSE NoTicket]
          /\ assignees = [t \in Tickets |-> IF t = 1 THEN Authors[p] ELSE {}] /\ messages = <<message>>
      BY <3>1
    <3> HIDE DEF row, message
    <3>5. ticket \in [Tickets -> {NoTicket} \cup TicketRow] /\ assignees \in [Tickets -> SUBSET People]
      BY <3>2, <3>4
    <3>6. /\ messages \in Seq([ticket : Tickets, first : BOOLEAN])
          /\ \A m \in DOMAIN messages : messages[m].ticket = 1
      BY <3>3, <3>4
    <3>7. \A t \in Tickets : ticket[t] = NoTicket => t # 1 /\ assignees[t] = {}
      BY <3>2, <3>4
    <3> QED
      BY <3>5, <3>6, <3>7 DEF FirstOf, MessagesOf
  <2> QED
    BY <2>1, <2>2 DEF TicketsInit
<1>4. TicketTypes
  BY <1>1, <1>2, <1>3, NoTabFacts DEF TicketTypes
<1>5. FilingHolds
  BY <1>2, <1>3, NoErrandFacts, PlanKinds DEF FilingHolds, Files
<1>6. ErrandsHold
  BY <1>2, NoErrandFacts, PlanKinds DEF ErrandsHold, ErrandHolds
<1>7. ChangesHold
  BY <1>2, NoErrandFacts DEF ChangesHold, Changing
<1>8. EventsHold /\ LastTold
  BY <1>2 DEF EventsHold, LastTold
<1>9. TicketTabHolds /\ ListTabHolds
  BY <1>1, NoTabFacts DEF TicketTabHolds, ListTabHolds
<1> QED
  BY <1>4, <1>5, <1>6, <1>7, <1>8, <1>9 DEF TicketInv

\* Nothing changes.
LEMMA TicketsRestStep == ASSUME TicketInv, UNCHANGED kvars PROVE TicketInv'
<1> USE DEF TicketInv
<1>1. UNCHANGED <<ticket, assignees, messages, posted, server, errands, tab, crossed>>
  BY DEF kvars
<1>2. /\ Filed' = Filed /\ FilingHolds' /\ ChangesHold' /\ EventsHold' /\ LastTold' /\ ErrandsHold' /\ TicketTypes'
      /\ \A x : MessagesOf(x)' = MessagesOf(x) /\ FirstOf(x)' = FirstOf(x)
                /\ (readable(Viewer, x)' <=> readable(Viewer, x)) /\ (own_ticket(Viewer, x)' <=> own_ticket(Viewer, x))
      /\ \A c, x : (Telling(c, x)' <=> Telling(c, x)) /\ \A i : IsTurn(i, c, x)' <=> IsTurn(i, c, x)
      /\ \A r \in Servers : \A x : Files(r, x)' <=> Files(r, x)
      /\ \A i : for_viewer(posted[i])' <=> for_viewer(posted[i])
  <2>1. TicketTypes
    OBVIOUS
  <2>2. TicketTypes'
    BY <1>1, <2>1 DEF TicketTypes
  <2> QED
    BY <1>1, <2>2, PageMoves
<1>3. Base' = Base
  BY <1>1 DEF Base
<1>4. /\ \A x : Fetching(x)' <=> Fetching(x)
      /\ \A c, x : TurnComes(c, x)' <=> TurnComes(c, x)
      /\ \A x : MessageComes(x)' <=> MessageComes(x)
      /\ \A x : RowComes(x)' <=> RowComes(x)
      /\ \A x : InList(x)' <=> InList(x)
  BY <1>1, <1>2, <1>3 DEF Fetching, TurnComes, Awaited, MessageComes, RowComes, InList
<1>5. TicketTabHolds'
  BY <1>1, <1>2, <1>4 DEF TicketTabHolds, PageIsOf, MessagesCome, PageTurns
<1>6. listed(tab.own, tab.about)' = listed(tab.own, tab.about)
  BY <1>1 DEF listed, own_ticket, visible_ticket, Filed
<1>7. ListTabHolds'
  BY <1>1, <1>2, <1>4, <1>6 DEF ListTabHolds, RowsCome, RowsBelong, RowsTurn, state
<1> QED
  BY <1>2, <1>5, <1>7

\* Every step keeps the invariant.
LEMMA TicketsStep == ASSUME TicketInv, [TicketsNext]_kvars PROVE TicketInv'
<1>1. ASSUME NEW s \in Servers, SaveTicket(s) \/ SaveMessage(s) \/ Assign(s) \/ Tell(s) \/ Answer(s)
      PROVE  TicketInv'
  BY <1>1, SaveTicketStep, SaveMessageStep, AssignStep, TellStep, AnswerStep
<1>2. ASSUME NEW s \in Servers, NEW u \in People, NEW p \in Subjects, NewTicket(s, u, p) PROVE TicketInv'
  BY <1>2, NewTicketStep
<1>3. ASSUME NEW s \in Servers, NEW u \in People, NEW t \in Tickets, PostMessage(s, u, t) \/ EditNotes(s, u, t)
      PROVE  TicketInv'
  BY <1>3, PostMessageStep, EditNotesStep
<1>4. ASSUME NEW s \in Servers, NEW u \in People, NEW t \in Tickets, NEW open \in BOOLEAN, NEW mine \in BOOLEAN,
             ChangeStatus(s, u, t, open, mine)
      PROVE  TicketInv'
  BY <1>4, ChangeStatusStep
<1>5. ASSUME NEW t \in Tickets, OpenTicket(t) PROVE TicketInv'
  BY <1>5, OpenTicketStep
<1>6. ASSUME NEW list \in Lists, OpenList(list) PROVE TicketInv'
  BY <1>6, OpenListStep
<1>7. CASE AskLastEvent \/ Render \/ TakeEvent
  BY <1>7, AskLastEventStep, RenderStep, TakeEventStep
<1>8. ASSUME NEW f \in tab.fetching, FetchRow(f) \/ AddRow(f) PROVE TicketInv'
  BY <1>8, FetchRowStep, AddRowStep
<1>9. CASE UNCHANGED kvars
  BY <1>9, TicketsRestStep
<1> QED
  BY <1>1, <1>2, <1>3, <1>4, <1>5, <1>6, <1>7, <1>8, <1>9 DEF TicketsNext

\* When nothing is under way nothing is to come, so that the page shows what there is.
LEMMA TicketsShown == ASSUME TicketInv PROVE TicketsAreShown
<1> USE DEF TicketInv
<1> SUFFICES ASSUME Settled PROVE IF tab.kind = "ticket" THEN TicketIsShown ELSE ListIsShown
  BY DEF TicketsAreShown
<1>1. /\ tab.at = "live" /\ tab.last = Len(posted) /\ tab.fetching = {} /\ tab.kind \in {"list", "ticket"}
      /\ \A i \in DOMAIN posted : ~(i > tab.last)
  BY DEF Settled, TicketTypes, TabType
<1>2. \A s \in Servers : \A t : server[s].todo \notin {Write1, Turn3, Turn2} /\ ~Files(s, t)
  BY NoErrandFacts, PlanKinds DEF Settled, Files
<1>3. \A c, t : ~TurnComes(c, t)
  BY <1>1, <1>2 DEF TurnComes, Awaited, Base, Telling
<1>4. \A m : ~Fetching(m) /\ ~MessageComes(m) /\ ~RowComes(m)
  BY <1>1, <1>2 DEF Fetching, MessageComes, RowComes
<1>5. CASE tab.kind = "ticket"
  <2>1. PageIsOf /\ MessagesCome /\ PageTurns
    BY <1>1, <1>5 DEF TicketTabHolds
  <2>2. MessagesOf(tab.ticket) \ tab.shown \subseteq IF tab.bare THEN FirstOf(tab.ticket) ELSE {}
    BY <1>4, <2>1 DEF MessagesCome, FirstOf
  <2>3. tab.ticket \in Tickets /\ tab.shown \subseteq MessagesOf(tab.ticket)
    BY <2>1 DEF PageIsOf, Filed
  <2>4. tab.ticket \in crossed \cup tab.passed \/ tab.open = ticket[tab.ticket].open
    BY <1>3, <2>1, <2>3 DEF PageTurns
  <2> QED
    BY <1>5, <2>2, <2>3, <2>4 DEF TicketIsShown
<1>6. CASE tab.kind = "list"
  <2>1. RowsCome /\ RowsBelong /\ RowsTurn
    BY <1>1, <1>6 DEF ListTabHolds
  <2>2. \A t \in listed(tab.own, tab.about) : t \in Tickets /\ tab.rows[t] # "none"
    BY <1>4, <2>1 DEF RowsCome, listed, Filed
  <2>3. ASSUME tab.about = "all", NEW t \in Tickets, tab.rows[t] # "none" PROVE t \in listed(tab.own, tab.about)
    BY <2>1, <2>3 DEF RowsBelong, InList, listed, readable, visible_ticket, own_ticket
  <2>4. \A t \in Tickets \ (crossed \cup tab.passed \cup tab.elsewhere) : tab.rows[t] \in {"none", state(ticket[t].open)}
    BY <1>3, <2>1 DEF RowsTurn
  <2> QED
    BY <1>6, <2>2, <2>3, <2>4 DEF ListIsShown
<1> QED
  BY <1>1, <1>5, <1>6

\* When nothing is under way the page of whoever follows tickets shows them as they
\* are, for any people, problems, permissions and number of requests.
THEOREM TicketsStayShown == TicketsSpec => []TicketsAreShown
BY TicketsStart, TicketsStep, TicketsShown, PTL DEF TicketsSpec
=============================================================================
