------------------------------ MODULE Submitting ------------------------------
(***************************************************************************)
(* What a contestant may use up of one contest problem: submissions in     *)
(* progress, submissions in all, and hints.  Web processes check each      *)
(* limit and act on it later; the bridge writes the same rows; and an      *)
(* administrator has submissions judged again.                             *)
(*                                                                         *)
(* wasIE, wasted and requests do not exist in the program: they name the   *)
(* submissions that have ended in IE, the hints whose mark a full save of  *)
(* the row has wiped out, and bound what is asked of the web side.         *)
(***************************************************************************)
EXTENDS Integers, FiniteSets

CONSTANTS Procs,            \* web processes, all serving this contestant
          Ids,              \* submissions that may come to be
          Cases,            \* test cases of the problem
          NoCase,
          PendingLimit,     \* DMOJ_SUBMISSION_LIMIT
          MaxSubmissions,   \* ContestProblem.max_submissions
          AllowedTips,      \* ProblemData.allowed_tips
          MaxRequests       \* bound: requests of web processes

ASSUME ProcsFinite == IsFiniteSet(Procs) /\ Procs # {}
ASSUME IdsFinite == IsFiniteSet(Ids)
ASSUME NoCaseAssumption == NoCase \notin Cases
ASSUME LimitsAssumption == PendingLimit \in Nat /\ MaxSubmissions \in Nat /\ AllowedTips \in Nat

VARIABLES sub,      \* the Submission rows with their test cases
          reading,  \* the flag on_grading_end has read and will write back
          proc,     \* the request a web process is at work on
          wasIE, wasted, requests

bridge == <<reading, wasIE, wasted>>
svars == <<sub, bridge, proc>>

NoSub == [status |-> "none", asked |-> FALSE, rejudged |-> FALSE, flag |-> FALSE,
          cases |-> {}, revealed |-> {}]
\* QU is also P.  A request that is about no submission has none.
Idle == [at |-> "idle", sub |-> NoCase, case |-> NoCase]
IsIdle(w) == proc[w] = Idle
Goes(w, at) == proc' = [proc EXCEPT ![w].at = at]
Leaves(w) == proc' = [proc EXCEPT ![w] = Idle]
Request == requests < MaxRequests /\ requests' = requests + 1

Pending == {i \in Ids : sub[i].status \in {"QU", "G"} /\ ~sub[i].rejudged}
Counted == {i \in Ids : sub[i].status \notin {"none", "IE"}}
Hinted == {i \in Ids : sub[i].flag}

\* select_for_update, between the lock and the end of the transaction.
Locked(i) == \E w \in Procs : proc[w].at \in {"count", "grant"} /\ proc[w].sub = i

SubmittingTypeOK ==
  /\ \A i \in Ids : /\ sub[i].status \in {"none", "QU", "G", "D", "IE", "CE"}
                    /\ sub[i].revealed \subseteq sub[i].cases /\ sub[i].cases \subseteq Cases
                    /\ sub[i].status = "none" => sub[i] = NoSub
  /\ reading \in [Ids -> {"nothing", "flag", "no flag"}]
  /\ \A w \in Procs : proc[w].at \in {"idle", "limit", "create", "clear", "lock", "count", "grant"}
  /\ \A i \in Ids : Cardinality({w \in Procs : proc[w].at \in {"count", "grant"}
                                                 /\ proc[w].sub = i}) <= 1
  /\ wasIE \subseteq Ids /\ wasted \subseteq Ids /\ requests \in 0 .. MaxRequests

SubmittingInit ==
  /\ sub = [i \in Ids |-> NoSub]
  /\ reading = [i \in Ids |-> "nothing"]
  /\ proc = [w \in Procs |-> Idle]
  /\ wasIE = {} /\ wasted = {} /\ requests = 0
-----------------------------------------------------------------------------
(* ProblemSubmit.form_valid.                                               *)

CheckPending(w) ==
  /\ IsIdle(w) /\ Request
  /\ Cardinality(Pending) < PendingLimit
  /\ Goes(w, "limit")
  /\ UNCHANGED <<sub, bridge>>

\* Broken: off by one.
CheckRemainingToo(w) ==
  /\ proc[w].at = "limit"
  /\ IF Cardinality(Counted) <= MaxSubmissions THEN Goes(w, "create") ELSE Leaves(w)
  /\ UNCHANGED <<sub, bridge, requests>>

\* remaining_submission_count
CheckRemaining(w) ==
  /\ proc[w].at = "limit"
  /\ IF Cardinality(Counted) < MaxSubmissions THEN Goes(w, "create") ELSE Leaves(w)
  /\ UNCHANGED <<sub, bridge, requests>>

Create(w, i) ==
  /\ proc[w].at = "create" /\ sub[i].status = "none"
  /\ sub' = [sub EXCEPT ![i] = [NoSub EXCEPT !.status = "QU", !.asked = TRUE]]
  /\ Leaves(w)
  /\ UNCHANGED <<bridge, requests>>
-----------------------------------------------------------------------------
(* The bridge.  Its writes wait for the lock of flag_submission.           *)

\* A test case of i that a request holds is a row that exists no more.
WithoutCases(i, ps) ==
  [w \in Procs |-> IF ps[w].sub = i THEN [ps[w] EXCEPT !.case = NoCase] ELSE ps[w]]

GradingBegin(i) ==
  /\ sub[i].asked /\ ~Locked(i)
  /\ sub' = [sub EXCEPT ![i].status = "G", ![i].asked = FALSE,
                        ![i].cases = {}, ![i].revealed = {}]
  /\ proc' = WithoutCases(i, proc)
  /\ UNCHANGED <<bridge, requests>>

TestCase(i, c) ==
  /\ sub[i].status = "G" /\ reading[i] = "nothing" /\ c \notin sub[i].cases /\ ~Locked(i)
  /\ sub' = [sub EXCEPT ![i].cases = @ \cup {c}]
  /\ UNCHANGED <<proc, bridge, requests>>

\* on_grading_end reads the row, adds up, and saves all of it.
EndRead(i) ==
  /\ sub[i].status = "G" /\ reading[i] = "nothing"
  /\ reading' = [reading EXCEPT ![i] = IF sub[i].flag THEN "flag" ELSE "no flag"]
  /\ UNCHANGED <<sub, proc, wasIE, wasted, requests>>

EndSave(i) ==
  /\ reading[i] # "nothing" /\ ~Locked(i)
  /\ sub' = [sub EXCEPT ![i].status = "D", ![i].flag = (reading[i] = "flag")]
  /\ reading' = [reading EXCEPT ![i] = "nothing"]
  /\ wasted' = IF sub[i].flag /\ reading[i] = "no flag" THEN wasted \cup {i} ELSE wasted
  /\ UNCHANGED <<proc, wasIE, requests>>

\* on_internal_error, or the request could not be sent; on_compile_error, which
\* stands for an abort too.
Fail(i, s) ==
  /\ sub[i].status \in {"QU", "G"} /\ reading[i] = "nothing" /\ ~Locked(i)
  /\ sub' = [sub EXCEPT ![i].status = s, ![i].asked = FALSE]
  /\ wasIE' = IF s = "IE" THEN wasIE \cup {i} ELSE wasIE
  /\ UNCHANGED <<proc, reading, wasted, requests>>
-----------------------------------------------------------------------------
(* judge_submission of a rejudge: an UPDATE, a DELETE, then the request.   *)

Rejudge(w, i) ==
  /\ IsIdle(w) /\ Request
  /\ sub[i].status \notin {"none", "G"} /\ ~Locked(i)
  /\ sub' = [sub EXCEPT ![i].status = "QU", ![i].rejudged = TRUE]
  /\ proc' = [proc EXCEPT ![w].at = "clear", ![w].sub = i]
  /\ UNCHANGED bridge

ClearCases(w) ==
  LET i == proc[w].sub
  IN  /\ proc[w].at = "clear"
      /\ sub' = [sub EXCEPT ![i].cases = {}, ![i].revealed = {},
                            ![i].asked = (sub[i].status # "G")]
      /\ proc' = [WithoutCases(i, proc) EXCEPT ![w] = Idle]
      /\ UNCHANGED <<bridge, requests>>
-----------------------------------------------------------------------------
(* flag_submission.                                                        *)

\* The test case is read before the transaction.
AskHint(w, i, c) ==
  /\ IsIdle(w) /\ Request
  /\ c \in sub[i].cases
  /\ proc' = [proc EXCEPT ![w] = [at |-> "lock", sub |-> i, case |-> c]]
  /\ UNCHANGED <<sub, bridge>>

\* Broken: without select_for_update.
ReadRowUnlocked(w) ==
  /\ proc[w].at = "lock"
  /\ IF sub[proc[w].sub].flag THEN Leaves(w) ELSE Goes(w, "count")
  /\ UNCHANGED <<sub, bridge, requests>>

\* select_for_update; a hint that was used up is shown again or refused.
LockRow(w) ==
  /\ proc[w].at = "lock" /\ ~Locked(proc[w].sub)
  /\ IF sub[proc[w].sub].flag THEN Leaves(w) ELSE Goes(w, "count")
  /\ UNCHANGED <<sub, bridge, requests>>

CountHints(w) ==
  /\ proc[w].at = "count"
  /\ IF Cardinality(Hinted) < AllowedTips THEN Goes(w, "grant") ELSE Leaves(w)
  /\ UNCHANGED <<sub, bridge, requests>>

\* The save of a test case that was deleted fails, and all is rolled back.
GrantHint(w) ==
  LET i == proc[w].sub
      c == proc[w].case
  IN  /\ proc[w].at = "grant"
      /\ sub' = IF c \in sub[i].cases
                THEN [sub EXCEPT ![i].flag = TRUE, ![i].revealed = @ \cup {c}] ELSE sub
      /\ Leaves(w)
      /\ UNCHANGED <<bridge, requests>>
-----------------------------------------------------------------------------
SubmittingNext ==
  \/ \E w \in Procs : \/ CheckPending(w) \/ CheckRemaining(w) \/ ClearCases(w)
                      \/ LockRow(w) \/ CountHints(w) \/ GrantHint(w)
  \/ \E w \in Procs, i \in Ids : Create(w, i) \/ Rejudge(w, i)
  \/ \E w \in Procs, i \in Ids, c \in Cases : AskHint(w, i, c)
  \/ \E i \in Ids : GradingBegin(i) \/ EndRead(i) \/ EndSave(i) 
  \/ \E i \in Ids, s \in {"IE", "CE"} : Fail(i, s)
  \/ \E i \in Ids, c \in Cases : TestCase(i, c)

SubmittingSpec == SubmittingInit /\ [][SubmittingNext]_<<svars, requests>>
-----------------------------------------------------------------------------
(* Each limit is a CheckThenAct.                                           *)

InProgress == INSTANCE CheckThenAct WITH
  Limit <- PendingLimit, count <- Cardinality(Pending),
  passed <- {w \in Procs : proc[w].at \in {"limit", "create"}}
\* A submission that has ended in IE once was not counted, and is when it is
\* judged again; so those that never did are what the limit is about.
Used == {i \in Ids : sub[i].status # "none"} \ wasIE
InAll == INSTANCE CheckThenAct WITH
  Limit <- MaxSubmissions, count <- Cardinality(Used),
  passed <- {w \in Procs : proc[w].at = "create"}
Hints == INSTANCE CheckThenAct WITH
  Limit <- AllowedTips, count <- Cardinality(Hinted),
  passed <- {w \in Procs : proc[w].at = "grant"}

EachIsALimit == InProgress!Spec /\ InAll!Spec /\ Hints!Spec

\* No limit is passed by more than the processes that are at work at once.
LimitsHold == InProgress!Bounded /\ InAll!Bounded /\ Hints!Bounded

\* A submission reveals one test case: the lock makes two requests for one
\* submission take turns, unless a verdict saved in between wiped the mark.
OneHintPerSubmission ==
  \A i \in Ids \ wasted :
    /\ Cardinality(sub[i].revealed) <= 1
    /\ sub[i].revealed # {} => sub[i].flag

\* The documentation of the hints (docs/02-sistemes/2.1-sistema-de-pistes.md)
\* says that with allowed_tips = n a student can ask for a hint in at most n
\* submissions of the problem, two tabs at once notwithstanding.
TipsWithinLimit == Cardinality(Hinted) <= AllowedTips
=============================================================================
