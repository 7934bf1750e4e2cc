----------------------------- MODULE Dispatching -----------------------------
(***************************************************************************)
(* What the JudgeList of the bridge promises the web side, without a word  *)
(* about how: a submission waits, or one judge grades it, or neither; and  *)
(* a judge grades one submission at a time.                                *)
(***************************************************************************)
CONSTANTS
  Subs,    \* submission ids
  Conns,   \* judges
  NoConn   \* no judge

VARIABLES
  waiting, \* the submissions that wait for a judge
  grader   \* the judge that grades each submission

dispatchingVars == <<waiting, grader>>

Nothing ==
  /\ waiting = {}
  /\ grader = [s \in Subs |-> NoConn]

Accept(s) ==
  /\ s \notin waiting
  /\ grader[s] = NoConn
  /\ waiting' = waiting \cup {s}
  /\ UNCHANGED grader

\* a judge that grades nothing takes a submission that nobody grades
Take(s, c) ==
  /\ grader[s] = NoConn
  /\ \A t \in Subs : grader[t] # c
  /\ grader' = [grader EXCEPT ![s] = c]
  /\ waiting' = waiting \ {s}

\* the judge of s is done with it, or gone
Finish(s) ==
  /\ grader[s] # NoConn
  /\ grader' = [grader EXCEPT ![s] = NoConn]
  /\ UNCHANGED waiting

\* ... and takes the next that waits in the same step
FinishAndTake(s, t) ==
  /\ grader[s] # NoConn
  /\ t \in waiting
  /\ grader[t] = NoConn
  /\ grader' = [grader EXCEPT ![s] = NoConn, ![t] = grader[s]]
  /\ waiting' = waiting \ {t}

Withdraw(s) ==
  /\ s \in waiting
  /\ waiting' = waiting \ {s}
  /\ UNCHANGED grader

\* the bridge starts anew
Forget ==
  /\ waiting' = {}
  /\ grader' = [s \in Subs |-> NoConn]

DispatchingNext ==
  \/ \E s \in Subs :
       \/ Accept(s)
       \/ \E c \in Conns : Take(s, c)
       \/ Finish(s)
       \/ \E t \in Subs : FinishAndTake(s, t)
       \/ Withdraw(s)
  \/ Forget

DispatchingSpec == Nothing /\ [][DispatchingNext]_dispatchingVars
=============================================================================
