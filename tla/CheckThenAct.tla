----------------------------- MODULE CheckThenAct -----------------------------
(***************************************************************************)
(* What a limit promises that is checked in one statement and used up in   *)
(* another one: every process has seen the count below the limit when it   *)
(* goes on to add to it.  Others may be between their two statements.      *)
(***************************************************************************)
EXTENDS Integers, FiniteSets

CONSTANTS Procs,    \* finite and not empty
          Limit     \* a natural number

VARIABLES count,    \* how much of the limit is used
          passed    \* processes that have checked and not acted yet

Init == count = 0 /\ passed = {}

Check(p) ==
  /\ p \notin passed /\ count < Limit
  /\ passed' = passed \cup {p}
  /\ UNCHANGED count

Act(p) ==
  /\ p \in passed
  /\ passed' = passed \ {p}
  /\ count' = count + 1

GiveUp(p) ==
  /\ p \in passed
  /\ passed' = passed \ {p}
  /\ UNCHANGED count

\* What was used comes back.
Release == count > 0 /\ count' = count - 1 /\ UNCHANGED passed

Next == Release \/ \E p \in Procs : Check(p) \/ Act(p) \/ GiveUp(p)

Spec == Init /\ [][Next]_<<count, passed>>
-----------------------------------------------------------------------------
\* The limit is passed by less than there are processes.
Bounded ==
  /\ count \in Nat /\ passed \subseteq Procs
  /\ count + Cardinality(passed) < Limit + Cardinality(Procs)
=============================================================================
