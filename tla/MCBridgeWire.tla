---------------------------- MODULE MCBridgeWire -----------------------------
(***************************************************************************)
(* The bridge and the web side, the framing of packets and the rows of     *)
(* the judges, in one run.  JudgeBridge takes its packets whole, has the   *)
(* row of a judge written in one step and does not look into a verdict;    *)
(* the other three take that apart, on their own: one moves, the others    *)
(* are at rest.                                                            *)
(***************************************************************************)
EXTENDS MCJudgeBridge, Framing, JudgeStatus, Grading

\* Streams: three packets at most, of every size that matters.
MCPackets == {<<>>} \cup [1 .. 1 -> [size : {0, 1, 2, 4}, good : BOOLEAN]]
             \cup [1 .. 2 -> [size : {1, 2, 4}, good : BOOLEAN]]
             \cup [1 .. 3 -> [size : {1, 2}, good : {TRUE}]]
StreamsWith(proxied, proper, filler) ==
  [proxied : proxied, trusted : BOOLEAN, proper : proper, filler : filler, packets : MCPackets, oneshot : BOOLEAN]
MCStreams == StreamsWith({FALSE}, {TRUE}, {0}) \cup StreamsWith({TRUE}, BOOLEAN, {1, 4})

\* Three judges of a group, one with the name of the group; what they may run.
MCTitle == <<"g.1", "g.2", "g.3", "g">>
MCGroup == <<"g", "g", "g", "g">>
MCReports == {[l \in {"l1"} |-> <<1>>], [l \in {"l2"} |-> <<1>>], [l \in {"l1", "l2"} |-> <<2>>]}

\* Tests and reports: every kind of case, in batches and outside, and files of
\* up to three cases of up to three lines.
CaseReport(flags, feedback, points) == [flags |-> flags, feedback |-> feedback, points |-> points]
MCCaseReports == {CaseReport({}, "", 100), CaseReport({"WA"}, "", 33), CaseReport({"SC"}, "", 0),
                  CaseReport({"WA", "RTE"}, "blocked", 0)}
MCAssignments == {[points |-> 5, partial |-> FALSE, tests |-> <<0, 2>>],
                  [points |-> 5, partial |-> TRUE, tests |-> <<2, 2>>],
                  [points |-> 5, partial |-> TRUE, tests |-> <<0, 0, 0>>]}
MCLayouts ==
  {l \in [format : {"standard", "stop", "multicas", "indiv"}, header : BOOLEAN,
           inputs : 1 .. 3, outputs : 1 .. 3, cases : 1 .. 3, wrong : 0 .. 8] :
     /\ l.wrong < l.cases * l.outputs
     /\ l.format = "multicas" => l.header
     /\ l.format = "stop" => ~l.header
     /\ l.outputs > 1 => l.format = "standard" /\ l.header}

VARIABLE part

FramingRests == FramingInit /\ stream = CHOOSE s \in Streams : TRUE

WireInit ==
  /\ part \in {"bridge", "framing", "status", "grading"}
  /\ BridgeInit /\ StatusInit /\ GradingInit
  /\ part # "grading" => assignment = CHOOSE a \in Assignments : TRUE
  /\ IF part = "framing" THEN FramingInit ELSE FramingRests

WireNext ==
  /\ \/ part = "bridge" /\ BridgeNext /\ UNCHANGED <<fvars, svars, gvars>>
     \/ part = "framing" /\ FramingNext /\ UNCHANGED <<vars, svars, gvars>>
     \/ part = "status" /\ StatusNext /\ UNCHANGED <<vars, fvars, gvars>>
     \/ part = "grading" /\ GradingNext /\ UNCHANGED <<vars, fvars, svars>>
  /\ UNCHANGED part

WireSpec == WireInit /\ [][WireNext]_<<part, vars, fvars, svars, gvars>>

\* What a judge reports arrives: its packets are read once and whole, and what
\* they say of a submission is on its page.  Each is judged where it moves: at
\* rest it is as it begins.
ReportsArrive ==
  /\ part = "framing" => FramesHold
  /\ part = "grading" => PageIsTrue
=============================================================================
