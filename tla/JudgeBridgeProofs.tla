-------------------------- MODULE JudgeBridgeProofs --------------------------
(***************************************************************************)
(* Proofs about JudgeBridge: its types; that handler threads, web          *)
(* requests, crashes and restarts use the list only as JudgeList allows,   *)
(* so that what is proved of the list holds in the bridge; and, for a      *)
(* bridge whose dispatches succeed, that rows in progress are looked       *)
(* after, that the test cases of a row are those of one run, that verdicts *)
(* are computed from all of them, and that aborts hit their target. The    *)
(* last part is about JudgeStatus: that the site tells the truth about its *)
(* judges.                                                                 *)
(***************************************************************************)
EXTENDS JudgeBridge, JudgeListProofs, JudgeStatus,
        WellFoundedInduction, FiniteSetTheorems

\* what a web process may be at, and that one on its way has a submission
WebRequest == [at : WebStates, sub : Subs \cup {NoSub},
               judge_id : Names \cup {AnyJudge}, priority : Priorities]

WebTypeOK ==
  /\ web \in [Webs -> WebRequest]
  /\ \A w \in Webs : web[w].at # "idle" => web[w].sub \in Subs

-----------------------------------------------------------------------------
(* Every step is a step of the list, or none *)

\* The ways in which submit may end in the bridge are some of all.
LEMMA SubmitEndsInAWay ==
  ASSUME NEW c \in Conns, NEW s \in Subs
  PROVE  SubmitEnds[c][s] \subseteq AnyWay[c][s]
  BY DEF SubmitEnds, AnyWay

\* A pass of the bridge is a pass of the list, and so are its other calls.
LEMMA HandleFreeJudgeAnyWay ==
  ASSUME TypeOK,
         NEW c \in Conns, NEW pool, NEW declared, NEW map, NEW work, NEW held,
         HandleFreeJudge(c, pool, declared, map, work, held, SubmitEnds)
  PROVE  HandleFreeJudge(c, pool, declared, map, work, held, AnyWay)
<1>1. \A p \in Priorities : \A i \in 1..Len(queue[p]) :
        SubmitEnds[c][queue[p][i].id] \subseteq AnyWay[c][queue[p][i].id]
  <2> SUFFICES ASSUME NEW p \in Priorities, NEW i \in 1..Len(queue[p])
               PROVE  SubmitEnds[c][queue[p][i].id] \subseteq AnyWay[c][queue[p][i].id]
    OBVIOUS
  <2>1. queue[p] \in Seq(Entry)
    BY DEF TypeOK
  <2>2. queue[p][i] \in Entry
    BY <2>1
  <2>3. queue[p][i].id \in Subs
    BY <2>2 DEF Entry
  <2> QED
    BY <2>3, SubmitEndsInAWay
<1> HIDE DEF SubmitEnds, AnyWay
<1> QED
  BY <1>1 DEF HandleFreeJudge

\* A handshake registers.
LEMMA RegisterIsNext ==
  ASSUME TypeOK, NEW c \in Conns, NEW declared \in Declared, Register(c, declared, SubmitEnds)
  PROVE  Next
<1>1. declared \in SUBSET Problems
  BY JudgeBridgeAssumption DEF JudgeBridgeAssumption
<1>2. Register(c, declared, AnyWay)
  BY HandleFreeJudgeAnyWay DEF Register
<1> QED
  BY <1>1, <1>2 DEF Next, ConnStep

\* A supported-problems packet declares,
LEMMA DeclareProblemsIsNext ==
  ASSUME NEW c \in Conns, NEW declared \in Declared, DeclareProblems(c, declared)
  PROVE  Next
<1>1. declared \in SUBSET Problems
  BY JudgeBridgeAssumption DEF JudgeBridgeAssumption
<1> QED
  BY <1>1 DEF Next, ConnStep

\* ... and then makes a pass.
LEMMA UpdateProblemsIsNext ==
  ASSUME TypeOK, NEW c \in Conns, UpdateProblems(c, SubmitEnds)
  PROVE  Next
<1>1. UpdateProblems(c, AnyWay)
  BY HandleFreeJudgeAnyWay DEF UpdateProblems
<1> QED
  BY <1>1 DEF Next, ConnStep

\* A report frees its judge.
LEMMA OnJudgeFreeIsNext ==
  ASSUME TypeOK, NEW c \in Conns, NEW s \in Subs, OnJudgeFree(c, s, SubmitEnds)
  PROVE  Next
<1>1. OnJudgeFree(c, s, AnyWay)
  BY HandleFreeJudgeAnyWay DEF OnJudgeFree
<1> QED
  BY <1>1 DEF Next, ConnStep

\* A request judges.
LEMMA JudgeIsNext ==
  ASSUME TypeOK, NEW s \in Subs, NEW j \in Names \cup {AnyJudge}, NEW p \in Priorities,
         Judge(s, j, p, SubmitEnds)
  PROVE  Next
<1>1. Judge(s, j, p, AnyWay)
  <2>1. \A e : \A c \in Candidates(e) : SubmitEnds[c][s] \subseteq AnyWay[c][s]
    BY SubmitEndsInAWay DEF Candidates, TypeOK
  <2> HIDE DEF SubmitEnds, AnyWay
  <2> QED
    BY <2>1 DEF Judge
<1> QED
  BY <1>1 DEF Next, WebStep

\* Every step of a handler thread is one of these, or none.
LEMMA ThreadStepUsesList ==
  ASSUME TypeOK, NEW c \in Conns, ThreadStep(c)
  PROVE  Next \/ UNCHANGED listVars
<1>1. CASE SupportedProblemsUpdate(c)
  BY <1>1, UpdateProblemsIsNext DEF SupportedProblemsUpdate
<1>2. CASE Disconnect(c)
  BY <1>2 DEF Disconnect, Next, ConnStep
<1>3. CASE ~SupportedProblemsUpdate(c) /\ ~Disconnect(c)
  BY <1>3 DEF ThreadStep, Connected, WrongAcknowledgedGot, WrongAcknowledgedProcessing,
              GradingBeginClear, GradingEndRead, GradingEndSave, WriteVerdict,
              DisconnectOffline, DisconnectFail
<1> QED
  BY <1>1, <1>2, <1>3

\* So is every step of a judge,
LEMMA JudgeStepUsesList ==
  ASSUME TypeOK, NEW c \in Conns, NEW s \in Subs, JudgeStep(c, s)
  PROVE  Next \/ UNCHANGED listVars
<1>1. ASSUME NEW verdict \in Verdicts, Report(c, s, verdict)
      PROVE  Next
  BY <1>1, OnJudgeFreeIsNext DEF Report
<1>2. CASE ~\E verdict \in Verdicts : Report(c, s, verdict)
  BY <1>2 DEF JudgeStep, Acknowledged, WrongAcknowledged, GradingBegin, TestCase
<1> QED
  BY <1>1, <1>2

\* every step of a web process,
LEMMA WebProcessStepUsesList ==
  ASSUME TypeOK, WebTypeOK, NEW w \in Webs, WebProcessStep(w)
  PROVE  Next \/ UNCHANGED listVars
<1>1. CASE Request(w)
  <2>1. /\ web[w].sub \in Subs
        /\ web[w].judge_id \in Names \cup {AnyJudge}
        /\ web[w].priority \in Priorities
    BY <1>1 DEF WebTypeOK, WebRequest, Request
  <2> QED
    BY <1>1, <2>1, JudgeIsNext DEF Request
<1>2. CASE ~Request(w)
  BY <1>2 DEF WebProcessStep, UpdateRow, ClearRow, RequestFails, MarkFailed, MarkAborted
<1> QED
  BY <1>1, <1>2

\* and every step at all.
LEMMA StepUsesList == TypeOK /\ WebTypeOK /\ [BridgeNext]_vars => [Next]_listVars
<1> SUFFICES ASSUME TypeOK, WebTypeOK, [BridgeNext]_vars PROVE Next \/ UNCHANGED listVars
  OBVIOUS
<1>1. ASSUME NEW c \in Conns, Handshake(c)
      PROVE  Next
  BY <1>1, RegisterIsNext DEF Handshake
<1>2. ASSUME NEW c \in Conns, SupportedProblems(c)
      PROVE  Next
  BY <1>2, DeclareProblemsIsNext DEF SupportedProblems
<1>3. ASSUME NEW c \in Conns, HangUp(c) \/ PingFails(c)
      PROVE  UNCHANGED listVars
  BY <1>3 DEF HangUp, PingFails
<1>4. ASSUME NEW n \in Names, ForceDisconnect(n)
      PROVE  UNCHANGED listVars
  BY <1>4 DEF ForceDisconnect
<1>5. ASSUME NEW w \in Webs, NEW s \in Subs, Submit(w, s) \/ \E kind \in {"rejudge", "batch"} : Rejudge(w, s, kind)
      PROVE  UNCHANGED listVars
  BY <1>5 DEF Submit, Rejudge
<1>6. ASSUME NEW w \in Webs, NEW s \in Subs, AskAbort(w, s)
      PROVE  Next \/ UNCHANGED listVars
  BY <1>6 DEF AskAbort, Next, WebStep
<1>7. ASSUME NEW s \in Subs, DeleteRow(s)
      PROVE  UNCHANGED listVars
  BY <1>7 DEF DeleteRow
<1>8. ASSUME Crash
      PROVE  Next
  BY <1>8 DEF Crash, Next
<1>9. ASSUME Start
      PROVE  UNCHANGED listVars
  BY <1>9 DEF Start
<1>10. ASSUME UNCHANGED vars
       PROVE  UNCHANGED listVars
  BY <1>10 DEF vars
<1> QED
  BY <1>1, <1>2, <1>3, <1>4, <1>5, <1>6, <1>7, <1>8, <1>9, <1>10,
     ThreadStepUsesList, JudgeStepUsesList, WebProcessStepUsesList DEF BridgeNext

-----------------------------------------------------------------------------
(* The requests of the web processes *)

\* The web processes begin idle.
LEMMA InitWebType == BridgeInit => WebTypeOK
<1>1. 0 \in Priorities
  BY JudgeListAssumption DEF JudgeListAssumption, Priorities
<1> QED
  BY <1>1 DEF BridgeInit, WebTypeOK, WebRequest, NoRequest, WebStates

\* The ways in which the request of a process changes.
LEMMA WebChange ==
  ASSUME WebTypeOK, NEW w \in Webs, NEW r \in WebRequest,
         r.at # "idle" => r.sub \in Subs,
         web' = [web EXCEPT ![w] = r]
  PROVE  WebTypeOK'
  BY DEF WebTypeOK

\* A process that goes on keeps its submission.
LEMMA AwaitType ==
  ASSUME WebTypeOK, NEW w \in Webs, web[w].at # "idle", NEW at \in WebStates, Await(w, at)
  PROVE  WebTypeOK'
<1>1. web' = [web EXCEPT ![w] = [web[w] EXCEPT !.at = at]]
  BY DEF Await, WebTypeOK
<1>2. [web[w] EXCEPT !.at = at] \in WebRequest
  BY DEF WebTypeOK, WebRequest
<1>3. [web[w] EXCEPT !.at = at].sub \in Subs
  BY DEF WebTypeOK, WebRequest
<1> QED
  BY <1>1, <1>2, <1>3, WebChange

\* One that is done has none.
LEMMA ReturnType ==
  ASSUME WebTypeOK, NEW w \in Webs, Return(w)
  PROVE  WebTypeOK'
<1>1. NoRequest \in WebRequest /\ NoRequest.at = "idle"
  BY JudgeListAssumption DEF JudgeListAssumption, Priorities, NoRequest, WebRequest, WebStates
<1> QED
  BY <1>1, WebChange DEF Return

\* Every step keeps the types of the web processes.
LEMMA NextWebType == WebTypeOK /\ [BridgeNext]_vars => WebTypeOK'
<1> SUFFICES ASSUME WebTypeOK, [BridgeNext]_vars PROVE WebTypeOK'
  OBVIOUS
<1> USE DEF WebStates
<1>1. ASSUME UNCHANGED web
      PROVE  WebTypeOK'
  BY <1>1 DEF WebTypeOK
<1>2. ASSUME NEW w \in Webs, NEW s \in Subs, NEW j \in Names \cup {AnyJudge}, NEW p \in {0, 1, 2, 3},
             web' = [web EXCEPT ![w] = [at |-> "update", sub |-> s, judge_id |-> j, priority |-> p]]
      PROVE  WebTypeOK'
  <2> DEFINE r == [at |-> "update", sub |-> s, judge_id |-> j, priority |-> p]
  <2>1. p \in Priorities
    BY JudgeBridgeAssumption DEF JudgeBridgeAssumption, Priorities
  <2>2. r \in WebRequest /\ r.sub \in Subs
    BY <2>1 DEF WebRequest
  <2> HIDE DEF r
  <2> QED
    BY <1>2, <2>2, WebChange DEF r
<1>3. ASSUME NEW w \in Webs, NEW s \in Subs, Submit(w, s)
      PROVE  WebTypeOK'
  <2>1. PICK j \in Wanted :
          web' = [web EXCEPT ![w] = [at |-> "update", sub |-> s, judge_id |-> j,
                                     priority |-> IF s \in InContest THEN 0 ELSE 1]]
    BY <1>3 DEF Submit
  <2>2. j \in Names \cup {AnyJudge}
    BY JudgeBridgeAssumption DEF JudgeBridgeAssumption
  <2>3. (IF s \in InContest THEN 0 ELSE 1) \in {0, 1, 2, 3}
    OBVIOUS
  <2> QED
    BY <1>2, <2>1, <2>2, <2>3
<1>4. ASSUME NEW w \in Webs, NEW s \in Subs, NEW kind \in {"rejudge", "batch"}, Rejudge(w, s, kind)
      PROVE  WebTypeOK'
  <2>1. web' = [web EXCEPT ![w] = [at |-> "update", sub |-> s, judge_id |-> AnyJudge,
                                   priority |-> IF kind = "batch" THEN 3 ELSE 2]]
    BY <1>4 DEF Rejudge
  <2>2. (IF kind = "batch" THEN 3 ELSE 2) \in {0, 1, 2, 3}
    OBVIOUS
  <2> QED
    BY <1>2, <2>1, <2>2
<1>5. ASSUME NEW w \in Webs, NEW s \in Subs, AskAbort(w, s)
      PROVE  WebTypeOK'
  <2> DEFINE r == [at |-> "aborted", sub |-> s, judge_id |-> AnyJudge, priority |-> 0]
  <2>1. UNCHANGED web \/ web' = [web EXCEPT ![w] = r]
    BY <1>5 DEF AskAbort
  <2>2. r \in WebRequest /\ r.sub \in Subs
    BY JudgeListAssumption DEF JudgeListAssumption, Priorities, WebRequest
  <2> HIDE DEF r
  <2> QED
    BY <1>1, <2>1, <2>2, WebChange
<1>6. ASSUME NEW w \in Webs, WebProcessStep(w)
      PROVE  WebTypeOK'
  BY <1>6, AwaitType, ReturnType
     DEF WebProcessStep, UpdateRow, ClearRow, Request, RequestFails, MarkFailed, MarkAborted
<1>7. ASSUME NEW c \in Conns,
             \/ Handshake(c) \/ SupportedProblems(c) \/ HangUp(c) \/ PingFails(c)
      PROVE  UNCHANGED web
  BY <1>7 DEF Handshake, SupportedProblems, HangUp, PingFails
<1>8. ASSUME NEW c \in Conns, ThreadStep(c)
      PROVE  UNCHANGED web
  BY <1>8 DEF ThreadStep, Connected, SupportedProblemsUpdate, WrongAcknowledgedGot,
              WrongAcknowledgedProcessing, GradingBeginClear, GradingEndRead, GradingEndSave,
              WriteVerdict, Disconnect, DisconnectOffline, DisconnectFail
<1>9. ASSUME NEW c \in Conns, NEW s \in Subs, JudgeStep(c, s)
      PROVE  UNCHANGED web
  BY <1>9 DEF JudgeStep, Acknowledged, WrongAcknowledged, GradingBegin, TestCase, Report
<1>10. ASSUME \/ \E n \in Names : ForceDisconnect(n)
              \/ \E s \in Subs : DeleteRow(s)
              \/ Crash
              \/ Start
              \/ UNCHANGED vars
       PROVE  UNCHANGED web
  BY <1>10 DEF ForceDisconnect, DeleteRow, Crash, Start, vars
<1> QED
  BY <1>1, <1>3, <1>4, <1>5, <1>6, <1>7, <1>8, <1>9, <1>10 DEF BridgeNext

-----------------------------------------------------------------------------
(* The theorems *)

\* The bridge implements the specification of its list.
THEOREM BridgeUsesList == BridgeSpec => UsesListAsSpecified
<1>1. BridgeInit => Init
  BY DEF BridgeInit
<1> QED
  BY <1>1, InitType, NextType, InitWebType, NextWebType, StepUsesList, PTL DEF BridgeSpec, Spec, UsesListAsSpecified

\* Whatever happens to judges, web processes and the bridge itself, a judge of
\* the pool does not idle next to a submission it could grade.
THEOREM BridgeNoIdleJudge == BridgeSpec => []WorkConserving
  BY BridgeUsesList, NoIdleJudge, PTL DEF UsesListAsSpecified

\* A submission never waits while a judge of the pool has it.
THEOREM BridgeNeverWaitsAndGrades == BridgeSpec => []WaitingIsNotGraded
  BY BridgeUsesList, NeverWaitsAndGrades, PTL DEF UsesListAsSpecified

\* So the pool of the running bridge offers no dead connection and no work twice.
THEOREM BridgePoolStaysHonest == BridgeSpec => []PoolIsHonest
  BY BridgeUsesList, PoolStaysHonest, PTL DEF UsesListAsSpecified
-----------------------------------------------------------------------------
(* What a step of the bridge does to who waits and who grades, if dispatches *)
(* succeed.                                                                 *)

\* Whatever id but s waits or is graded goes on, or is handed to a judge.
Others(s) ==
  \A t \in Subs \ {s} :
    /\ submission_map[t] # NoConn => submission_map'[t] = submission_map[t] /\ t \notin node_map'
    /\ t \in node_map => t \in node_map' \/ submission_map'[t] # NoConn
    /\ t \notin node_map /\ submission_map[t] = NoConn =>
         t \notin node_map' /\ submission_map'[t] = NoConn

\* A handler that is gone stays gone, with what it was working on.
GoneStay == \A c \in Conns : life[c] = "gone" => life'[c] = "gone" /\ working'[c] = working[c]

\* What the list holds, said of submission_map alone.
LEMMA ReliableFacts ==
  ASSUME ReliableInv
  PROVE  /\ submission_map \in [Subs -> Conns \cup {NoConn}] /\ node_map \subseteq Subs
         /\ working \in [Conns -> Subs \cup {NoSub}] /\ NoConn \notin Conns /\ NoSub \notin Subs
         /\ \A s \in Subs, c \in Conns : s \in at_judge[c] <=> submission_map[s] = c
         /\ \A s \in Subs, c \in Conns : submission_map[s] = c <=> life[c] = "on" /\ working[c] = s
         /\ \A s \in node_map : submission_map[s] = NoConn
         /\ \A c \in Conns : ~updating[c]
         /\ judges \subseteq {c \in Conns : life[c] = "on"}
         /\ life \in [Conns -> {"new", "on", "gone"}]
<1>1. NoConn \notin Conns /\ NoSub \notin Subs
  BY JudgeListAssumption DEF JudgeListAssumption
<1>2. \A s \in Subs, c \in Conns : s \in at_judge[c] <=> submission_map[s] = c
  BY DEF ReliableInv, Agrees
<1> QED
  BY <1>1, <1>2 DEF ReliableInv, Agrees, TypeOK

\* A pass for c hands it what waits, or changes nothing.
LEMMA PassMoves ==
  ASSUME Reliable, ReliableInv, NEW c \in Conns, NEW pool, NEW declared, NEW map, NEW work, NEW held,
         HandleFreeJudge(c, pool, declared, map, work, held, SubmitEnds)
  PROVE  \/ submission_map' = map /\ working' = work /\ node_map' = node_map
         \/ \E t \in node_map : /\ submission_map' = [map EXCEPT ![t] = c]
                                /\ working' = [work EXCEPT ![c] = t]
                                /\ node_map' = node_map \ {t}
<1>1. HandleFreeJudge(c, pool, declared, map, work, held, AnyWay)
  BY HandleFreeJudgeAnyWay DEF ReliableInv
<1> QED
  BY <1>1, ReliablePass DEF ReliableInv

\* A handshake.
LEMMA HandshakeMoves ==
  ASSUME Reliable, ReliableInv, NEW c \in Conns, Handshake(c)
  PROVE  Others(NoSub) /\ GoneStay
<1>1. PICK declared \in Declared : Register(c, declared, SubmitEnds)
  BY DEF Handshake
<1>2. /\ life[c] = "new" /\ life' = [life EXCEPT ![c] = "on"]
      /\ HandleFreeJudge(c, judges \cup {c}, declared, submission_map, working, at_judge, SubmitEnds)
  BY <1>1 DEF Register
<1>3. \/ submission_map' = submission_map /\ working' = working /\ node_map' = node_map
      \/ \E t \in node_map : /\ submission_map' = [submission_map EXCEPT ![t] = c]
                             /\ working' = [working EXCEPT ![c] = t]
                             /\ node_map' = node_map \ {t}
  BY <1>2, PassMoves
<1>4. GoneStay
  BY <1>2, <1>3, ReliableFacts DEF GoneStay
<1>5. Others(NoSub)
  BY <1>3, ReliableFacts DEF Others
<1> QED
  BY <1>4, <1>5

\* A report takes its submission from the judge, and is never lost.
LEMMA ReportMoves ==
  ASSUME Reliable, ReliableInv, NEW c \in Conns, NEW s \in Subs, NEW verdict, Report(c, s, verdict)
  PROVE  /\ Others(s) /\ GoneStay
         /\ submission_map[s] = c /\ submission_map'[s] = NoConn
         /\ s \notin node_map /\ s \notin node_map'
         /\ GoTo(c, IF verdict = "D" THEN "read" ELSE verdict, s, 0)
<1>1. /\ s \in at_judge[c] /\ OnJudgeFree(c, s, SubmitEnds) /\ submission_map[s] = c
      /\ life[c] = "on" /\ s \notin node_map
  BY ReliableFacts DEF Report, OnJudgeFree
<1> DEFINE map  == [submission_map EXCEPT ![s] = NoConn]
           work == [working EXCEPT ![c] = NoSub]
           held == [at_judge EXCEPT ![c] = @ \ {s}]
<1>2. life' = life /\ HandleFreeJudge(c, judges, problems[c], map, work, held, SubmitEnds)
  BY <1>1, ReliableFacts DEF OnJudgeFree
<1> HIDE DEF map, work, held
<1>3. \/ submission_map' = map /\ working' = work /\ node_map' = node_map
      \/ \E t \in node_map : /\ submission_map' = [map EXCEPT ![t] = c]
                             /\ working' = [work EXCEPT ![c] = t]
                             /\ node_map' = node_map \ {t}
  BY <1>2, PassMoves
<1>4. GoneStay
  BY <1>1, <1>2, <1>3, ReliableFacts DEF GoneStay, work
<1>5. Others(s) /\ submission_map'[s] = NoConn /\ s \notin node_map'
  BY <1>1, <1>3, ReliableFacts DEF Others, map
<1>6. node_map' = node_map => NothingFor(c, problems[c])
  <2>1. HandleFreeJudge(c, judges, problems[c], map, work, held, AnyWay)
    BY <1>2, HandleFreeJudgeAnyWay DEF ReliableInv
  <2>2. ASSUME NEW p \in Priorities, NEW i \in 1 .. Len(queue[p]), NEW o \in AnyWay[c][queue[p][i].id],
               \/ o = "sent" /\ judges' = judges /\ RemoveNode(p, i)
               \/ o # "sent" /\ judges' = judges \ {c} /\ UNCHANGED <<queue, node_map>>,
               node_map' = node_map
        PROVE  FALSE
    <3>1. AnyWay[c][queue[p][i].id] = {"sent"}
      BY OutcomesForQueued DEF ReliableInv, Reliable
    <3>2. RemoveNode(p, i)
      BY <2>2, <3>1
    <3>3. queue[p] \in Seq(Entry)
      BY DEF ReliableInv, TypeOK
    <3>4. queue[p][i] \in Entry
      BY <3>3
    <3>5. queue[p][i].id \in Subs
      BY <3>4 DEF Entry
    <3>6. queue[p][i].id \in node_map
      BY <3>5 DEF ReliableInv, QueueConsistent, IsQueued
    <3> QED
      BY <2>2, <3>2, <3>6 DEF RemoveNode
  <2> QED
    BY <2>1, <2>2 DEF HandleFreeJudge
<1>7. GoTo(c, IF verdict = "D" THEN "read" ELSE verdict, s, 0)
  BY <1>1, <1>6, ReliableFacts DEF Report
<1> QED
  BY <1>1, <1>4, <1>5, <1>7

\* A connection that is lost takes its submission out of the map.
LEMMA DisconnectMoves ==
  ASSUME ReliableInv, NEW c \in Conns, Disconnect(c)
  PROVE  /\ Others(working[c]) /\ GoneStay /\ life'[c] = "gone"
         /\ UNCHANGED <<node_map, working>>
         /\ working[c] \in Subs => submission_map[working[c]] = c /\ submission_map'[working[c]] = NoConn
         /\ \A s \in Subs : submission_map'[s] # c
<1>1. /\ life[c] = "on" /\ life' = [life EXCEPT ![c] = "gone"]
      /\ submission_map' = IF working[c] = NoSub THEN submission_map
                           ELSE [submission_map EXCEPT ![working[c]] = NoConn]
      /\ UNCHANGED <<node_map, working>>
  BY DEF Disconnect, Remove
<1> QED
  BY <1>1, ReliableFacts DEF Others, GoneStay

\* A request leaves its submission with a judge or in the queue.
LEMMA RequestMoves ==
  ASSUME Reliable, ReliableInv, WebTypeOK, NEW w \in Webs, Request(w)
  PROVE  /\ Others(web[w].sub) /\ GoneStay
         /\ web[w].sub \in node_map' \/ submission_map'[web[w].sub] # NoConn
<1> DEFINE s == web[w].sub
<1>1. /\ s \in Subs /\ web[w].judge_id \in Names \cup {AnyJudge} /\ web[w].priority \in Priorities
      /\ Judge(s, web[w].judge_id, web[w].priority, SubmitEnds)
  BY DEF WebTypeOK, WebRequest, Request
<1>2. Judge(s, web[w].judge_id, web[w].priority, AnyWay)
  <2>1. \A e : \A c \in Candidates(e) : SubmitEnds[c][s] \subseteq AnyWay[c][s]
    BY <1>1, SubmitEndsInAWay, ReliableFacts DEF Candidates
  <2> HIDE DEF SubmitEnds, AnyWay, s
  <2> QED
    BY <1>1, <2>1 DEF Judge
<1> HIDE DEF s
<1>3. \/ UNCHANGED <<node_map, submission_map>>
      \/ \E c \in Conns :
           /\ submission_map[s] = NoConn
           /\ s \notin node_map
           /\ life[c] = "on" /\ working[c] = NoSub
           /\ submission_map' = [submission_map EXCEPT ![s] = c]
           /\ UNCHANGED node_map
      \/ /\ submission_map[s] = NoConn
         /\ s \notin node_map
         /\ node_map' = node_map \cup {s}
         /\ UNCHANGED submission_map
  BY <1>1, <1>2, JudgeSettled
<1>4. UNCHANGED <<node_map, submission_map>> => s \in node_map \/ submission_map[s] # NoConn
  <2> SUFFICES ASSUME UNCHANGED <<node_map, submission_map>>, s \notin node_map, submission_map[s] = NoConn
               PROVE  FALSE
    OBVIOUS
  <2>1. \/ \E e : \E c \in Candidates(e) : \E o \in AnyWay[c][s] :
             Dispatch(c, s, submission_map, working, at_judge, o)
        \/ node_map' = node_map \cup {s}
    BY <1>2 DEF Judge
  <2>2. ASSUME NEW e, NEW c \in Candidates(e), NEW o, Dispatch(c, s, submission_map, working, at_judge, o)
        PROVE  FALSE
    <3>1. c \in Conns
      BY ReliableFacts DEF Candidates
    <3> QED
      BY <1>1, <2>2, <3>1, ReliableFacts DEF Dispatch
  <2> QED
    BY <2>1, <2>2
<1>5. GoneStay
  <2>1. UNCHANGED life
    BY <1>2 DEF Judge
  <2>2. \A c \in Conns : life[c] = "gone" => working'[c] = working[c]
    <3>1. \/ UNCHANGED working
          \/ \E e : \E c \in Candidates(e) : \E o \in AnyWay[c][s] :
               Dispatch(c, s, submission_map, working, at_judge, o)
      BY <1>2 DEF Judge
    <3>2. ASSUME NEW e, NEW d \in Candidates(e), NEW o, Dispatch(d, s, submission_map, working, at_judge, o),
                 NEW c \in Conns, life[c] = "gone"
          PROVE  working'[c] = working[c]
      <4>1. d # c /\ d \in Conns
        BY <3>2, ReliableFacts DEF Candidates
      <4> QED
        BY <3>2, <4>1, ReliableFacts DEF Dispatch
    <3> QED
      BY <3>1, <3>2
  <2> QED
    BY <2>1, <2>2 DEF GoneStay
<1>6. Others(s) /\ (s \in node_map' \/ submission_map'[s] # NoConn)
  BY <1>1, <1>3, <1>4, ReliableFacts DEF Others
<1> QED
  BY <1>5, <1>6 DEF s

\* An abort takes its submission from the queue, if no judge has it.
LEMMA AskAbortMoves ==
  ASSUME ReliableInv, NEW w \in Webs, NEW s \in Subs, AskAbort(w, s)
  PROVE  /\ Others(s) /\ GoneStay
         /\ \/ UNCHANGED listVars
            \/ /\ submission_map[s] = NoConn /\ submission_map'[s] = NoConn /\ s \notin node_map'
         /\ \A t \in Subs : submission_map'[t] = submission_map[t]
<1>1. CASE UNCHANGED listVars
  BY <1>1, ReliableFacts DEF Others, GoneStay, listVars
<1>2. CASE Abort(s)
  <2>1. /\ submission_map[s] = NoConn /\ UNCHANGED <<submission_map, working, life>>
    BY <1>2 DEF Abort
  <2>2. node_map' = node_map \ {s}
    BY <1>2 DEF Abort, RemoveNode
  <2> QED
    BY <2>1, <2>2, ReliableFacts DEF Others, GoneStay
<1> QED
  BY <1>1, <1>2 DEF AskAbort
-----------------------------------------------------------------------------
(* The types of the bridge *)

\* A handler that is about to write a row knows which.
Writing == {"read", "D", "CE", "IE", "AB"}
Busy == {"clear", "mis_got", "mis_processing"} \cup Writing
ThreadState == {t \in [at : ThreadStates, sub : Subs \cup {NoSub}, seen : Nat] :
                  t.at \in Busy => t.sub \in Subs}
Statuses == {"new", "gone"} \cup InProgress \cup Final

\* What a call of Write does to the rows.
LEMMA WriteFacts ==
  ASSUME status \in [Subs -> Statuses], NEW s, NEW st \in InProgress \cup Final, Write(s, st)
  PROVE  /\ status' \in [Subs -> Statuses]
         /\ \A t \in Subs : t # s => status'[t] = status[t]
         /\ \A t \in Subs : status'[t] \in {status[t], st} /\ (HasRow(t)' <=> HasRow(t))
         /\ \A t \in Subs : t = s => status'[t] = st \/ ~HasRow(t)
<1>1. st \in Statuses /\ st \notin {"new", "gone"}
  BY DEF Statuses, InProgress, Final
<1>2. CASE s \in Subs /\ HasRow(s)
  BY <1>1, <1>2 DEF Write, HasRow
<1>3. CASE ~(s \in Subs /\ HasRow(s))
  BY <1>1, <1>3 DEF Write, HasRow
<1> QED
  BY <1>2, <1>3

\* What a step of one handler does to the threads.
LEMMA GoToFacts ==
  ASSUME thread \in [Conns -> ThreadState], NEW c \in Conns, NEW at \in ThreadStates,
         NEW s \in Subs \cup {NoSub}, NEW seen \in Nat, GoTo(c, at, s, seen),
         at \in Busy => s \in Subs
  PROVE  /\ thread' \in [Conns -> ThreadState]
         /\ thread'[c].at = at /\ thread'[c].sub = s /\ thread'[c].seen = seen
         /\ \A d \in Conns \ {c} : thread'[d] = thread[d]
<1>1. [at |-> at, sub |-> s, seen |-> seen] \in ThreadState
  BY DEF ThreadState
<1> QED
  BY <1>1 DEF GoTo

\* What a packet does to how far the judge is.
LEMMA AdvanceFacts ==
  ASSUME progress \in [Conns -> [Subs -> 0 .. (2 + NumCases)]], NumCases \in Nat,
         NEW c \in Conns, NEW s \in Subs, Advance(c, s), progress[c][s] <= 1 + NumCases
  PROVE  /\ progress' \in [Conns -> [Subs -> 0 .. (2 + NumCases)]]
         /\ progress'[c][s] = progress[c][s] + 1
         /\ \A d \in Conns, t \in Subs : d # c \/ t # s => progress'[d][t] = progress[d][t]
<1>1. progress[c][s] \in Nat /\ progress[c][s] + 1 \in 0 .. (2 + NumCases)
  OBVIOUS
<1>2. progress' = [progress EXCEPT ![c] = [progress[c] EXCEPT ![s] = progress[c][s] + 1]]
  BY DEF Advance
<1>3. [progress[c] EXCEPT ![s] = progress[c][s] + 1] \in [Subs -> 0 .. (2 + NumCases)]
  BY <1>1
<1> QED
  BY <1>2, <1>3

\* The types of what the bridge has besides its list and its callers.
RowTypes ==
  /\ status \in [Subs -> Statuses] /\ cases \in [Subs -> Nat] /\ counted \in [Subs -> Nat]
  /\ online \in [Names -> BOOLEAN]
  /\ progress \in [Conns -> [Subs -> 0 .. (2 + NumCases)]]
  /\ killing \in [Conns -> BOOLEAN] /\ socket \in [Conns -> {"open", "reset", "shut"}]
  /\ thread \in [Conns -> ThreadState]
  /\ up \in BOOLEAN

\* The types hold at the start.
LEMMA InitRowTypes == BridgeInit => RowTypes
<1> SUFFICES ASSUME BridgeInit PROVE RowTypes
  OBVIOUS
<1>1. NumCases \in Nat
  BY JudgeBridgeAssumption DEF JudgeBridgeAssumption
<1>2. [Resting EXCEPT !.at = "new"] \in ThreadState
  BY DEF Resting, ThreadState, ThreadStates, Busy, Writing
<1> QED
  BY <1>1, <1>2 DEF BridgeInit, RowTypes, Statuses

\* Every step of a handler thread keeps the types.
LEMMA ThreadStepTypes ==
  ASSUME RowTypes, NEW c \in Conns, ThreadStep(c)
  PROVE  RowTypes'
<1> USE DEF RowTypes, Rest
<1>0. /\ thread[c] \in ThreadState /\ thread[c].sub \in Subs \cup {NoSub} /\ thread[c].seen \in Nat
      /\ thread[c].at \in Busy => thread[c].sub \in Subs
      /\ NumCases \in Nat /\ NameOf[c] \in Names
  BY JudgeBridgeAssumption, JudgeListAssumption
     DEF JudgeBridgeAssumption, JudgeListAssumption, ThreadState
<1>a. {"idle", "mis_processing", "D", "fail", "offline", "dead"} \subseteq ThreadStates
      /\ {"idle", "fail", "offline", "dead"} \cap Busy = {}
  BY DEF ThreadStates, Busy, Writing
<1>b. {"IE", "P"} \subseteq InProgress \cup Final
  BY DEF InProgress, Final
<1>1. CASE Connected(c)
  BY <1>0, <1>1, <1>a, GoToFacts DEF Connected, judgeVars
<1>2. CASE SupportedProblemsUpdate(c)
  BY <1>2 DEF SupportedProblemsUpdate, dbVars, judgeVars
<1>3. CASE WrongAcknowledgedGot(c)
  <2>1. status' \in [Subs -> Statuses]
    BY <1>3, <1>b, WriteFacts DEF WrongAcknowledgedGot
  <2>2. thread' \in [Conns -> ThreadState] /\ socket' \in [Conns -> {"open", "reset", "shut"}]
    <3>1. thread[c].sub \in Subs
      BY <1>0, <1>3 DEF WrongAcknowledgedGot, Busy
    <3>2. \/ GoTo(c, "mis_processing", thread[c].sub, 0) /\ socket' = [socket EXCEPT ![c] = "shut"]
          \/ GoTo(c, "idle", NoSub, 0) /\ UNCHANGED socket
      BY <1>3 DEF WrongAcknowledgedGot
    <3> QED
      BY <1>a, <3>1, <3>2, GoToFacts
  <2> QED
    BY <1>3, <2>1, <2>2 DEF WrongAcknowledgedGot
<1>4. CASE WrongAcknowledgedProcessing(c)
  <2>1. status' \in [Subs -> Statuses]
    BY <1>4, <1>b, WriteFacts DEF WrongAcknowledgedProcessing
  <2>2. thread' \in [Conns -> ThreadState]
    BY <1>0, <1>4, <1>a, GoToFacts DEF WrongAcknowledgedProcessing
  <2> QED
    BY <1>4, <2>1, <2>2 DEF WrongAcknowledgedProcessing, judgeVars
<1>5. CASE GradingBeginClear(c)
  <2>1. thread' \in [Conns -> ThreadState]
    BY <1>0, <1>5, <1>a, GoToFacts DEF GradingBeginClear
  <2> QED
    BY <1>5, <2>1 DEF GradingBeginClear, judgeVars
<1>6. CASE GradingEndRead(c)
  <2>1. thread[c].sub \in Subs => cases[thread[c].sub] \in Nat
    OBVIOUS
  <2>2. thread' \in [Conns -> ThreadState]
    <3>1. thread[c].sub \in Subs
      BY <1>0, <1>6 DEF GradingEndRead, Busy, Writing
    <3> QED
      BY <1>0, <1>6, <1>a, <2>1, <3>1, GoToFacts DEF GradingEndRead
  <2> QED
    BY <1>6, <2>2 DEF GradingEndRead, dbVars, judgeVars
<1>7. CASE GradingEndSave(c)
  <2>1. thread' \in [Conns -> ThreadState]
    BY <1>0, <1>7, <1>a, GoToFacts DEF GradingEndSave
  <2> QED
    BY <1>0, <1>7, <2>1 DEF GradingEndSave, judgeVars, Statuses, Final
<1>8. CASE WriteVerdict(c)
  <2>1. status' \in [Subs -> Statuses]
    BY <1>8, WriteFacts DEF WriteVerdict, Final
  <2>2. thread' \in [Conns -> ThreadState]
    BY <1>0, <1>8, <1>a, GoToFacts DEF WriteVerdict
  <2> QED
    BY <1>8, <2>1, <2>2 DEF WriteVerdict, judgeVars
<1>9. CASE Disconnect(c)
  <2>1. thread' \in [Conns -> ThreadState]
    BY <1>0, <1>9, <1>a, GoToFacts DEF Disconnect
  <2>2. [s \in Subs |-> 0] \in [Subs -> 0 .. (2 + NumCases)]
    BY <1>0
  <2> QED
    BY <1>9, <2>1, <2>2 DEF Disconnect, dbVars
<1>10. CASE DisconnectOffline(c)
  <2>1. thread' \in [Conns -> ThreadState]
    BY <1>0, <1>10, <1>a, GoToFacts DEF DisconnectOffline
  <2> QED
    BY <1>0, <1>10, <2>1 DEF DisconnectOffline, judgeVars
<1>11. CASE DisconnectFail(c)
  <2>1. status' \in [Subs -> Statuses]
    BY <1>11, <1>b, WriteFacts DEF DisconnectFail
  <2>2. thread' \in [Conns -> ThreadState]
    BY <1>0, <1>11, <1>a, GoToFacts DEF DisconnectFail
  <2> QED
    BY <1>11, <2>1, <2>2 DEF DisconnectFail, judgeVars
<1> QED
  BY <1>1, <1>2, <1>3, <1>4, <1>5, <1>6, <1>7, <1>8, <1>9, <1>10, <1>11 DEF ThreadStep

\* Every packet of a judge keeps the types.
LEMMA JudgeStepTypes ==
  ASSUME RowTypes, NEW c \in Conns, NEW s \in Subs, JudgeStep(c, s)
  PROVE  RowTypes'
<1> USE DEF RowTypes
<1>0. /\ NumCases \in Nat /\ NumCases > 0 /\ progress[c][s] \in Nat /\ cases[s] + 1 \in Nat
      /\ Verdicts \subseteq {"D", "CE", "IE", "AB"}
  BY JudgeBridgeAssumption DEF JudgeBridgeAssumption
<1>a. {"clear", "mis_got", "read", "CE", "IE", "AB"} \subseteq ThreadStates
  BY DEF ThreadStates
<1>b. {"IE", "P", "G"} \subseteq InProgress \cup Final
  BY DEF InProgress, Final
<1>1. CASE Acknowledged(c, s)
  <2>1. status' \in [Subs -> Statuses]
    BY <1>1, <1>b, WriteFacts DEF Acknowledged
  <2>2. progress' \in [Conns -> [Subs -> 0 .. (2 + NumCases)]]
    BY <1>0, <1>1, AdvanceFacts DEF Acknowledged, AtStage
  <2> QED
    BY <1>1, <2>1, <2>2 DEF Acknowledged
<1>2. ASSUME NEW got \in Subs, WrongAcknowledged(c, s, got) PROVE RowTypes'
  <2>1. status' \in [Subs -> Statuses]
    BY <1>2, <1>b, WriteFacts DEF WrongAcknowledged
  <2>2. progress' \in [Conns -> [Subs -> 0 .. (2 + NumCases)]]
    BY <1>0, <1>2, AdvanceFacts DEF WrongAcknowledged, AtStage
  <2>3. thread' \in [Conns -> ThreadState]
    BY <1>2, <1>a, GoToFacts DEF WrongAcknowledged
  <2> QED
    BY <1>2, <2>1, <2>2, <2>3 DEF WrongAcknowledged
<1>3. CASE GradingBegin(c, s)
  <2>1. status' \in [Subs -> Statuses]
    BY <1>3, <1>b, WriteFacts DEF GradingBegin
  <2>2. progress' \in [Conns -> [Subs -> 0 .. (2 + NumCases)]]
    BY <1>0, <1>3, AdvanceFacts DEF GradingBegin, AtStage
  <2>3. thread' \in [Conns -> ThreadState]
    BY <1>3, <1>a, GoToFacts DEF GradingBegin
  <2> QED
    BY <1>3, <2>1, <2>2, <2>3 DEF GradingBegin
<1>4. CASE TestCase(c, s)
  <2>1. progress[c][s] <= 1 + NumCases
    BY <1>0, <1>4 DEF TestCase, AtStage
  <2>2. progress' \in [Conns -> [Subs -> 0 .. (2 + NumCases)]]
    BY <1>0, <1>4, <2>1, AdvanceFacts DEF TestCase
  <2>3. cases' \in [Subs -> Nat]
    BY <1>0, <1>4 DEF TestCase
  <2> QED
    BY <1>4, <2>2, <2>3 DEF TestCase
<1>5. ASSUME NEW verdict \in Verdicts, Report(c, s, verdict) PROVE RowTypes'
  <2>1. (IF verdict = "D" THEN "read" ELSE verdict) \in ThreadStates
    BY <1>0, <1>a
  <2>2. thread' \in [Conns -> ThreadState]
    <3>1. UNCHANGED thread \/ GoTo(c, IF verdict = "D" THEN "read" ELSE verdict, s, 0)
      BY <1>5 DEF Report
    <3> QED
      BY <2>1, <3>1, GoToFacts
  <2>3. progress' \in [Conns -> [Subs -> 0 .. (2 + NumCases)]]
    <3>1. progress' = [progress EXCEPT ![c] = [progress[c] EXCEPT ![s] = 0]]
      BY <1>5 DEF Report
    <3>2. [progress[c] EXCEPT ![s] = 0] \in [Subs -> 0 .. (2 + NumCases)]
      BY <1>0
    <3> QED
      BY <3>1, <3>2
  <2>4. killing' \in [Conns -> BOOLEAN]
    <3>1. killing' = [killing EXCEPT ![c] = killing[c] /\ at_judge[c] # {s}]
      BY <1>5 DEF Report
    <3>2. (killing[c] /\ at_judge[c] # {s}) \in BOOLEAN
      OBVIOUS
    <3> QED
      BY <3>1, <3>2
  <2> QED
    BY <1>5, <2>2, <2>3, <2>4 DEF Report, dbVars
<1> QED
  BY <1>1, <1>2, <1>3, <1>4, <1>5 DEF JudgeStep

\* Every step of a web process keeps the types.
LEMMA WebStepTypes ==
  ASSUME RowTypes, NEW w \in Webs, WebProcessStep(w)
  PROVE  RowTypes'
<1> USE DEF RowTypes
<1>1. {"IE", "QU", "AB"} \subseteq InProgress \cup Final
  BY DEF InProgress, Final
<1>2. status' \in [Subs -> Statuses]
  <2>1. status' = status \/ \E st \in {"IE", "QU", "AB"} : Write(web[w].sub, st)
    BY DEF WebProcessStep, UpdateRow, ClearRow, Request, RequestFails, MarkFailed, MarkAborted, dbVars
  <2> QED
    BY <1>1, <2>1, WriteFacts
<1> QED
  BY <1>2 DEF WebProcessStep, UpdateRow, ClearRow, Request, RequestFails, MarkFailed, MarkAborted,
              dbVars, judgeVars

\* Every step keeps the types.
LEMMA NextRowTypes == RowTypes /\ [BridgeNext]_vars => RowTypes'
<1> SUFFICES ASSUME RowTypes, [BridgeNext]_vars PROVE RowTypes'
  OBVIOUS
<1> USE DEF RowTypes
<1>0. NumCases \in Nat
  BY JudgeBridgeAssumption DEF JudgeBridgeAssumption
<1>1. ASSUME NEW c \in Conns, Handshake(c) PROVE RowTypes'
  <2>1. thread' \in [Conns -> ThreadState]
    <3>1. "connected" \in ThreadStates
      BY DEF ThreadStates
    <3>2. "connected" \notin Busy
      BY DEF Busy, Writing
    <3> QED
      BY <1>1, <3>1, <3>2, GoToFacts DEF Handshake
  <2> QED
    BY <1>1, <2>1 DEF Handshake, dbVars, judgeVars
<1>2. ASSUME NEW c \in Conns, SupportedProblems(c) PROVE RowTypes'
  BY <1>2 DEF SupportedProblems, dbVars, judgeVars
<1>3. ASSUME NEW c \in Conns, HangUp(c) \/ PingFails(c) PROVE RowTypes'
  BY <1>3 DEF HangUp, PingFails, dbVars
<1>4. ASSUME NEW n \in Names, ForceDisconnect(n) PROVE RowTypes'
  BY <1>4 DEF ForceDisconnect, dbVars
<1>5. ASSUME NEW w \in Webs, NEW s \in Subs,
             Submit(w, s) \/ \E kind \in {"rejudge", "batch"} : Rejudge(w, s, kind)
      PROVE  RowTypes'
  BY <1>5 DEF Submit, Rejudge, dbVars, judgeVars, Statuses, InProgress
<1>6. ASSUME NEW w \in Webs, NEW s \in Subs, AskAbort(w, s) PROVE RowTypes'
  <2>1. killing' \in [Conns -> BOOLEAN]
    <3>1. CASE UNCHANGED killing
      BY <3>1
    <3>2. ASSUME NEW c, NEW told \in BOOLEAN, killing' = [killing EXCEPT ![c] = @ \/ told]
          PROVE  killing' \in [Conns -> BOOLEAN]
      <4>1. CASE c \in Conns
        <5>1. (killing[c] \/ told) \in BOOLEAN
          OBVIOUS
        <5> QED
          BY <3>2, <5>1
      <4>2. CASE c \notin Conns
        BY <3>2, <4>2
      <4> QED
        BY <4>1, <4>2
    <3>3. (socket[submission_map[s]] # "shut" /\ at_judge[submission_map[s]] # {}) \in BOOLEAN
      OBVIOUS
    <3> QED
      BY <1>6, <3>1, <3>2, <3>3 DEF AskAbort
  <2> QED
    BY <1>6, <2>1 DEF AskAbort, dbVars
<1>7. ASSUME NEW s \in Subs, DeleteRow(s) PROVE RowTypes'
  BY <1>7 DEF DeleteRow, judgeVars, Statuses
<1>8. CASE Crash
  <2>1. thread' \in [Conns -> ThreadState]
    <3>1. [Resting EXCEPT !.at = "dead"] \in ThreadState
      BY DEF Resting, ThreadState, ThreadStates, Busy, Writing
    <3> QED
      BY <1>8, <3>1 DEF Crash
  <2>2. [s \in Subs |-> 0] \in [Subs -> 0 .. (2 + NumCases)]
    BY <1>0
  <2> QED
    BY <1>8, <2>1, <2>2 DEF Crash, dbVars
<1>9. CASE Start
  BY <1>9 DEF Start, judgeVars, Statuses, Final
<1>10. CASE UNCHANGED vars
  BY <1>10 DEF vars, dbVars, judgeVars
<1> QED
  BY <1>1, <1>2, <1>3, <1>4, <1>5, <1>6, <1>7, <1>8, <1>9, <1>10,
     ThreadStepTypes, JudgeStepTypes, WebStepTypes DEF BridgeNext

\* Handler threads, rows, judges and web processes are what BridgeTypeOK says.
THEOREM BridgeTypesHold == BridgeSpec => []BridgeTypeOK
<1>1. TypeOK /\ WebTypeOK /\ RowTypes => BridgeTypeOK
  <2> SUFFICES ASSUME TypeOK, WebTypeOK, RowTypes PROVE BridgeTypeOK
    OBVIOUS
  <2> QED
    BY DEF WebTypeOK, WebRequest, RowTypes, BridgeTypeOK, ThreadState, Statuses
<1>2. TypeOK /\ WebTypeOK /\ RowTypes /\ [BridgeNext]_vars => (TypeOK /\ WebTypeOK /\ RowTypes)'
  BY NextType, NextWebType, StepUsesList, NextRowTypes
<1>3. BridgeInit => TypeOK /\ WebTypeOK /\ RowTypes
  <2>1. BridgeInit => Init
    BY DEF BridgeInit
  <2> QED
    BY <2>1, InitType, InitWebType, InitRowTypes
<1> QED
  BY <1>1, <1>2, <1>3, PTL DEF BridgeSpec
-----------------------------------------------------------------------------
(* Handlers of a bridge whose dispatches succeed *)

\* What the other invariants rest on: a handler that clears the test cases of a
\* submission has it, and one that is past remove is gone.
BridgeBase ==
  /\ ReliableInv /\ WebTypeOK /\ RowTypes
  /\ \A c \in Conns : thread[c].at = "clear" => submission_map[thread[c].sub] = c
  /\ \A c \in Conns : thread[c].at \in {"offline", "fail"} => life[c] = "gone"
  /\ \A c \in Conns : thread[c].sub # NoSub => thread[c].at \in Busy

\* A step that does not touch the list.
LEMMA QuietMoves ==
  ASSUME ReliableInv, UNCHANGED listVars
  PROVE  /\ Others(NoSub) /\ GoneStay
         /\ UNCHANGED <<submission_map, node_map, life, working, at_judge>>
  BY ReliableFacts DEF Others, GoneStay, listVars

\* Judges of a reliable list declare their problems once.
LEMMA NoHotReload ==
  ASSUME Reliable, ReliableInv, NEW c \in Conns
  PROVE  ~SupportedProblems(c) /\ ~SupportedProblemsUpdate(c)
  BY ReliableFacts DEF Reliable, SupportedProblems, SupportedProblemsUpdate, DeclareProblems, UpdateProblems

\* What the step of one handler does to the threads, and that only c moves.
OnlyThread(c) == \A d \in Conns \ {c} : thread'[d] = thread[d]

\* A row is written by no step that could delete it.
LEMMA NoVanish ==
  ASSUME Reliable, NEW s \in Subs
  PROVE  ~DeleteRow(s) /\ "reset" \notin Faults /\ "shutdown" \notin Faults
  BY JudgeBridgeAssumption DEF JudgeBridgeAssumption, Reliable, DeleteRow

\* What every handler step but a crash does to the threads and to its id.
LEMMA HandlerMoves ==
  ASSUME Reliable, BridgeBase, NEW c \in Conns,
         \/ Handshake(c) \/ ThreadStep(c) \/ \E s \in Subs : JudgeStep(c, s)
  PROVE  /\ OnlyThread(c) /\ GoneStay /\ UNCHANGED <<web, up>>
         /\ thread'[c].sub # NoSub => thread'[c].at \in Busy
         /\ thread'[c].at = "clear" => submission_map'[thread'[c].sub] = c
         /\ thread'[c].at \in {"offline", "fail"} => life'[c] = "gone"
<1> DEFINE Goal == /\ OnlyThread(c) /\ GoneStay /\ UNCHANGED <<web, up>>
                   /\ thread'[c].sub # NoSub => thread'[c].at \in Busy
                   /\ thread'[c].at = "clear" => submission_map'[thread'[c].sub] = c
                   /\ thread'[c].at \in {"offline", "fail"} => life'[c] = "gone"
<1>0. /\ ReliableInv /\ RowTypes /\ thread \in [Conns -> ThreadState] /\ thread[c] \in ThreadState
      /\ thread[c].sub \in Subs \cup {NoSub} /\ thread[c].seen \in Nat /\ cases \in [Subs -> Nat]
      /\ thread[c].at \in Busy => thread[c].sub \in Subs
      /\ thread[c].sub # NoSub => thread[c].at \in Busy
      /\ thread[c].at = "clear" => submission_map[thread[c].sub] = c
      /\ thread[c].at \in {"offline", "fail"} => life[c] = "gone"
      /\ NoSub \notin Subs
  BY ReliableFacts DEF BridgeBase, RowTypes, ThreadState
<1>a. /\ {"idle", "connected", "dead", "offline", "fail"} \cap Busy = {}
      /\ {"idle", "connected", "dead", "offline", "fail"} \subseteq ThreadStates
      /\ {"clear", "mis_got", "mis_processing", "read", "D", "CE", "IE", "AB"} = Busy
      /\ Busy \subseteq ThreadStates
  BY DEF ThreadStates, Busy, Writing
<1>b. ASSUME NEW at \in ThreadStates \ {"clear", "offline", "fail"}, NEW s \in Subs \cup {NoSub}, NEW seen \in Nat,
             GoTo(c, at, s, seen), at \in Busy <=> s \in Subs, GoneStay, UNCHANGED <<web, up>>
      PROVE  Goal
  <2>1. /\ thread'[c].at = at /\ thread'[c].sub = s
        /\ \A d \in Conns \ {c} : thread'[d] = thread[d]
    BY <1>0, <1>b, GoToFacts
  <2> QED
    BY <1>0, <1>b, <2>1 DEF OnlyThread
<1>c. ASSUME Rest(c), GoneStay, UNCHANGED <<web, up>> PROVE Goal
  BY <1>0, <1>a, <1>b, <1>c DEF Rest
<1>d. ASSUME UNCHANGED <<listVars, thread, web, up>> PROVE Goal
  <2>1. GoneStay /\ UNCHANGED <<submission_map, life>>
    BY <1>0, <1>d, QuietMoves
  <2> QED
    BY <1>0, <1>d, <2>1 DEF OnlyThread
<1>1. CASE Handshake(c)
  <2>1. GoneStay
    BY <1>0, <1>1, HandshakeMoves
  <2> QED
    BY <1>0, <1>1, <1>a, <1>b, <2>1 DEF Handshake
<1>2. CASE Disconnect(c)
  <2>1. GoneStay /\ life'[c] = "gone"
    BY <1>0, <1>2, DisconnectMoves
  <2>2. /\ thread'[c].at = "offline" /\ thread'[c].sub = NoSub
        /\ \A d \in Conns \ {c} : thread'[d] = thread[d]
    BY <1>0, <1>2, <1>a, GoToFacts DEF Disconnect
  <2> QED
    BY <1>2, <2>1, <2>2 DEF Disconnect, OnlyThread
<1>3. CASE DisconnectOffline(c)
  <2>1. GoneStay /\ UNCHANGED life
    BY <1>0, <1>3, QuietMoves DEF DisconnectOffline
  <2>2. /\ thread'[c].at = "fail" /\ thread'[c].sub = NoSub
        /\ \A d \in Conns \ {c} : thread'[d] = thread[d]
    BY <1>0, <1>3, <1>a, GoToFacts DEF DisconnectOffline
  <2> QED
    BY <1>0, <1>3, <2>1, <2>2 DEF DisconnectOffline, OnlyThread
<1>4. CASE Connected(c) \/ WrongAcknowledgedProcessing(c) \/ GradingBeginClear(c)
           \/ GradingEndSave(c) \/ WriteVerdict(c)
  <2>1. Rest(c) /\ UNCHANGED <<listVars, web, up>>
    BY <1>4 DEF Connected, WrongAcknowledgedProcessing, GradingBeginClear, GradingEndSave, WriteVerdict
  <2>2. GoneStay
    BY <1>0, <2>1, QuietMoves
  <2> QED
    BY <1>c, <2>1, <2>2
<1>5. CASE DisconnectFail(c)
  <2>1. GoTo(c, "dead", NoSub, 0) /\ UNCHANGED <<listVars, web, up>>
    BY <1>5 DEF DisconnectFail
  <2>2. GoneStay
    BY <1>0, <2>1, QuietMoves
  <2> QED
    BY <1>0, <1>a, <1>b, <2>1, <2>2
<1>6. CASE WrongAcknowledgedGot(c)
  <2>1. /\ Rest(c) \/ GoTo(c, "mis_processing", thread[c].sub, 0)
        /\ UNCHANGED <<listVars, web, up>> /\ thread[c].at = "mis_got"
    BY <1>6 DEF WrongAcknowledgedGot
  <2>2. GoneStay
    BY <1>0, <2>1, QuietMoves
  <2>3. CASE GoTo(c, "mis_processing", thread[c].sub, 0)
    BY <1>0, <1>a, <1>b, <2>1, <2>2, <2>3
  <2> QED
    BY <1>c, <2>1, <2>2, <2>3
<1>7. CASE GradingEndRead(c)
  <2>1. /\ Rest(c) \/ GoTo(c, "D", thread[c].sub, cases[thread[c].sub])
        /\ UNCHANGED <<listVars, web, up>> /\ thread[c].at = "read"
    BY <1>7 DEF GradingEndRead
  <2>2. GoneStay
    BY <1>0, <2>1, QuietMoves
  <2>3. CASE GoTo(c, "D", thread[c].sub, cases[thread[c].sub])
    BY <1>0, <1>a, <1>b, <2>1, <2>2, <2>3
  <2> QED
    BY <1>c, <2>1, <2>2, <2>3
<1>8. ASSUME NEW s \in Subs, JudgeStep(c, s) PROVE Goal
  <2>1. CASE Acknowledged(c, s) \/ TestCase(c, s)
    BY <1>d, <2>1 DEF Acknowledged, TestCase
  <2>2. ASSUME NEW got \in Subs, WrongAcknowledged(c, s, got) PROVE Goal
    <3>1. GoneStay
      BY <1>0, <2>2, QuietMoves DEF WrongAcknowledged
    <3> QED
      BY <1>a, <1>b, <2>2, <3>1 DEF WrongAcknowledged
  <2>3. CASE GradingBegin(c, s)
    <3>1. /\ UNCHANGED <<listVars, web, up>> /\ s \in at_judge[c]
          /\ GoTo(c, "clear", s, 0) \/ UNCHANGED thread
      BY <2>3 DEF GradingBegin, AtStage
    <3>2. GoneStay /\ submission_map'[s] = c
      BY <1>0, <3>1, QuietMoves, ReliableFacts
    <3>3. CASE GoTo(c, "clear", s, 0)
      <4>1. /\ thread'[c].at = "clear" /\ thread'[c].sub = s
            /\ \A d \in Conns \ {c} : thread'[d] = thread[d]
        <5>1. "clear" \in ThreadStates /\ s \in Subs \cup {NoSub}
          BY DEF ThreadStates
        <5> QED
          BY <1>0, <3>3, <5>1, GoToFacts
      <4> QED
        BY <1>a, <3>1, <3>2, <4>1 DEF OnlyThread
    <3> QED
      BY <1>d, <3>1, <3>3
  <2>4. ASSUME NEW verdict \in Verdicts, Report(c, s, verdict) PROVE Goal
    <3>1. GoneStay /\ GoTo(c, IF verdict = "D" THEN "read" ELSE verdict, s, 0)
      BY <1>0, <2>4, ReportMoves
    <3>2. (IF verdict = "D" THEN "read" ELSE verdict) \in {"read", "CE", "IE", "AB"}
      BY JudgeBridgeAssumption DEF JudgeBridgeAssumption
    <3> QED
      BY <1>a, <1>b, <2>4, <3>1, <3>2 DEF Report
  <2> QED
    BY <1>8, <2>1, <2>2, <2>3, <2>4 DEF JudgeStep
<1>9. ~SupportedProblemsUpdate(c)
  BY <1>0, NoHotReload
<1> QED
  BY <1>1, <1>2, <1>3, <1>4, <1>5, <1>6, <1>7, <1>8, <1>9 DEF ThreadStep

\* A step of one handler takes no submission from the judge of another.
LEMMA OthersKeep ==
  ASSUME Reliable, BridgeBase, NEW c \in Conns,
         \/ Handshake(c) \/ ThreadStep(c) \/ \E s \in Subs : JudgeStep(c, s)
  PROVE  \A d \in Conns \ {c} : \A s \in Subs : submission_map[s] = d => submission_map'[s] = d
<1> SUFFICES ASSUME NEW d \in Conns \ {c}, NEW s \in Subs, submission_map[s] = d
             PROVE  submission_map'[s] = d
  OBVIOUS
<1>1. CASE Handshake(c)
  BY <1>1, HandshakeMoves, ReliableFacts DEF BridgeBase, Others
<1>2. CASE ThreadStep(c)
  <2>1. CASE Disconnect(c)
    <3>1. Others(working[c]) /\ (working[c] = s => submission_map[s] = c)
      BY <2>1, DisconnectMoves DEF BridgeBase
    <3> QED
      BY <3>1, ReliableFacts DEF BridgeBase, Others
  <2>2. CASE ~Disconnect(c)
    <3>1. ~SupportedProblemsUpdate(c)
      BY NoHotReload DEF BridgeBase
    <3>2. UNCHANGED listVars
      BY <1>2, <2>2, <3>1 DEF ThreadStep, Connected, WrongAcknowledgedGot, WrongAcknowledgedProcessing,
          GradingBeginClear, GradingEndRead, GradingEndSave, WriteVerdict,
          DisconnectOffline, DisconnectFail
    <3> QED
      BY <3>2 DEF listVars
  <2> QED
    BY <2>1, <2>2
<1>3. ASSUME NEW t \in Subs, JudgeStep(c, t) PROVE submission_map'[s] = d
  <2>1. ASSUME NEW verdict \in Verdicts, Report(c, t, verdict) PROVE submission_map'[s] = d
    <3>1. Others(t) /\ submission_map[t] = c
      BY <2>1, ReportMoves DEF BridgeBase
    <3> QED
      BY <3>1, ReliableFacts DEF BridgeBase, Others
  <2>2. CASE UNCHANGED listVars
    BY <2>2 DEF listVars
  <2> QED
    BY <1>3, <2>1, <2>2 DEF JudgeStep, Acknowledged, WrongAcknowledged, GradingBegin, TestCase
<1> QED
  BY <1>1, <1>2, <1>3

\* What is not a step of a handler leaves the threads alone, a crash apart.
LEMMA RestMoves ==
  ASSUME Reliable, BridgeBase, [BridgeNext]_vars,
         ~\E c \in Conns : \/ Handshake(c) \/ ThreadStep(c) \/ \E s \in Subs : JudgeStep(c, s)
  PROVE  \/ Crash
         \/ /\ UNCHANGED <<thread, progress>> /\ GoneStay
            /\ \A s \in Subs, c \in Conns : submission_map[s] = c => submission_map'[s] = c
<1>0. ReliableInv /\ WebTypeOK
  BY DEF BridgeBase
<1>1. ASSUME NEW c \in Conns PROVE ~SupportedProblems(c)
  BY <1>0, NoHotReload
<1>2. ASSUME UNCHANGED <<listVars, thread, progress>>
      PROVE  /\ UNCHANGED <<thread, progress>> /\ GoneStay
             /\ \A s \in Subs, c \in Conns : submission_map[s] = c => submission_map'[s] = c
  BY <1>0, <1>2, QuietMoves
<1>3. ASSUME NEW c \in Conns, HangUp(c) \/ PingFails(c) PROVE UNCHANGED <<listVars, thread, progress>>
  BY <1>3 DEF HangUp, PingFails
<1>4. ASSUME NEW n \in Names, ForceDisconnect(n) PROVE UNCHANGED <<listVars, thread, progress>>
  BY <1>4 DEF ForceDisconnect
<1>5. ASSUME NEW w \in Webs, NEW s \in Subs,
             Submit(w, s) \/ \E kind \in {"rejudge", "batch"} : Rejudge(w, s, kind)
      PROVE  UNCHANGED <<listVars, thread, progress>>
  BY <1>5 DEF Submit, Rejudge, judgeVars
<1>6. ASSUME NEW w \in Webs, NEW s \in Subs, AskAbort(w, s)
      PROVE  /\ UNCHANGED <<thread, progress>> /\ GoneStay
             /\ \A t \in Subs, c \in Conns : submission_map[t] = c => submission_map'[t] = c
  <2>1. UNCHANGED <<thread, progress>>
    BY <1>6 DEF AskAbort
  <2> QED
    BY <1>0, <1>6, <2>1, AskAbortMoves
<1>7. ASSUME NEW w \in Webs, WebProcessStep(w)
      PROVE  /\ UNCHANGED <<thread, progress>> /\ GoneStay
             /\ \A t \in Subs, c \in Conns : submission_map[t] = c => submission_map'[t] = c
  <2>1. CASE Request(w)
    <3>1. UNCHANGED <<thread, progress>> /\ GoneStay /\ Others(web[w].sub)
      BY <1>0, <2>1, RequestMoves DEF Request, judgeVars
    <3>2. web[w].sub \in Subs /\ submission_map[web[w].sub] # NoConn => UNCHANGED submission_map
      BY <2>1 DEF Request, Judge
    <3> QED
      BY <1>0, <3>1, <3>2, ReliableFacts DEF Others
  <2>2. CASE ~Request(w)
    <3>1. UNCHANGED <<listVars, thread, progress>>
      BY <1>7, <2>2 DEF WebProcessStep, UpdateRow, ClearRow, RequestFails, MarkFailed, MarkAborted, judgeVars
    <3> QED
      BY <1>2, <3>1
  <2> QED
    BY <2>1, <2>2
<1>8. CASE Start \/ UNCHANGED vars
  <2>1. UNCHANGED <<listVars, thread, progress>>
    BY <1>8 DEF Start, vars, judgeVars
  <2> QED
    BY <1>2, <2>1
<1> QED
  BY <1>1, <1>2, <1>3, <1>4, <1>5, <1>6, <1>7, <1>8, NoVanish DEF BridgeNext

\* After a crash no handler is anywhere, and no judge has anything.
LEMMA CrashMoves ==
  ASSUME BridgeBase, Crash
  PROVE  /\ \A c \in Conns : thread'[c].at \in {"new", "dead"} /\ thread'[c].sub = NoSub
         /\ \A s \in Subs : submission_map'[s] = NoConn
         /\ node_map' = {} /\ ~up' /\ UNCHANGED <<dbVars, web>>
         /\ \A c \in Conns, s \in Subs : progress'[c][s] = 0
<1>1. \A c \in Conns : thread[c].at = "new" => thread[c].sub = NoSub
  BY DEF BridgeBase, Busy, Writing
<1>2. ASSUME NEW c \in Conns PROVE thread'[c].at \in {"new", "dead"} /\ thread'[c].sub = NoSub
  <2>1. thread'[c] = IF thread[c].at = "new" THEN thread[c] ELSE [Resting EXCEPT !.at = "dead"]
    BY DEF Crash
  <2> QED
    BY <1>1, <2>1 DEF Resting
<1> QED
  BY <1>2 DEF Crash, Restart, BridgeBase, RowTypes

\* The base holds in every reachable state.
LEMMA BaseStep == Reliable /\ BridgeBase /\ [BridgeNext]_vars => BridgeBase'
<1> SUFFICES ASSUME Reliable, BridgeBase, [BridgeNext]_vars PROVE BridgeBase'
  OBVIOUS
<1>1. ReliableInv' /\ WebTypeOK' /\ RowTypes'
  BY StepUsesList, NextReliable, NextWebType, NextRowTypes DEF BridgeBase, ReliableInv
<1>2. CASE Crash
  BY <1>1, <1>2, CrashMoves DEF BridgeBase
<1>3. ASSUME NEW c \in Conns, \/ Handshake(c) \/ ThreadStep(c) \/ \E s \in Subs : JudgeStep(c, s)
      PROVE  BridgeBase'
  <2>1. /\ OnlyThread(c) /\ GoneStay
        /\ thread'[c].sub # NoSub => thread'[c].at \in Busy
        /\ thread'[c].at = "clear" => submission_map'[thread'[c].sub] = c
        /\ thread'[c].at \in {"offline", "fail"} => life'[c] = "gone"
    BY <1>3, HandlerMoves
  <2>2. \A d \in Conns \ {c} : \A s \in Subs : submission_map[s] = d => submission_map'[s] = d
    BY <1>3, OthersKeep
  <2>3. \A d \in Conns : thread[d].at = "clear" => thread[d].sub \in Subs
    BY DEF BridgeBase, RowTypes, ThreadState, Busy
  <2> QED
    BY <1>1, <2>1, <2>2, <2>3 DEF BridgeBase, OnlyThread, GoneStay
<1>4. CASE /\ UNCHANGED <<thread, progress>> /\ GoneStay
           /\ \A s \in Subs, c \in Conns : submission_map[s] = c => submission_map'[s] = c
  <2>1. \A d \in Conns : thread[d].at = "clear" => thread[d].sub \in Subs
    BY DEF BridgeBase, RowTypes, ThreadState, Busy
  <2> QED
    BY <1>1, <1>4, <2>1 DEF BridgeBase, GoneStay
<1> QED
  BY <1>2, <1>3, <1>4, RestMoves

\* It holds at the start.
LEMMA BaseStarts == BridgeInit => BridgeBase
<1> SUFFICES ASSUME BridgeInit PROVE BridgeBase
  OBVIOUS
<1>1. ReliableInv /\ WebTypeOK /\ RowTypes
  BY InitReliable, InitWebType, InitRowTypes DEF BridgeInit
<1>2. \A c \in Conns : thread[c].at = "new" /\ thread[c].sub = NoSub
  BY DEF BridgeInit, Resting
<1> QED
  BY <1>1, <1>2 DEF BridgeBase
-----------------------------------------------------------------------------
(* Nothing is shown as in progress that nobody looks after *)

\* A row in progress is with a judge, or with whoever is about to write it.
Judged(s) == submission_map[s] # NoConn \/ WithThread(s)
Cared(s) ==
  /\ status[s] \in {"P", "G"} => Judged(s)
  /\ status[s] = "QU" => s \in node_map \/ Judged(s) \/ WithWeb(s)

\* With judges that acknowledge what they were sent, the inductive invariant.
OwnerInv ==
  /\ BridgeBase
  /\ \A c \in Conns : thread[c].at \notin {"mis_got", "mis_processing"}
  /\ up => \A s \in Subs : Cared(s)

\* Whoever was about to write a row other than that of c still is.
LEMMA OtherThreadsStay ==
  ASSUME BridgeBase, GoneStay, NEW c \in Conns, OnlyThread(c), NEW t \in Subs, WithThread(t),
         thread[c].sub # t, thread[c].at \notin {"offline", "fail"} \/ working[c] # t
  PROVE  WithThread(t)'
<1>1. PICK d \in Conns : thread[d].sub = t \/ (thread[d].at \in {"offline", "fail"} /\ working[d] = t)
  BY DEF WithThread
<1>2. d # c /\ thread'[d] = thread[d]
  BY <1>1 DEF OnlyThread
<1>3. thread[d].at \in {"offline", "fail"} => working'[d] = working[d]
  BY DEF BridgeBase, GoneStay
<1> QED
  BY <1>1, <1>2, <1>3 DEF WithThread

\* A row stays looked after if its status does not change and nobody lets it go.
LEMMA StaysCared ==
  ASSUME NEW s \in Subs, Cared(s), status'[s] = status[s],
         submission_map[s] # NoConn => submission_map'[s] # NoConn,
         s \in node_map => s \in node_map' \/ submission_map'[s] # NoConn,
         WithThread(s) => WithThread(s)', WithWeb(s) => WithWeb(s)'
  PROVE  Cared(s)'
  BY DEF Cared, Judged

\* The same, of all ids but one, in a step that moves only c.
LEMMA OthersStayCared ==
  ASSUME BridgeBase, NEW c \in Conns, OnlyThread(c), GoneStay, UNCHANGED web,
         NEW s, Others(s), NEW t \in Subs, t # s, Cared(t), status'[t] = status[t],
         thread[c].sub # t, thread[c].at \notin {"offline", "fail"} \/ working[c] # t
  PROVE  Cared(t)'
<1>1. WithThread(t) => WithThread(t)'
  BY OtherThreadsStay
<1>2. WithWeb(t) => WithWeb(t)'
  BY DEF WithWeb
<1> QED
  BY <1>1, <1>2, StaysCared, ReliableFacts DEF Others, BridgeBase

\* Every step of a handler leaves what is in progress looked after.
LEMMA HandlerCares ==
  ASSUME Reliable, "misack" \notin Faults, OwnerInv, NEW c \in Conns,
         \/ Handshake(c) \/ ThreadStep(c) \/ \E s \in Subs : JudgeStep(c, s)
  PROVE  /\ \A s \in Subs : Cared(s)'
         /\ thread'[c].at \notin {"mis_got", "mis_processing"}
<1> DEFINE Goal == (\A s \in Subs : Cared(s)') /\ thread'[c].at \notin {"mis_got", "mis_processing"}
<1>0. /\ BridgeBase /\ ReliableInv /\ thread \in [Conns -> ThreadState] /\ thread[c] \in ThreadState
      /\ thread[c].at \in Busy => thread[c].sub \in Subs
      /\ thread[c].sub # NoSub => thread[c].at \in Busy
      /\ status \in [Subs -> Statuses] /\ cases \in [Subs -> Nat] /\ NoSub \notin Subs
      /\ up => \A s \in Subs : Cared(s)
      /\ thread[c].at \notin {"mis_got", "mis_processing"}
  BY ReliableFacts DEF OwnerInv, BridgeBase, RowTypes, ThreadState
<1>a. /\ {"idle", "connected", "dead", "offline", "fail", "new"} \cap Busy = {}
      /\ {"idle", "connected", "dead", "offline", "fail"} \subseteq ThreadStates
      /\ {"clear", "mis_got", "mis_processing", "read", "D", "CE", "IE", "AB"} = Busy
      /\ Busy \subseteq ThreadStates
      /\ {"IE", "P", "G", "CE", "AB", "D"} \subseteq InProgress \cup Final
  BY DEF ThreadStates, Busy, Writing, InProgress, Final
<1>b. up /\ \A s \in Subs : Cared(s)
  BY <1>0 DEF Handshake, ThreadStep, Connected, SupportedProblemsUpdate, WrongAcknowledgedGot,
              WrongAcknowledgedProcessing, GradingBeginClear, GradingEndRead, GradingEndSave,
              WriteVerdict, Disconnect, DisconnectOffline, DisconnectFail, JudgeStep, Acknowledged,
              WrongAcknowledged, GradingBegin, TestCase, Report, AtStage, Ready
<1>c. OnlyThread(c) /\ GoneStay /\ UNCHANGED web
  BY <1>0, HandlerMoves
<1>d. ASSUME NEW at \in ThreadStates, NEW s \in Subs \cup {NoSub}, NEW seen \in Nat,
             GoTo(c, at, s, seen), at \in Busy => s \in Subs
      PROVE  thread'[c].at = at /\ thread'[c].sub = s
  BY <1>0, <1>d, GoToFacts
<1>e. ASSUME Rest(c) PROVE thread'[c].at = "idle"
  BY <1>a, <1>d, <1>e DEF Rest
<1>1. CASE Handshake(c)
  <2>1. Others(NoSub) /\ thread[c].at = "new" /\ UNCHANGED status /\ thread[c].sub = NoSub
    BY <1>0, <1>1, <1>a, HandshakeMoves DEF Handshake, dbVars
  <2>2. thread'[c].at = "connected"
    BY <1>1, <1>a, <1>d DEF Handshake
  <2> QED
    BY <1>0, <1>b, <1>c, <2>1, <2>2, OthersStayCared
<1>2. CASE Connected(c)
  <2>1. Others(NoSub) /\ thread[c].at = "connected" /\ UNCHANGED status /\ thread[c].sub = NoSub
    BY <1>0, <1>2, <1>a, QuietMoves DEF Connected
  <2>2. thread'[c].at = "idle"
    BY <1>2, <1>e DEF Connected
  <2> QED
    BY <1>0, <1>b, <1>c, <2>1, <2>2, OthersStayCared
<1>3. CASE GradingBeginClear(c)
  <2>1. /\ Others(NoSub) /\ thread[c].at = "clear" /\ UNCHANGED <<status, submission_map, node_map>>
        /\ Rest(c)
    BY <1>0, <1>3, QuietMoves DEF GradingBeginClear
  <2>2. ASSUME NEW s \in Subs PROVE Cared(s)'
    <3>1. CASE s = thread[c].sub
      <4>1. submission_map'[s] # NoConn
        BY <1>0, <2>1, <3>1, ReliableFacts DEF BridgeBase
      <4> QED
        BY <4>1 DEF Cared, Judged
    <3>2. CASE s # thread[c].sub
      BY <1>0, <1>b, <1>c, <2>1, <3>2, OthersStayCared
    <3> QED
      BY <3>1, <3>2
  <2> QED
    BY <1>e, <2>1, <2>2
<1>4. CASE GradingEndRead(c)
  <2>1. /\ Others(NoSub) /\ thread[c].at = "read" /\ UNCHANGED status /\ thread[c].sub \in Subs
        /\ IF HasRow(thread[c].sub) THEN GoTo(c, "D", thread[c].sub, cases[thread[c].sub]) ELSE Rest(c)
    BY <1>0, <1>4, <1>a, QuietMoves DEF GradingEndRead, dbVars
  <2>2. HasRow(thread[c].sub) => thread'[c].at = "D" /\ thread'[c].sub = thread[c].sub
    BY <1>0, <1>a, <1>d, <2>1
  <2>3. ASSUME NEW s \in Subs PROVE Cared(s)'
    <3>1. CASE s = thread[c].sub /\ HasRow(s)
      BY <2>2, <3>1 DEF Cared, Judged, WithThread
    <3>2. CASE s = thread[c].sub /\ ~HasRow(s)
      BY <2>1, <3>2 DEF Cared, HasRow
    <3>3. CASE s # thread[c].sub
      BY <1>0, <1>b, <1>c, <2>1, <3>3, OthersStayCared
    <3> QED
      BY <3>1, <3>2, <3>3
  <2> QED
    BY <1>e, <2>1, <2>2, <2>3
<1>5. CASE GradingEndSave(c) \/ WriteVerdict(c)
  <2>1. /\ Others(NoSub) /\ thread[c].at \in {"D", "CE", "IE", "AB"} /\ thread[c].sub \in Subs /\ Rest(c)
        /\ status' = [status EXCEPT ![thread[c].sub] = "D"] \/ Write(thread[c].sub, thread[c].at)
    BY <1>0, <1>5, <1>a, QuietMoves DEF GradingEndSave, WriteVerdict
  <2>2. /\ \A s \in Subs : s # thread[c].sub => status'[s] = status[s]
        /\ status'[thread[c].sub] \notin {"P", "G", "QU"}
    <3>1. CASE status' = [status EXCEPT ![thread[c].sub] = "D"]
      BY <1>0, <2>1, <3>1
    <3>2. CASE Write(thread[c].sub, thread[c].at)
      <4>1. /\ \A s \in Subs : s # thread[c].sub => status'[s] = status[s]
            /\ status'[thread[c].sub] = thread[c].at \/ ~HasRow(thread[c].sub)
            /\ status'[thread[c].sub] \in {status[thread[c].sub], thread[c].at}
        BY <1>0, <1>a, <2>1, <3>2, WriteFacts
      <4> QED
        BY <2>1, <4>1 DEF HasRow
    <3> QED
      BY <2>1, <3>1, <3>2
  <2>3. ASSUME NEW s \in Subs PROVE Cared(s)'
    <3>1. CASE s = thread[c].sub
      BY <2>2, <3>1 DEF Cared
    <3>2. CASE s # thread[c].sub
      BY <1>0, <1>b, <1>c, <2>1, <2>2, <3>2, OthersStayCared
    <3> QED
      BY <3>1, <3>2
  <2> QED
    BY <1>e, <2>1, <2>3
<1>6. CASE Disconnect(c)
  <2>1. /\ Others(working[c]) /\ UNCHANGED <<status, working>> /\ thread[c].at = "idle"
        /\ thread[c].sub = NoSub
    BY <1>0, <1>6, <1>a, DisconnectMoves DEF Disconnect, dbVars, Ready
  <2>2. thread'[c].at = "offline"
    BY <1>6, <1>a, <1>d DEF Disconnect
  <2>3. ASSUME NEW s \in Subs PROVE Cared(s)'
    <3>1. CASE s = working[c]
      BY <2>1, <2>2, <3>1 DEF Cared, Judged, WithThread
    <3>2. CASE s # working[c]
      BY <1>0, <1>b, <1>c, <2>1, <3>2, OthersStayCared
    <3> QED
      BY <3>1, <3>2
  <2> QED
    BY <2>2, <2>3
<1>7. CASE DisconnectOffline(c)
  <2>1. /\ Others(NoSub) /\ UNCHANGED <<status, working>> /\ thread[c].at = "offline"
        /\ thread[c].sub = NoSub
    BY <1>0, <1>7, <1>a, QuietMoves DEF DisconnectOffline
  <2>2. thread'[c].at = "fail"
    BY <1>7, <1>a, <1>d DEF DisconnectOffline
  <2>3. ASSUME NEW s \in Subs PROVE Cared(s)'
    <3>1. CASE s = working[c]
      BY <2>1, <2>2, <3>1 DEF Cared, Judged, WithThread
    <3>2. CASE s # working[c]
      BY <1>0, <1>b, <1>c, <2>1, <3>2, OthersStayCared
    <3> QED
      BY <3>1, <3>2
  <2> QED
    BY <2>2, <2>3
<1>8. CASE DisconnectFail(c)
  <2>1. /\ Others(NoSub) /\ Write(working[c], "IE") /\ thread[c].at = "fail" /\ thread[c].sub = NoSub
    BY <1>0, <1>8, <1>a, QuietMoves DEF DisconnectFail
  <2>2. thread'[c].at = "dead"
    BY <1>8, <1>a, <1>d DEF DisconnectFail
  <2>3. /\ \A s \in Subs : s # working[c] => status'[s] = status[s]
        /\ \A s \in Subs : s = working[c] => status'[s] = "IE" \/ ~HasRow(s)
        /\ \A s \in Subs : status'[s] \in {status[s], "IE"}
    BY <1>0, <1>a, <2>1, WriteFacts
  <2>4. ASSUME NEW s \in Subs PROVE Cared(s)'
    <3>1. CASE s = working[c]
      BY <2>3, <3>1 DEF Cared, HasRow
    <3>2. CASE s # working[c]
      BY <1>0, <1>b, <1>c, <2>1, <2>3, <3>2, OthersStayCared
    <3> QED
      BY <3>1, <3>2
  <2> QED
    BY <2>2, <2>4
<1>9. ~SupportedProblemsUpdate(c) /\ ~WrongAcknowledgedGot(c) /\ ~WrongAcknowledgedProcessing(c)
  BY <1>0, NoHotReload DEF WrongAcknowledgedGot, WrongAcknowledgedProcessing
<1>10. ASSUME NEW s \in Subs, JudgeStep(c, s) PROVE Goal
  <2>0. s \in at_judge[c] /\ submission_map[s] = c /\ working[c] = s /\ thread[c].at = "idle"
        /\ thread[c].sub = NoSub
    BY <1>0, <1>10, <1>a, ReliableFacts
       DEF JudgeStep, Acknowledged, WrongAcknowledged, GradingBegin, TestCase, Report, AtStage, Ready
  <2>1. ASSUME UNCHANGED listVars, UNCHANGED status \/ \E st \in {"P", "G"} : Write(s, st),
               NEW t \in Subs
        PROVE  Cared(t)'
    <3>1. Others(NoSub) /\ UNCHANGED submission_map
      BY <1>0, <2>1, QuietMoves
    <3>2. CASE t = s
      BY <1>0, <2>0, <3>1, <3>2, ReliableFacts DEF Cared, Judged
    <3>3. CASE t # s
      <4>1. status'[t] = status[t]
        BY <1>0, <1>a, <2>1, <3>3, WriteFacts
      <4> QED
        BY <1>0, <1>b, <1>c, <2>0, <3>1, <4>1, OthersStayCared
    <3> QED
      BY <3>2, <3>3
  <2>2. CASE Acknowledged(c, s) \/ TestCase(c, s)
    <3>1. UNCHANGED <<listVars, thread>> /\ (UNCHANGED status \/ Write(s, "P"))
      BY <2>2 DEF Acknowledged, TestCase
    <3> QED
      BY <1>0, <2>1, <3>1
  <2>3. CASE GradingBegin(c, s)
    <3>1. /\ UNCHANGED listVars /\ Write(s, "G")
          /\ UNCHANGED thread \/ GoTo(c, "clear", s, 0)
      BY <2>3 DEF GradingBegin
    <3>2. thread'[c].at \in {thread[c].at, "clear"}
      BY <1>a, <1>d, <3>1
    <3> QED
      BY <1>0, <2>1, <3>1, <3>2
  <2>4. ASSUME NEW verdict \in Verdicts, Report(c, s, verdict) PROVE Goal
    <3>1. Others(s) /\ GoTo(c, IF verdict = "D" THEN "read" ELSE verdict, s, 0) /\ UNCHANGED status
      BY <1>0, <2>4, ReportMoves DEF Report, dbVars
    <3>2. (IF verdict = "D" THEN "read" ELSE verdict) \in {"read", "CE", "IE", "AB"}
      BY JudgeBridgeAssumption DEF JudgeBridgeAssumption
    <3>3. thread'[c].at \in {"read", "CE", "IE", "AB"} /\ thread'[c].sub = s
      BY <1>a, <1>d, <3>1, <3>2
    <3>4. ASSUME NEW t \in Subs PROVE Cared(t)'
      <4>1. CASE t = s
        BY <3>3, <4>1 DEF Cared, Judged, WithThread
      <4>2. CASE t # s
        BY <1>0, <1>b, <1>c, <2>0, <3>1, <4>2, OthersStayCared
      <4> QED
        BY <4>1, <4>2
    <3> QED
      BY <3>3, <3>4
  <2>5. ASSUME NEW got \in Subs PROVE ~WrongAcknowledged(c, s, got)
    BY <2>0 DEF WrongAcknowledged
  <2> QED
    BY <1>10, <2>2, <2>3, <2>4, <2>5 DEF JudgeStep
<1> QED
  BY <1>1, <1>2, <1>3, <1>4, <1>5, <1>6, <1>7, <1>8, <1>9, <1>10 DEF ThreadStep

\* Every step of the web side leaves what is in progress looked after.
LEMMA WebCares ==
  ASSUME Reliable, Faults \cap {"misack", "noabort"} = {}, OwnerInv, up, up',
         \/ \E w \in Webs : WebProcessStep(w)
         \/ \E w \in Webs, s \in Subs :
              \/ Submit(w, s) \/ \E kind \in {"rejudge", "batch"} : Rejudge(w, s, kind)
              \/ AskAbort(w, s)
  PROVE  \A s \in Subs : Cared(s)'
<1>0. /\ BridgeBase /\ ReliableInv /\ WebTypeOK /\ thread \in [Conns -> ThreadState]
      /\ status \in [Subs -> Statuses] /\ NoSub \notin Subs /\ \A s \in Subs : Cared(s)
      /\ web \in [Webs -> WebRequest]
  BY ReliableFacts DEF OwnerInv, BridgeBase, RowTypes, WebTypeOK
<1>a. {"IE", "AB", "QU"} \subseteq InProgress \cup Final
  BY DEF InProgress, Final
<1>b. ASSUME NEW w \in Webs, NEW r, web' = [web EXCEPT ![w] = r], NEW s \in Subs, WithWeb(s),
             web[w].at = "idle" \/ web[w].sub # s \/ (r.at # "idle" /\ r.sub = s)
      PROVE  WithWeb(s)'
  <2>1. PICK v \in Webs : web[v].at # "idle" /\ web[v].sub = s
    BY <1>b DEF WithWeb
  <2>2. CASE v = w
    BY <1>0, <1>b, <2>1, <2>2 DEF WithWeb
  <2>3. CASE v # w
    BY <1>0, <1>b, <2>1, <2>3 DEF WithWeb
  <2> QED
    BY <2>2, <2>3
<1>c. ASSUME UNCHANGED <<thread, working>>, NEW s, WithThread(s) PROVE WithThread(s)'
  BY <1>c DEF WithThread
<1>d. ASSUME UNCHANGED <<listVars, thread, web>>, NEW s \in Subs, status'[s] = status[s] PROVE Cared(s)'
  BY <1>0, <1>c, <1>d, StaysCared DEF WithWeb, listVars
<1>e. ASSUME UNCHANGED <<listVars, thread>>, NEW s \in Subs, status'[s] = status[s],
             WithWeb(s) => WithWeb(s)'
      PROVE Cared(s)'
  BY <1>0, <1>c, <1>e, StaysCared DEF listVars
<1>1. ASSUME NEW w \in Webs, NEW s \in Subs, Submit(w, s) PROVE \A t \in Subs : Cared(t)'
  <2>1. PICK j \in Wanted :
          web' = [web EXCEPT ![w] = [at |-> "update", sub |-> s, judge_id |-> j,
                                     priority |-> IF s \in InContest THEN 0 ELSE 1]]
    BY <1>1 DEF Submit
  <2>2. /\ UNCHANGED <<listVars, thread>> /\ status' = [status EXCEPT ![s] = "QU"]
        /\ web[w].at = "idle"
    BY <1>1 DEF Submit
  <2>3. WithWeb(s)' /\ status'[s] = "QU"
    BY <1>0, <2>1, <2>2 DEF WithWeb
  <2> SUFFICES ASSUME NEW t \in Subs PROVE Cared(t)'
    OBVIOUS
  <2>4. CASE t = s
    BY <2>3, <2>4 DEF Cared
  <2>5. CASE t # s
    <3>1. WithWeb(t) => WithWeb(t)'
      BY <1>b, <2>1, <2>2
    <3> QED
      BY <1>0, <1>e, <2>2, <2>5, <3>1
  <2> QED
    BY <2>4, <2>5
<1>2. ASSUME NEW w \in Webs, NEW s \in Subs, NEW kind, Rejudge(w, s, kind) PROVE \A t \in Subs : Cared(t)'
  <2>1. /\ web' = [web EXCEPT ![w] = [at |-> "update", sub |-> s, judge_id |-> AnyJudge,
                                      priority |-> IF kind = "batch" THEN 3 ELSE 2]]
        /\ UNCHANGED <<listVars, thread, status>> /\ web[w].at = "idle"
    BY <1>2 DEF Rejudge, dbVars
  <2> SUFFICES ASSUME NEW t \in Subs PROVE Cared(t)'
    OBVIOUS
  <2>2. WithWeb(t) => WithWeb(t)'
    BY <1>b, <2>1
  <2> QED
    BY <1>e, <2>1, <2>2
<1>3. ASSUME NEW w \in Webs, NEW s \in Subs, AskAbort(w, s) PROVE \A t \in Subs : Cared(t)'
  <2>1. /\ Others(s) /\ UNCHANGED <<thread, status>> /\ UNCHANGED <<working>>
        /\ \A t \in Subs : submission_map'[t] = submission_map[t]
    BY <1>0, <1>3, AskAbortMoves DEF AskAbort, dbVars, Abort, listVars
  <2> SUFFICES ASSUME NEW t \in Subs PROVE Cared(t)'
    OBVIOUS
  <2>2. CASE UNCHANGED <<listVars, web>>
    BY <1>d, <2>1, <2>2
  <2>3. CASE /\ web[w].at = "idle"
             /\ web' = [web EXCEPT ![w] = [at |-> "aborted", sub |-> s,
                                           judge_id |-> AnyJudge, priority |-> 0]]
    <3>1. WithWeb(t) => WithWeb(t)'
      BY <1>b, <2>3
    <3>2. WithThread(t) => WithThread(t)'
      BY <1>c, <2>1
    <3>3. CASE t = s
      <4>1. WithWeb(s)'
        BY <1>0, <2>3 DEF WithWeb
      <4>2. Judged(s) => Judged(s)'
        BY <2>1, <3>2, <3>3 DEF Judged
      <4> QED
        BY <1>0, <2>1, <3>3, <4>1, <4>2 DEF Cared
    <3>4. CASE t # s
      BY <1>0, <2>1, <3>1, <3>2, <3>4, StaysCared DEF Others
    <3> QED
      BY <3>3, <3>4
  <2> QED
    BY <1>3, <2>2, <2>3 DEF AskAbort
<1>4. ASSUME NEW w \in Webs, WebProcessStep(w) PROVE \A t \in Subs : Cared(t)'
  <2>0. web[w].sub \in Subs /\ web[w].at # "idle" /\ NoRequest.at = "idle"
    BY <1>0, <1>4 DEF WebTypeOK, WebProcessStep, UpdateRow, ClearRow, Request, RequestFails, MarkFailed,
                      MarkAborted, NoRequest
  <2>s. PICK s \in Subs : s = web[w].sub
    BY <2>0
  <2>a. ASSUME NEW at, Await(w, at), at # "idle", NEW t \in Subs, WithWeb(t) PROVE WithWeb(t)'
    <3>1. web' = [web EXCEPT ![w] = [web[w] EXCEPT !.at = at]]
      BY <2>a DEF Await
    <3>2. web[w] \in WebRequest
      BY <1>0
    <3>3. [web[w] EXCEPT !.at = at].at = at /\ [web[w] EXCEPT !.at = at].sub = web[w].sub
      BY <3>2 DEF WebRequest
    <3> QED
      BY <1>b, <2>a, <3>1, <3>3
  <2>b. ASSUME Return(w), NEW t \in Subs, t # s, WithWeb(t) PROVE WithWeb(t)'
    BY <1>b, <2>b, <2>s DEF Return
  <2> SUFFICES ASSUME NEW t \in Subs PROVE Cared(t)'
    OBVIOUS
  <2>1. CASE UpdateRow(w)
    <3>1. UNCHANGED <<listVars, thread>> /\ web[w].at = "update"
      BY <2>1 DEF UpdateRow
    <3>2. CASE Write(s, "QU") /\ Await(w, "clear")
      <4>1. WithWeb(t) => WithWeb(t)'
        BY <2>a, <3>2
      <4>2. WithWeb(s)'
        BY <2>0, <2>a, <2>s, <3>2 DEF WithWeb
      <4>3. CASE t = s
        <5>1. status'[s] = "QU" \/ ~HasRow(s)
          BY <1>0, <1>a, <2>0, <3>2, WriteFacts
        <5>2. status'[s] \in {status[s], "QU"}
          BY <1>0, <1>a, <2>0, <3>2, WriteFacts
        <5> QED
          BY <4>2, <4>3, <5>1, <5>2 DEF Cared, HasRow
      <4>4. CASE t # s
        <5>1. status'[t] = status[t]
          BY <1>0, <1>a, <3>2, <4>4, WriteFacts
        <5> QED
          BY <1>e, <3>1, <4>1, <5>1
      <4> QED
        BY <4>3, <4>4
    <3>3. CASE (~HasRow(s) \/ status[s] \in {"P", "G"}) /\ Return(w) /\ UNCHANGED status
      <4>1. CASE t = s
        <5>1. Judged(t) => Judged(t)'
          BY <1>c, <3>1 DEF Judged, listVars
        <5> QED
          BY <1>0, <3>3, <4>1, <5>1 DEF Cared, HasRow
      <4>2. CASE t # s
        BY <1>e, <2>b, <3>1, <3>3, <4>2
      <4> QED
        BY <4>1, <4>2
    <3> QED
      BY <2>1, <2>s, <3>2, <3>3 DEF UpdateRow
  <2>2. CASE ClearRow(w)
    BY <1>e, <2>2, <2>a DEF ClearRow
  <2>3. CASE Request(w)
    <3>1. /\ Others(s) /\ UNCHANGED <<thread, status>> /\ (Return(w) \/ Await(w, "failed"))
          /\ s \in node_map' \/ submission_map'[s] # NoConn
          /\ GoneStay
      BY <1>0, <2>3, <2>s, RequestMoves DEF Request, dbVars
    <3>2. WithThread(t) => WithThread(t)'
      <4>1. \A c \in Conns : thread[c].at \in {"offline", "fail"} => working'[c] = working[c]
        BY <1>0, <3>1 DEF BridgeBase, GoneStay
      <4> QED
        BY <3>1, <4>1 DEF WithThread
    <3>3. CASE t = s
      <4>1. submission_map[s] # NoConn => submission_map'[s] # NoConn
        BY <2>3, <2>s DEF Request, Judge
      <4>2. Judged(s) => Judged(s)'
        BY <3>2, <3>3, <4>1 DEF Judged
      <4>3. s \in node_map' \/ Judged(s)'
        BY <3>1 DEF Judged
      <4> QED
        BY <1>0, <2>0, <3>1, <3>3, <4>2, <4>3 DEF Cared
    <3>4. CASE t # s
      <4>1. WithWeb(t) => WithWeb(t)'
        BY <2>a, <2>b, <3>1, <3>4
      <4> QED
        BY <1>0, <3>1, <3>2, <3>4, <4>1, StaysCared DEF Others
    <3> QED
      BY <3>3, <3>4
  <2>4. CASE MarkFailed(w) \/ MarkAborted(w)
    <3>1. PICK st \in {"IE", "AB"} : Write(s, st)
      BY <2>4, <2>s DEF MarkFailed, MarkAborted
    <3>2. UNCHANGED <<listVars, thread>> /\ Return(w)
      BY <2>4 DEF MarkFailed, MarkAborted
    <3>3. CASE t = s
      <4>1. (status'[s] = st \/ ~HasRow(s)) /\ status'[s] \in {status[s], st}
        BY <1>0, <1>a, <2>0, <3>1, WriteFacts
      <4> QED
        BY <3>3, <4>1 DEF Cared, HasRow
    <3>4. CASE t # s
      <4>1. status'[t] = status[t]
        BY <1>0, <1>a, <3>1, <3>4, WriteFacts
      <4> QED
        BY <1>e, <2>b, <3>2, <3>4, <4>1
    <3> QED
      BY <3>3, <3>4
  <2>5. CASE RequestFails(w)
    BY <2>5 DEF RequestFails
  <2> QED
    BY <1>4, <2>1, <2>2, <2>3, <2>4, <2>5 DEF WebProcessStep
<1> QED
  BY <1>1, <1>2, <1>3, <1>4

\* Every step leaves what is in progress looked after.
LEMMA OwnerStep ==
  ASSUME Reliable, Faults \cap {"misack", "noabort"} = {}
  PROVE  OwnerInv /\ [BridgeNext]_vars => OwnerInv'
<1> SUFFICES ASSUME OwnerInv, [BridgeNext]_vars PROVE OwnerInv'
  OBVIOUS
<1>0. BridgeBase /\ ReliableInv /\ BridgeBase'
  BY BaseStep DEF OwnerInv, BridgeBase
<1>1. CASE Crash
  BY <1>0, <1>1, CrashMoves DEF OwnerInv
<1>2. ASSUME NEW c \in Conns, Handshake(c) \/ ThreadStep(c) \/ \E s \in Subs : JudgeStep(c, s)
      PROVE  OwnerInv'
  <2>1. OnlyThread(c)
    BY <1>0, <1>2, HandlerMoves
  <2>2. (\A s \in Subs : Cared(s)') /\ thread'[c].at \notin {"mis_got", "mis_processing"}
    BY <1>2, HandlerCares
  <2> QED
    BY <1>0, <2>1, <2>2 DEF OwnerInv, OnlyThread
<1>3. ASSUME ~Crash, ~\E c \in Conns : Handshake(c) \/ ThreadStep(c) \/ \E s \in Subs : JudgeStep(c, s)
      PROVE  OwnerInv'
  <2>1. UNCHANGED thread
    BY <1>0, <1>3, RestMoves
  <2>2. ASSUME up', ~Start PROVE up
    <3>1. UNCHANGED up
      BY <1>3, <2>2 DEF BridgeNext, SupportedProblems, HangUp, PingFails, ForceDisconnect, WebProcessStep,
         UpdateRow, ClearRow, Request, RequestFails, MarkFailed, MarkAborted, Submit, Rejudge, AskAbort,
         DeleteRow, vars
    <3> QED
      BY <2>2, <3>1
  <2>3. ASSUME up', NEW s \in Subs PROVE Cared(s)'
    <3>1. CASE Start
      <4>1. status'[s] \notin InProgress
        BY <3>1 DEF Start, InProgress
      <4> QED
        BY <4>1 DEF Cared, InProgress
    <3>2. CASE /\ ~Start
               /\ \/ \E w \in Webs : WebProcessStep(w)
                  \/ \E w \in Webs, t \in Subs :
                       \/ Submit(w, t) \/ \E kind \in {"rejudge", "batch"} : Rejudge(w, t, kind)
                       \/ AskAbort(w, t)
      BY <2>2, <2>3, <3>2, WebCares
    <3>3. CASE UNCHANGED <<listVars, status, thread, web>>
      <4>1. UNCHANGED <<submission_map, node_map, working>>
        BY <3>3 DEF listVars
      <4>2. Cared(s)
        <5>1. ~Start \/ Start
          OBVIOUS
        <5>2. CASE ~Start
          BY <2>2, <2>3, <5>2 DEF OwnerInv
        <5>3. CASE Start
          <6>1. status'[s] \notin InProgress
            BY <5>3 DEF Start, InProgress
          <6> QED
            BY <3>3, <6>1 DEF Cared, InProgress
        <5> QED
          BY <5>2, <5>3
      <4> QED
        BY <3>3, <4>1, <4>2, StaysCared DEF WithThread, WithWeb
    <3>4. ASSUME NEW c \in Conns PROVE ~SupportedProblems(c)
      BY <1>0, NoHotReload
    <3> QED
      BY <1>3, <3>1, <3>2, <3>3, <3>4, NoVanish
         DEF BridgeNext, HangUp, PingFails, ForceDisconnect, vars, dbVars
  <2> QED
    BY <1>0, <2>1, <2>3 DEF OwnerInv
<1> QED
  BY <1>1, <1>2, <1>3

\* In a bridge whose dispatches succeed, whose judges acknowledge what they
\* were sent and whose answers to an abort arrive, a row that says QU, P or G
\* is looked after: rejudges, aborts, hang-ups, lost answers to a submission
\* and crashes leave none behind.
THEOREM InProgressIsOwned ==
  ASSUME Reliable, Faults \cap {"misack", "noabort"} = {}
  PROVE  BridgeSpec => []InProgressHasOwner
<1>1. BridgeInit => OwnerInv
  <2> SUFFICES ASSUME BridgeInit PROVE OwnerInv
    OBVIOUS
  <2>1. /\ \A c \in Conns : thread[c].at = "new"
        /\ \A s \in Subs : status[s] = "new"
    BY DEF BridgeInit, Resting
  <2> QED
    BY <2>1, BaseStarts DEF OwnerInv, Cared
<1>2. OwnerInv => InProgressHasOwner
  <2> SUFFICES ASSUME OwnerInv, up, NEW s \in Subs
               PROVE  /\ status[s] \in {"P", "G"} => WithJudge(s) \/ WithThread(s)
                      /\ status[s] = "QU" => s \in node_map \/ WithJudge(s) \/ WithThread(s) \/ WithWeb(s)
    BY DEF InProgressHasOwner
  <2>1. submission_map[s] # NoConn => WithJudge(s)
    BY ReliableFacts DEF OwnerInv, BridgeBase, WithJudge
  <2> QED
    BY <2>1 DEF OwnerInv, Cared, Judged
<1>3. OwnerInv /\ [BridgeNext]_vars => OwnerInv'
  BY OwnerStep
<1> QED
  BY <1>1, <1>2, <1>3, PTL DEF BridgeSpec
-----------------------------------------------------------------------------
(* The test cases of a submission are those of one run *)

\* A judge counts cases only of the submission it holds, from the moment the
\* handler has deleted those of an earlier run.
RunInv ==
  /\ BridgeBase
  /\ \A c \in Conns, s \in Subs : progress[c][s] # 0 => submission_map[s] = c
  /\ \A s \in Subs : cases[s] <= NumCases /\ (~HasRow(s) => cases[s] = 0)
  /\ \A c \in Conns, s \in Subs :
       progress[c][s] >= 2 => \/ thread[c].at = "clear" /\ thread[c].sub = s
                              \/ cases[s] <= progress[c][s] - 2

\* What a step does to a row: nothing, a status but D, or the verdict of a
\* grading-end.
LEMMA StatusMoves ==
  ASSUME Reliable, BridgeBase, [BridgeNext]_vars, NEW s \in Subs
  PROVE  \/ status'[s] = status[s] /\ counted'[s] = counted[s]
         \/ status'[s] \in (InProgress \cup Final) \ {"D"}
         \/ status'[s] = "D" /\ \E c \in Conns : GradingEndSave(c) /\ thread[c].sub = s
<1> DEFINE Goal == \/ status'[s] = status[s] /\ counted'[s] = counted[s]
                   \/ status'[s] \in (InProgress \cup Final) \ {"D"}
                   \/ status'[s] = "D" /\ \E c \in Conns : GradingEndSave(c) /\ thread[c].sub = s
<1>0. /\ status \in [Subs -> Statuses] /\ counted \in [Subs -> Nat]
      /\ web \in [Webs -> WebRequest] /\ thread \in [Conns -> ThreadState]
  BY DEF BridgeBase, RowTypes, WebTypeOK
<1>a. {"IE", "P", "G", "QU", "CE", "AB"} = (InProgress \cup Final) \ {"D"}
  BY DEF InProgress, Final
<1>1. ASSUME NEW t, NEW st \in {"IE", "P", "G", "QU", "CE", "AB"}, Write(t, st), UNCHANGED counted
      PROVE  Goal
  <2>1. status'[s] \in {status[s], st}
    BY <1>0, <1>a, <1>1, WriteFacts
  <2> QED
    BY <1>1, <1>a, <2>1
<1>2. ASSUME UNCHANGED <<status, counted>> PROVE Goal
  BY <1>2
<1>3. ASSUME NEW c \in Conns, ThreadStep(c) PROVE Goal
  <2>1. CASE GradingEndSave(c)
    <3>1. CASE thread[c].sub = s
      BY <1>0, <2>1, <3>1 DEF GradingEndSave
    <3>2. CASE thread[c].sub # s
      BY <1>0, <2>1, <3>2 DEF GradingEndSave
    <3> QED
      BY <3>1, <3>2
  <2>2. CASE WrongAcknowledgedGot(c) \/ WrongAcknowledgedProcessing(c) \/ DisconnectFail(c)
    BY <1>1, <1>2, <2>2 DEF WrongAcknowledgedGot, WrongAcknowledgedProcessing, DisconnectFail
  <2>3. CASE WriteVerdict(c)
    BY <1>1, <2>3 DEF WriteVerdict
  <2> QED
    BY <1>2, <1>3, <2>1, <2>2, <2>3
       DEF ThreadStep, Connected, SupportedProblemsUpdate, GradingBeginClear, GradingEndRead, Disconnect,
           DisconnectOffline, dbVars
<1>4. ASSUME NEW c \in Conns, NEW t \in Subs, JudgeStep(c, t) PROVE Goal
  BY <1>1, <1>2, <1>4 DEF JudgeStep, Acknowledged, WrongAcknowledged, GradingBegin, TestCase, Report, dbVars
<1>5. ASSUME NEW w \in Webs, WebProcessStep(w) PROVE Goal
  <2>1. CASE UpdateRow(w)
    <3>1. CASE HasRow(web[w].sub) /\ Write(web[w].sub, "QU") /\ counted' = [counted EXCEPT ![web[w].sub] = 0]
      <4>1. web[w].sub = s => status'[s] = "QU"
        BY <1>0, <1>a, <3>1, WriteFacts
      <4>2. web[w].sub # s => status'[s] = status[s] /\ counted'[s] = counted[s]
        BY <1>0, <1>a, <3>1, WriteFacts
      <4> QED
        BY <1>a, <4>1, <4>2
    <3> QED
      BY <1>2, <2>1, <3>1 DEF UpdateRow
  <2> QED
    BY <1>1, <1>2, <1>5, <2>1 DEF WebProcessStep, ClearRow, Request, RequestFails, MarkFailed, MarkAborted, dbVars
<1>6. ASSUME NEW w \in Webs, NEW t \in Subs, Submit(w, t) PROVE Goal
  BY <1>0, <1>6, <1>a DEF Submit
<1>7. CASE Start
  BY <1>0, <1>7, <1>a DEF Start
<1> QED
  BY <1>2, <1>3, <1>4, <1>5, <1>6, <1>7, NoVanish
     DEF BridgeNext, Handshake, SupportedProblems, HangUp, PingFails, ForceDisconnect, Rejudge, AskAbort,
         Crash, vars, dbVars

\* A row that is there stays, as nothing deletes it.
LEMMA RowsStay ==
  ASSUME Reliable, BridgeBase, [BridgeNext]_vars, NEW s \in Subs, HasRow(s)
  PROVE  HasRow(s)'
<1>1. {"new", "gone"} \cap (InProgress \cup Final) = {}
  BY DEF InProgress, Final
<1> QED
  BY <1>1, StatusMoves DEF HasRow

\* A step that gives no one a case, and takes no submission from a judge that
\* goes on with it, keeps the invariant.
LEMMA RunStays ==
  ASSUME RunInv, BridgeBase', \A s \in Subs : HasRow(s) => HasRow(s)',
         \A s \in Subs : cases'[s] \in {0, cases[s]},
         \A c \in Conns, s \in Subs :
           /\ progress'[c][s] \in {0, 1, progress[c][s]}
           /\ progress'[c][s] # 0 => submission_map'[s] = c,
         \A c \in Conns :
           \/ thread'[c] = thread[c] \/ thread[c].at # "clear"
           \/ cases'[thread[c].sub] = 0
           \/ \A s \in Subs : progress'[c][s] = 0
  PROVE  RunInv'
<1>1. /\ progress \in [Conns -> [Subs -> 0 .. (2 + NumCases)]] /\ cases \in [Subs -> Nat] /\ NumCases \in Nat
      /\ progress' \in [Conns -> [Subs -> 0 .. (2 + NumCases)]] /\ cases' \in [Subs -> Nat]
  BY JudgeBridgeAssumption DEF JudgeBridgeAssumption, RunInv, BridgeBase, RowTypes
<1>2. ASSUME NEW s \in Subs PROVE cases'[s] <= NumCases /\ (~HasRow(s)' => cases'[s] = 0)
  <2>1. cases[s] <= NumCases /\ (~HasRow(s) => cases[s] = 0) /\ cases[s] \in Nat /\ cases'[s] \in {0, cases[s]}
    BY <1>1 DEF RunInv
  <2> QED
    BY <1>1, <2>1
<1>3. ASSUME NEW c \in Conns, NEW s \in Subs, progress'[c][s] >= 2
      PROVE  (thread'[c].at = "clear" /\ thread'[c].sub = s) \/ cases'[s] <= progress'[c][s] - 2
  <2>1. progress'[c][s] = progress[c][s] /\ progress[c][s] \in Nat /\ cases[s] \in Nat /\ cases'[s] \in {0, cases[s]}
    BY <1>1, <1>3
  <2>2. (thread[c].at = "clear" /\ thread[c].sub = s) \/ cases[s] <= progress[c][s] - 2
    BY <1>3, <2>1 DEF RunInv
  <2>3. CASE cases[s] <= progress[c][s] - 2
    BY <1>3, <2>1, <2>3
  <2>4. CASE thread[c].at = "clear" /\ thread[c].sub = s
    <3>1. thread'[c] = thread[c] \/ cases'[s] = 0
      BY <1>3, <2>4
    <3> QED
      BY <1>3, <2>1, <2>4, <3>1
  <2> QED
    BY <2>2, <2>3, <2>4
<1> QED
  BY <1>2, <1>3 DEF RunInv

\* A step of a handler keeps it.
LEMMA HandlerRuns ==
  ASSUME Reliable, RunInv, BridgeBase', [BridgeNext]_vars, NEW c \in Conns,
         \/ Handshake(c) \/ ThreadStep(c) \/ \E s \in Subs : JudgeStep(c, s)
  PROVE  RunInv'
<1>0. /\ BridgeBase /\ ReliableInv /\ progress \in [Conns -> [Subs -> 0 .. (2 + NumCases)]]
      /\ cases \in [Subs -> Nat] /\ NumCases \in Nat /\ thread \in [Conns -> ThreadState]
      /\ \A d \in Conns, s \in Subs : progress[d][s] # 0 => submission_map[s] = d
      /\ thread[c].at = "clear" => thread[c].sub \in Subs
      /\ NoConn \notin Conns
  BY JudgeBridgeAssumption, ReliableFacts
     DEF JudgeBridgeAssumption, RunInv, BridgeBase, RowTypes, ThreadState, Busy
<1>1. \A s \in Subs : HasRow(s) => HasRow(s)'
  BY <1>0, RowsStay
<1>2. OnlyThread(c)
  BY <1>0, HandlerMoves
<1>3. \A d \in Conns \ {c} : \A s \in Subs : submission_map[s] = d => submission_map'[s] = d
  BY <1>0, OthersKeep
<1>4. ASSUME UNCHANGED progress, \A s \in Subs : submission_map[s] = c => submission_map'[s] = c,
             \A s \in Subs : cases'[s] \in {0, cases[s]},
             thread[c].at # "clear" \/ thread'[c] = thread[c] \/ cases'[thread[c].sub] = 0
      PROVE  RunInv'
  <2>1. \A d \in Conns, s \in Subs : /\ progress'[d][s] \in {0, 1, progress[d][s]}
                                     /\ progress'[d][s] # 0 => submission_map'[s] = d
    BY <1>0, <1>3, <1>4
  <2> QED
    BY <1>1, <1>2, <1>4, <2>1, RunStays DEF OnlyThread
<1>5. CASE Handshake(c)
  <2>1. UNCHANGED <<cases, progress>> /\ thread[c].at = "new"
    BY <1>5 DEF Handshake, dbVars, judgeVars
  <2>2. \A s \in Subs : submission_map[s] = c => submission_map'[s] = c
    BY <1>0, <1>5, HandshakeMoves, ReliableFacts DEF Others
  <2> QED
    BY <1>4, <2>1, <2>2
<1>6. CASE ThreadStep(c)
  <2>1. CASE Disconnect(c)
    <3>1. /\ UNCHANGED cases /\ progress' = [progress EXCEPT ![c] = [s \in Subs |-> 0]]
          /\ thread[c].at = "idle"
      BY <2>1 DEF Disconnect, dbVars, Ready
    <3>2. \A d \in Conns, s \in Subs : /\ progress'[d][s] \in {0, 1, progress[d][s]}
                                       /\ progress'[d][s] # 0 => submission_map'[s] = d
      BY <1>0, <1>3, <3>1
    <3> QED
      BY <1>1, <1>2, <3>1, <3>2, RunStays DEF OnlyThread
  <2>2. CASE GradingBeginClear(c)
    <3>1. /\ UNCHANGED <<submission_map, progress>> /\ thread[c].at = "clear"
          /\ cases' = [cases EXCEPT ![thread[c].sub] = 0]
      BY <2>2 DEF GradingBeginClear, listVars, judgeVars
    <3> QED
      BY <1>0, <1>4, <3>1
  <2>3. ~SupportedProblemsUpdate(c)
    BY <1>0, NoHotReload
  <2>4. CASE ~Disconnect(c) /\ ~GradingBeginClear(c)
    <3>1. UNCHANGED <<submission_map, progress, cases>> /\ thread[c].at # "clear"
      BY <1>6, <2>3, <2>4
         DEF ThreadStep, Connected, WrongAcknowledgedGot, WrongAcknowledgedProcessing, GradingEndRead,
             GradingEndSave, WriteVerdict, DisconnectOffline, DisconnectFail, listVars, judgeVars, dbVars
    <3> QED
      BY <1>4, <3>1
  <2> QED
    BY <2>1, <2>2, <2>4
<1>7. ASSUME NEW s \in Subs, JudgeStep(c, s) PROVE RunInv'
  <2>0. /\ s \in at_judge[c] /\ submission_map[s] = c /\ thread[c].at = "idle"
        /\ progress[c][s] \in 0 .. (2 + NumCases)
    BY <1>0, <1>7, ReliableFacts
       DEF JudgeStep, Acknowledged, WrongAcknowledged, GradingBegin, TestCase, Report, AtStage, Ready
  <2>1. ASSUME UNCHANGED listVars, Advance(c, s), progress[c][s] <= 1 + NumCases
        PROVE  /\ progress' \in [Conns -> [Subs -> 0 .. (2 + NumCases)]]
               /\ progress'[c][s] = progress[c][s] + 1
               /\ \A d \in Conns, t \in Subs : d # c \/ t # s => progress'[d][t] = progress[d][t]
               /\ \A d \in Conns, t \in Subs : progress'[d][t] # 0 => submission_map'[t] = d
    <3>1. /\ progress' \in [Conns -> [Subs -> 0 .. (2 + NumCases)]]
          /\ progress'[c][s] = progress[c][s] + 1
          /\ \A d \in Conns, t \in Subs : d # c \/ t # s => progress'[d][t] = progress[d][t]
      BY <1>0, <2>1, AdvanceFacts
    <3>2. UNCHANGED submission_map
      BY <2>1 DEF listVars
    <3> QED
      BY <1>0, <2>0, <3>1, <3>2
  <2>2. CASE Acknowledged(c, s) \/ \E got \in Subs : WrongAcknowledged(c, s, got)
    <3>1. UNCHANGED <<listVars, cases>> /\ Advance(c, s) /\ progress[c][s] = 0
      BY <2>2 DEF Acknowledged, WrongAcknowledged, AtStage
    <3>2. \A d \in Conns, t \in Subs : /\ progress'[d][t] \in {0, 1, progress[d][t]}
                                       /\ progress'[d][t] # 0 => submission_map'[t] = d
      BY <1>0, <2>1, <3>1
    <3> QED
      BY <1>1, <1>2, <2>0, <3>1, <3>2, RunStays DEF OnlyThread
  <2>3. CASE GradingBegin(c, s)
    <3>1. /\ UNCHANGED <<listVars, cases>> /\ Advance(c, s) /\ progress[c][s] = 1
          /\ IF HasRow(s) THEN GoTo(c, "clear", s, 0) ELSE UNCHANGED thread
      BY <2>3 DEF GradingBegin, AtStage
    <3>2. /\ progress'[c][s] = 2
          /\ \A d \in Conns, t \in Subs : d # c \/ t # s => progress'[d][t] = progress[d][t]
          /\ \A d \in Conns, t \in Subs : progress'[d][t] # 0 => submission_map'[t] = d
      BY <1>0, <2>1, <3>1
    <3>3. HasRow(s) => thread'[c].at = "clear" /\ thread'[c].sub = s
      <4>1. "clear" \in ThreadStates /\ s \in Subs \cup {NoSub}
        BY DEF ThreadStates
      <4> QED
        BY <1>0, <3>1, <4>1, GoToFacts
    <3>4. ASSUME NEW d \in Conns, NEW t \in Subs, progress'[d][t] >= 2
          PROVE  (thread'[d].at = "clear" /\ thread'[d].sub = t) \/ cases'[t] <= progress'[d][t] - 2
      <4>1. CASE d = c /\ t = s
        <5>1. CASE HasRow(s)
          BY <3>3, <4>1, <5>1
        <5>2. CASE ~HasRow(s)
          <6>1. cases'[s] = 0
            BY <3>1, <5>2 DEF RunInv
          <6> QED
            BY <3>2, <4>1, <6>1
        <5> QED
          BY <5>1, <5>2
      <4>2. CASE d = c /\ t # s
        <5>1. progress[d][t] >= 2 /\ submission_map[t] = c
          BY <1>0, <3>2, <3>4, <4>2
        <5>2. cases[t] <= progress[d][t] - 2
          BY <2>0, <4>2, <5>1 DEF RunInv
        <5> QED
          BY <3>1, <3>2, <4>2, <5>2
      <4>3. CASE d # c
        BY <1>2, <3>1, <3>2, <3>4, <4>3 DEF RunInv, OnlyThread
      <4> QED
        BY <4>1, <4>2, <4>3
    <3>5. \A t \in Subs : cases'[t] <= NumCases /\ (~HasRow(t)' => cases'[t] = 0)
      BY <1>1, <3>1 DEF RunInv
    <3> QED
      BY <3>2, <3>4, <3>5 DEF RunInv
  <2>4. CASE TestCase(c, s)
    <3>1. PICK k \in 0 .. (NumCases - 1) : AtStage(c, s, 2 + k)
      BY <2>4 DEF TestCase
    <3>2. /\ UNCHANGED <<listVars, thread>> /\ Advance(c, s) /\ progress[c][s] = 2 + k
          /\ cases' = IF HasRow(s) THEN [cases EXCEPT ![s] = @ + 1] ELSE cases
      BY <2>4, <3>1 DEF TestCase, AtStage
    <3>3. /\ progress'[c][s] = 3 + k
          /\ \A d \in Conns, t \in Subs : d # c \/ t # s => progress'[d][t] = progress[d][t]
          /\ \A d \in Conns, t \in Subs : progress'[d][t] # 0 => submission_map'[t] = d
      BY <1>0, <2>1, <3>1, <3>2
    <3>4. cases[s] <= k /\ cases[s] \in Nat
      BY <1>0, <2>0, <3>1, <3>2 DEF RunInv
    <3>5. cases'[s] <= k + 1 /\ (~HasRow(s) => cases'[s] = cases[s]) /\ \A t \in Subs \ {s} : cases'[t] = cases[t]
      BY <1>0, <3>2, <3>4
    <3>6. ASSUME NEW d \in Conns, NEW t \in Subs, progress'[d][t] >= 2
          PROVE  (thread'[d].at = "clear" /\ thread'[d].sub = t) \/ cases'[t] <= progress'[d][t] - 2
      <4>1. CASE d = c /\ t = s
        BY <1>0, <3>3, <3>5, <4>1
      <4>2. CASE t # s
        BY <3>2, <3>3, <3>5, <3>6, <4>2 DEF RunInv
      <4>3. CASE d # c /\ t = s
        BY <1>0, <2>0, <3>3, <3>6, <4>3
      <4> QED
        BY <4>1, <4>2, <4>3
    <3>7. ASSUME NEW t \in Subs PROVE cases'[t] <= NumCases /\ (~HasRow(t)' => cases'[t] = 0)
      <4>1. CASE t # s
        BY <1>1, <3>5, <4>1 DEF RunInv
      <4>2. CASE t = s
        <5>1. cases'[s] <= NumCases
          <6>1. cases'[s] \in Nat
            BY DEF BridgeBase, RowTypes
          <6> QED
            BY <1>0, <3>1, <3>5, <6>1
        <5>2. ~HasRow(s)' => cases'[s] = 0
          BY <1>1, <3>5 DEF RunInv
        <5> QED
          BY <4>2, <5>1, <5>2
      <4> QED
        BY <4>1, <4>2
    <3> QED
      BY <3>3, <3>6, <3>7 DEF RunInv
  <2>5. ASSUME NEW verdict \in Verdicts, Report(c, s, verdict) PROVE RunInv'
    <3>1. /\ UNCHANGED cases /\ progress' = [progress EXCEPT ![c][s] = 0]
          /\ Others(s)
      BY <1>0, <2>5, ReportMoves DEF Report, dbVars
    <3>2. \A d \in Conns, t \in Subs : /\ progress'[d][t] \in {0, 1, progress[d][t]}
                                       /\ progress'[d][t] # 0 => submission_map'[t] = d
      BY <1>0, <2>0, <3>1 DEF Others
    <3> QED
      BY <1>1, <1>2, <2>0, <3>1, <3>2, RunStays DEF OnlyThread
  <2> QED
    BY <1>7, <2>2, <2>3, <2>4, <2>5 DEF JudgeStep
<1> QED
  BY <1>5, <1>6, <1>7

\* Every step keeps it.
LEMMA RunStep == Reliable /\ RunInv /\ [BridgeNext]_vars => RunInv'
<1> SUFFICES ASSUME Reliable, RunInv, [BridgeNext]_vars PROVE RunInv'
  OBVIOUS
<1>0. BridgeBase /\ BridgeBase' /\ cases \in [Subs -> Nat] /\ web \in [Webs -> WebRequest]
  BY BaseStep DEF RunInv, BridgeBase, RowTypes, WebTypeOK
<1>1. \A s \in Subs : HasRow(s) => HasRow(s)'
  BY <1>0, RowsStay
<1>2. CASE Crash
  <2>1. UNCHANGED cases /\ \A c \in Conns, s \in Subs : progress'[c][s] = 0
    BY <1>0, <1>2, CrashMoves DEF dbVars
  <2> QED
    BY <1>0, <1>1, <2>1, RunStays
<1>3. ASSUME NEW c \in Conns, \/ Handshake(c) \/ ThreadStep(c) \/ \E s \in Subs : JudgeStep(c, s)
      PROVE  RunInv'
  BY <1>0, <1>3, HandlerRuns
<1>4. CASE ~Crash /\ ~\E c \in Conns : \/ Handshake(c) \/ ThreadStep(c) \/ \E s \in Subs : JudgeStep(c, s)
  <2>1. /\ UNCHANGED <<thread, progress>>
        /\ \A s \in Subs, c \in Conns : submission_map[s] = c => submission_map'[s] = c
    BY <1>0, <1>4, RestMoves
  <2>2. UNCHANGED cases \/ \E w \in Webs : cases' = [cases EXCEPT ![web[w].sub] = 0]
    BY <1>4, NoVanish
       DEF BridgeNext, SupportedProblems, HangUp, PingFails, ForceDisconnect, WebProcessStep, UpdateRow,
           ClearRow, Request, RequestFails, MarkFailed, MarkAborted, Submit, Rejudge, AskAbort, Start,
           vars, dbVars
  <2>3. \A s \in Subs : cases'[s] \in {0, cases[s]}
    BY <1>0, <2>2
  <2>4. \A c \in Conns, s \in Subs : /\ progress'[c][s] \in {0, 1, progress[c][s]}
                                     /\ progress'[c][s] # 0 => submission_map'[s] = c
    BY <2>1 DEF RunInv
  <2> QED
    BY <1>0, <1>1, <2>1, <2>3, <2>4, RunStays
<1> QED
  BY <1>2, <1>3, <1>4

\* In a bridge whose dispatches succeed, a row never has more test cases than
\* its problem: each run begins by deleting those of the run before, whatever
\* web processes, other judges and crashes do meanwhile.
THEOREM CasesAreOfOneRun == ASSUME Reliable PROVE BridgeSpec => []CasesOfOneRun
<1>1. BridgeInit => RunInv
  <2> SUFFICES ASSUME BridgeInit PROVE RunInv
    OBVIOUS
  <2>1. /\ \A c \in Conns, s \in Subs : progress[c][s] = 0
        /\ \A s \in Subs : cases[s] = 0
        /\ NumCases \in Nat
    BY JudgeBridgeAssumption DEF JudgeBridgeAssumption, BridgeInit
  <2> QED
    BY <2>1, BaseStarts DEF RunInv
<1>2. RunInv => CasesOfOneRun
  BY DEF RunInv, CasesOfOneRun
<1>3. RunInv /\ [BridgeNext]_vars => RunInv'
  BY RunStep
<1> QED
  BY <1>1, <1>2, <1>3, PTL DEF BridgeSpec
-----------------------------------------------------------------------------
(* Without rejudges: a submission is placed once *)

Unplaced(s) == s \notin node_map /\ submission_map[s] = NoConn
Asked(w) == web[w].at \in {"update", "clear", "request"}

\* A submission nobody judges waits in no list, no two processes are on their
\* way with it, and none is when its verdict is being read.
PlaceInv ==
  /\ BridgeBase
  /\ \A s \in Subs : status[s] # "gone"
  /\ \A s \in Subs : status[s] = "new" =>
       /\ Unplaced(s)
       /\ \A c \in Conns : thread[c].at \in Writing => thread[c].sub # s
       /\ \A w \in Webs : web[w].at # "idle" => web[w].sub # s
  /\ \A w, v \in Webs : Asked(w) /\ Asked(v) /\ web[w].sub = web[v].sub => w = v
  /\ \A w \in Webs : Asked(w) => Unplaced(web[w].sub)
  /\ \A c \in Conns : thread[c].at = "read" =>
       /\ Unplaced(thread[c].sub)
       /\ \A w \in Webs : Asked(w) => web[w].sub # thread[c].sub

\* What neither waits nor is judged stays so, unless a request brings it.
LEMMA UnplacedStays ==
  ASSUME Reliable, BridgeBase, [BridgeNext]_vars, NEW t \in Subs, Unplaced(t),
         \A w \in Webs : Request(w) => web[w].sub # t
  PROVE  Unplaced(t)'
<1>0. ReliableInv /\ WebTypeOK /\ NoConn \notin Conns
  BY ReliableFacts DEF BridgeBase
<1>1. ASSUME UNCHANGED listVars PROVE Unplaced(t)'
  BY <1>1 DEF Unplaced, listVars
<1>2. ASSUME NEW s, t # s, Others(s) PROVE Unplaced(t)'
  BY <1>2 DEF Others, Unplaced
<1>3. ASSUME NEW c \in Conns, Handshake(c) PROVE Unplaced(t)'
  BY <1>0, <1>2, <1>3, HandshakeMoves, ReliableFacts
<1>4. ASSUME NEW c \in Conns, ThreadStep(c) PROVE Unplaced(t)'
  <2>1. CASE Disconnect(c)
    <3>1. Others(working[c]) /\ (working[c] = t => submission_map[t] = c)
      BY <1>0, <2>1, DisconnectMoves
    <3> QED
      BY <1>0, <1>2, <3>1 DEF Unplaced
  <2>2. ~SupportedProblemsUpdate(c)
    BY <1>0, NoHotReload
  <2>3. CASE ~Disconnect(c)
    BY <1>1, <1>4, <2>2, <2>3
       DEF ThreadStep, Connected, WrongAcknowledgedGot, WrongAcknowledgedProcessing, GradingBeginClear,
           GradingEndRead, GradingEndSave, WriteVerdict, DisconnectOffline, DisconnectFail
  <2> QED
    BY <2>1, <2>3
<1>5. ASSUME NEW c \in Conns, NEW s \in Subs, JudgeStep(c, s) PROVE Unplaced(t)'
  <2>1. ASSUME NEW verdict \in Verdicts, Report(c, s, verdict) PROVE Unplaced(t)'
    <3>1. Others(s) /\ submission_map[s] = c
      BY <1>0, <2>1, ReportMoves
    <3> QED
      BY <1>0, <1>2, <3>1 DEF Unplaced
  <2> QED
    BY <1>1, <1>5, <2>1 DEF JudgeStep, Acknowledged, WrongAcknowledged, GradingBegin, TestCase
<1>6. ASSUME NEW w \in Webs, WebProcessStep(w) PROVE Unplaced(t)'
  <2>1. CASE Request(w)
    BY <1>0, <1>2, <2>1, RequestMoves
  <2> QED
    BY <1>1, <1>6, <2>1
       DEF WebProcessStep, UpdateRow, ClearRow, RequestFails, MarkFailed, MarkAborted, judgeVars
<1>7. ASSUME NEW w \in Webs, NEW s \in Subs, AskAbort(w, s) PROVE Unplaced(t)'
  <2>1. /\ Others(s) /\ (UNCHANGED listVars \/ s \notin node_map')
        /\ \A u \in Subs : submission_map'[u] = submission_map[u]
    BY <1>0, <1>7, AskAbortMoves
  <2> QED
    BY <1>1, <1>2, <2>1 DEF Unplaced
<1>8. CASE Crash
  BY <1>8, CrashMoves DEF Unplaced
<1>9. ASSUME NEW c \in Conns PROVE ~SupportedProblems(c)
  BY <1>0, NoHotReload
<1> QED
  BY <1>1, <1>3, <1>4, <1>5, <1>6, <1>7, <1>8, <1>9, NoVanish
     DEF BridgeNext, HangUp, PingFails, ForceDisconnect, Submit, Rejudge, Start, vars, judgeVars

\* What a step must leave alone for the placements to stay right.
LEMMA PlacesStay ==
  ASSUME Reliable, PlaceInv, [BridgeNext]_vars,
         \A t \in Subs : Unplaced(t) => \/ Unplaced(t)'
                                        \/ /\ status[t] # "new"
                                           /\ \A w \in Webs : Asked(w)' => web'[w].sub # t
                                           /\ \A c \in Conns : thread[c].at = "read" => thread[c].sub # t,
         \A c \in Conns : \/ thread'[c] = thread[c] \/ thread'[c].at \notin Writing
                          \/ /\ status[thread'[c].sub] # "new" /\ thread'[c].sub \in Subs
                             /\ thread'[c].at = "read" =>
                                  /\ (thread'[c].sub \notin node_map' /\ submission_map'[thread'[c].sub] = NoConn)
                                  /\ \A w \in Webs : Asked(w) => web[w].sub # thread'[c].sub,
         \A w \in Webs : \/ web'[w] = web[w] \/ web'[w].at = "idle"
                         \/ /\ status[web'[w].sub] # "new" /\ web'[w].sub \in Subs
                            /\ Asked(w)' => Asked(w) /\ web'[w].sub = web[w].sub
  PROVE  PlaceInv'
<1>0. /\ BridgeBase /\ BridgeBase'
      /\ \A w \in Webs : web[w].at # "idle" => web[w].sub \in Subs
      /\ \A c \in Conns : thread[c].at \in Writing => thread[c].sub \in Subs
      /\ "read" \in Writing
  BY BaseStep DEF PlaceInv, BridgeBase, WebTypeOK, RowTypes, ThreadState, Busy, Writing
<1>1. \A s \in Subs : status[s] # "new" /\ status[s] # "gone" => status'[s] # "new" /\ status'[s] # "gone"
  BY <1>0, RowsStay DEF HasRow
<1>2. ASSUME NEW s \in Subs PROVE status'[s] # "gone" /\ (status'[s] = "new" => status[s] = "new")
  <2>1. {"gone", "new", "D"} \cap ((InProgress \cup Final) \ {"D"}) = {}
    BY DEF InProgress, Final
  <2> QED
    BY <1>0, <1>1, <2>1, StatusMoves DEF PlaceInv
<1>3. ASSUME NEW w \in Webs PROVE Asked(w)' => Asked(w) /\ web'[w].sub = web[w].sub
  BY DEF Asked
<1>4. ASSUME NEW s \in Subs, status'[s] = "new"
      PROVE  /\ Unplaced(s)'
             /\ \A c \in Conns : thread'[c].at \in Writing => thread'[c].sub # s
             /\ \A w \in Webs : web'[w].at # "idle" => web'[w].sub # s
  <2>1. /\ status[s] = "new" /\ Unplaced(s)
        /\ \A c \in Conns : thread[c].at \in Writing => thread[c].sub # s
        /\ \A w \in Webs : web[w].at # "idle" => web[w].sub # s
    BY <1>2, <1>4 DEF PlaceInv
  <2> QED
    BY <2>1
<1>5. ASSUME NEW w \in Webs, Asked(w)' PROVE (web'[w].sub \notin node_map' /\ submission_map'[web'[w].sub] = NoConn)
  <2>1. web[w].sub \in Subs /\ Unplaced(web[w].sub) /\ web'[w].sub = web[w].sub
    BY <1>0, <1>3, <1>5 DEF PlaceInv, Asked
  <2>2. PICK t \in Subs : t = web[w].sub
    BY <2>1
  <2>3. Unplaced(t)'
    BY <1>5, <2>1, <2>2
  <2> QED
    BY <2>1, <2>2, <2>3 DEF Unplaced
<1>6. ASSUME NEW c \in Conns, thread'[c].at = "read"
      PROVE  /\ (thread'[c].sub \notin node_map' /\ submission_map'[thread'[c].sub] = NoConn)
             /\ \A w \in Webs : Asked(w)' => web'[w].sub # thread'[c].sub
  <2>1. CASE thread'[c] = thread[c]
    <3>1. /\ thread[c].sub \in Subs /\ Unplaced(thread[c].sub)
          /\ \A w \in Webs : Asked(w) => web[w].sub # thread[c].sub
      BY <1>0, <1>6, <2>1 DEF PlaceInv
    <3>2. PICK t \in Subs : t = thread[c].sub
      BY <3>1
    <3>3. Unplaced(t)'
      BY <1>6, <2>1, <3>1, <3>2
    <3> QED
      BY <1>3, <1>6, <2>1, <3>1, <3>2, <3>3 DEF Unplaced
  <2>2. CASE thread'[c] # thread[c]
    BY <1>0, <1>3, <1>6, <2>2
  <2> QED
    BY <2>1, <2>2
<1>7. \A w, v \in Webs : Asked(w)' /\ Asked(v)' /\ web'[w].sub = web'[v].sub => w = v
  BY <1>3 DEF PlaceInv
<1> QED
  BY <1>0, <1>2, <1>4, <1>5, <1>6, <1>7 DEF PlaceInv, Unplaced

\* What a handler step does to the submissions that are placed.
LEMMA HandlerPlaces ==
  ASSUME Reliable, PlaceInv, [BridgeNext]_vars, NEW c \in Conns,
         \/ Handshake(c) \/ ThreadStep(c) \/ \E s \in Subs : JudgeStep(c, s)
  PROVE  PlaceInv'
<1>0. /\ BridgeBase /\ ReliableInv /\ thread \in [Conns -> ThreadState] /\ cases \in [Subs -> Nat]
      /\ NoConn \notin Conns
      /\ \A d \in Conns : thread[d].at \in Writing => thread[d].sub \in Subs /\ status[thread[d].sub] # "new"
  BY ReliableFacts DEF PlaceInv, BridgeBase, RowTypes, ThreadState, Busy
<1>a. /\ {"idle", "connected", "dead", "offline", "fail", "clear", "mis_got", "mis_processing"} \cap Writing = {}
      /\ {"idle", "connected", "dead", "offline", "fail", "clear", "mis_got", "mis_processing"} \subseteq ThreadStates
      /\ Writing \subseteq ThreadStates /\ Writing = {"read", "D", "CE", "IE", "AB"}
      /\ Busy = Writing \cup {"clear", "mis_got", "mis_processing"}
  BY DEF ThreadStates, Writing, Busy
<1>1. OnlyThread(c) /\ UNCHANGED web
  BY <1>0, HandlerMoves
<1>2. \A t \in Subs : Unplaced(t) => Unplaced(t)'
  <2>1. ASSUME NEW w \in Webs PROVE ~Request(w)
    <3>1. web \in [Webs -> WebRequest] /\ web[w] \in WebRequest
      BY <1>0 DEF BridgeBase, WebTypeOK
    <3>2. CASE Return(w)
      BY <1>1, <3>1, <3>2 DEF Request, Return, NoRequest
    <3>3. CASE Await(w, "failed")
      <4>1. web'[w].at = "failed"
        BY <3>1, <3>3 DEF Await, WebRequest
      <4> QED
        BY <1>1, <4>1 DEF Request
    <3> QED
      BY <3>2, <3>3 DEF Request
  <2> QED
    BY <1>0, <2>1, UnplacedStays
<1>3. ASSUME \/ thread'[c] = thread[c] \/ thread'[c].at \notin Writing
             \/ /\ status[thread'[c].sub] # "new" /\ thread'[c].sub \in Subs
                /\ thread'[c].at = "read" =>
                     /\ (thread'[c].sub \notin node_map' /\ submission_map'[thread'[c].sub] = NoConn)
                     /\ \A w \in Webs : Asked(w) => web[w].sub # thread'[c].sub
      PROVE  PlaceInv'
  BY <1>1, <1>2, <1>3, PlacesStay DEF OnlyThread
<1>4. ASSUME NEW at \in ThreadStates \ Writing, NEW s \in Subs \cup {NoSub}, NEW seen \in Nat,
             GoTo(c, at, s, seen), at \in Busy => s \in Subs
      PROVE  PlaceInv'
  <2>1. thread'[c].at = at
    BY <1>0, <1>4, GoToFacts
  <2> QED
    BY <1>3, <1>4, <2>1
<1>5. ASSUME Rest(c) PROVE PlaceInv'
  BY <1>a, <1>4, <1>5 DEF Rest
<1>6. CASE Handshake(c)
  BY <1>a, <1>4, <1>6 DEF Handshake
<1>7. CASE ThreadStep(c)
  <2>1. CASE GradingEndRead(c)
    <3>1. CASE GoTo(c, "D", thread[c].sub, cases[thread[c].sub])
      <4>1. thread[c].at = "read" /\ thread[c].sub \in Subs /\ cases[thread[c].sub] \in Nat
            /\ status[thread[c].sub] # "new" /\ "D" \in ThreadStates
        BY <1>0, <1>a, <2>1 DEF GradingEndRead
      <4>2. thread'[c].at = "D" /\ thread'[c].sub = thread[c].sub
        BY <1>0, <3>1, <4>1, GoToFacts
      <4> QED
        BY <1>3, <4>1, <4>2
    <3> QED
      BY <1>5, <2>1, <3>1 DEF GradingEndRead
  <2>2. CASE WrongAcknowledgedGot(c)
    <3>1. thread[c].sub \in Subs
      BY <1>0, <1>a, <2>2 DEF WrongAcknowledgedGot, ThreadState
    <3>2. Rest(c) \/ GoTo(c, "mis_processing", thread[c].sub, 0)
      BY <2>2 DEF WrongAcknowledgedGot
    <3> QED
      BY <1>a, <1>4, <1>5, <3>1, <3>2
  <2>3. ~SupportedProblemsUpdate(c)
    BY <1>0, NoHotReload
  <2>4. CASE Disconnect(c) \/ DisconnectOffline(c) \/ DisconnectFail(c)
    BY <1>a, <1>4, <2>4 DEF Disconnect, DisconnectOffline, DisconnectFail
  <2> QED
    BY <1>5, <1>7, <2>1, <2>2, <2>3, <2>4
       DEF ThreadStep, Connected, WrongAcknowledgedProcessing, GradingBeginClear, GradingEndSave, WriteVerdict
<1>8. ASSUME NEW s \in Subs, JudgeStep(c, s) PROVE PlaceInv'
  <2>1. ASSUME NEW verdict \in Verdicts, Report(c, s, verdict) PROVE PlaceInv'
    <3>1. /\ submission_map[s] = c /\ submission_map'[s] = NoConn /\ s \notin node_map'
          /\ GoTo(c, IF verdict = "D" THEN "read" ELSE verdict, s, 0)
      BY <1>0, <2>1, ReportMoves
    <3>2. (IF verdict = "D" THEN "read" ELSE verdict) \in Writing
      BY <1>a, JudgeBridgeAssumption DEF JudgeBridgeAssumption
    <3>3. thread'[c].at \in Writing /\ thread'[c].sub = s
      BY <1>0, <1>a, <3>1, <3>2, GoToFacts
    <3>4. status[s] # "new" /\ \A w \in Webs : Asked(w) => web[w].sub # s
      BY <1>0, <3>1 DEF PlaceInv, Unplaced
    <3> QED
      BY <1>3, <3>1, <3>3, <3>4
  <2>2. ASSUME NEW got \in Subs, WrongAcknowledged(c, s, got) PROVE PlaceInv'
    BY <1>a, <1>4, <2>2 DEF WrongAcknowledged
  <2>3. CASE GradingBegin(c, s)
    <3>1. GoTo(c, "clear", s, 0) \/ UNCHANGED thread
      BY <2>3 DEF GradingBegin
    <3> QED
      BY <1>a, <1>3, <1>4, <3>1
  <2>4. CASE Acknowledged(c, s) \/ TestCase(c, s)
    BY <1>3, <2>4 DEF Acknowledged, TestCase
  <2> QED
    BY <1>8, <2>1, <2>2, <2>3, <2>4 DEF JudgeStep
<1> QED
  BY <1>6, <1>7, <1>8

\* What a step of the web side does to them.
LEMMA WebPlaces ==
  ASSUME Reliable, WebOps \subseteq {"abort"}, PlaceInv, [BridgeNext]_vars, UNCHANGED thread,
         NEW w \in Webs, WebProcessStep(w) \/ \E s \in Subs : Submit(w, s) \/ AskAbort(w, s)
  PROVE  PlaceInv'
<1>0. /\ BridgeBase /\ web \in [Webs -> WebRequest] /\ NoRequest.at = "idle"
      /\ \A v \in Webs : web[v].at # "idle" => web[v].sub \in Subs /\ status[web[v].sub] # "new"
      /\ web[w] \in WebRequest
  BY DEF PlaceInv, BridgeBase, WebTypeOK, NoRequest
<1>1. ASSUME \A v \in Webs \ {w} : ~Request(v) /\ web'[v] = web[v],
             \/ web'[w] = web[w] \/ web'[w].at = "idle"
             \/ /\ status[web'[w].sub] # "new" /\ web'[w].sub \in Subs
                /\ Asked(w)' => Asked(w) /\ web'[w].sub = web[w].sub,
             Request(w) => ~Asked(w)'
      PROVE  PlaceInv'
  <2>1. ASSUME NEW t \in Subs, Unplaced(t), ~Unplaced(t)'
        PROVE  /\ status[t] # "new"
               /\ \A v \in Webs : Asked(v)' => web'[v].sub # t
               /\ \A c \in Conns : thread[c].at = "read" => thread[c].sub # t
    <3>1. Request(w) /\ web[w].sub = t
      BY <1>0, <1>1, <2>1, UnplacedStays
    <3>2. Asked(w) /\ web[w].at # "idle"
      BY <3>1 DEF Request, Asked
    <3>3. \A v \in Webs : Asked(v)' => web'[v].sub # t
      <4>1. ASSUME NEW v \in Webs, Asked(v)' PROVE web'[v].sub # t
        <5>1. v # w /\ web'[v] = web[v]
          BY <1>1, <3>1, <4>1
        <5>2. Asked(v)
          BY <4>1, <5>1 DEF Asked
        <5> QED
          BY <3>1, <3>2, <5>1, <5>2 DEF PlaceInv
      <4> QED
        BY <4>1
    <3>4. \A c \in Conns : thread[c].at = "read" => thread[c].sub # t
      BY <3>1, <3>2 DEF PlaceInv
    <3> QED
      BY <1>0, <3>1, <3>2, <3>3, <3>4
  <2> QED
    BY <1>1, <2>1, PlacesStay
<1>2. ASSUME NEW at, Await(w, at) PROVE web'[w].at = at /\ web'[w].sub = web[w].sub /\ \A v \in Webs \ {w} : web'[v] = web[v]
  BY <1>0, <1>2 DEF Await, WebRequest
<1>3. ASSUME Return(w) PROVE web'[w].at = "idle" /\ \A v \in Webs \ {w} : web'[v] = web[v]
  BY <1>0, <1>3 DEF Return
<1>4. ASSUME \A v \in Webs \ {w} : web'[v] = web[v], NEW v \in Webs \ {w} PROVE ~Request(v)
  <2>1. web[v] \in WebRequest /\ web'[v] = web[v]
    BY <1>0, <1>4
  <2>2. CASE Return(v)
    BY <1>0, <2>1, <2>2 DEF Request, Return, NoRequest
  <2>3. CASE Await(v, "failed")
    <3>1. web'[v].at = "failed"
      BY <1>0, <2>1, <2>3 DEF Await, WebRequest
    <3> QED
      BY <2>1, <3>1 DEF Request
  <2> QED
    BY <2>2, <2>3 DEF Request
<1>5. ASSUME WebProcessStep(w) PROVE PlaceInv'
  <2>1. /\ web[w].at # "idle"
        /\ \/ Return(w)
           \/ \E at \in {"clear", "request", "failed"} :
                /\ Await(w, at)
                /\ at \in {"clear", "request"} => Asked(w) /\ ~Request(w)
    BY <1>5 DEF WebProcessStep, UpdateRow, ClearRow, Request, RequestFails, MarkFailed, MarkAborted, Asked
  <2>2. CASE Return(w)
    <3>1. web'[w].at = "idle" /\ ~Asked(w)'
      BY <1>3, <2>2 DEF Asked
    <3> QED
      BY <1>1, <1>3, <1>4, <2>2, <3>1
  <2>3. ASSUME NEW at \in {"clear", "request", "failed"}, Await(w, at),
               at \in {"clear", "request"} => Asked(w) /\ ~Request(w)
        PROVE  PlaceInv'
    <3>1. /\ web'[w].at = at /\ web'[w].sub = web[w].sub
          /\ \A v \in Webs \ {w} : web'[v] = web[v]
      BY <1>2, <2>3
    <3>2. Asked(w)' => at \in {"clear", "request"}
      BY <3>1 DEF Asked
    <3> QED
      BY <1>0, <1>1, <1>4, <2>1, <2>3, <3>1, <3>2
  <2> QED
    BY <2>1, <2>2, <2>3
<1>6. ASSUME NEW s \in Subs, AskAbort(w, s) PROVE PlaceInv'
  <2>1. /\ web[w].at = "idle" /\ HasRow(s)
        /\ \/ UNCHANGED web
           \/ web' = [web EXCEPT ![w] = [at |-> "aborted", sub |-> s,
                                         judge_id |-> AnyJudge, priority |-> 0]]
    BY <1>6 DEF AskAbort
  <2>2. ~Request(w) /\ \A v \in Webs \ {w} : web'[v] = web[v]
    BY <1>0, <2>1 DEF Request
  <2>3. web'[w] = web[w] \/ (web'[w].at = "aborted" /\ web'[w].sub = s)
    BY <1>0, <2>1
  <2>4. Asked(w)' => Asked(w) /\ web'[w].sub = web[w].sub
    BY <2>3 DEF Asked
  <2> QED
    BY <1>1, <1>4, <2>1, <2>2, <2>3, <2>4 DEF HasRow
<1>7. ASSUME NEW s \in Subs, Submit(w, s) PROVE PlaceInv'
  <2>1. PICK j \in Wanted :
          web' = [web EXCEPT ![w] = [at |-> "update", sub |-> s, judge_id |-> j,
                                     priority |-> IF s \in InContest THEN 0 ELSE 1]]
    BY <1>7 DEF Submit
  <2>2. /\ UNCHANGED listVars /\ status' = [status EXCEPT ![s] = "QU"]
        /\ web[w].at = "idle" /\ status[s] = "new"
    BY <1>7 DEF Submit
  <2>3. web'[w].at = "update" /\ web'[w].sub = s /\ \A v \in Webs \ {w} : web'[v] = web[v]
    BY <1>0, <2>1
  <2>4. /\ Unplaced(s) /\ \A v \in Webs : web[v].at # "idle" => web[v].sub # s
        /\ \A c \in Conns : thread[c].at \in Writing => thread[c].sub # s
    BY <2>2 DEF PlaceInv
  <2>5. UNCHANGED <<node_map, submission_map>> /\ BridgeBase'
    BY <1>0, <2>2, BaseStep DEF listVars
  <2>6. status \in [Subs -> Statuses] /\ "read" \in Writing
    BY <1>0 DEF BridgeBase, RowTypes, Writing
  <2>7. \A t \in Subs : status'[t] = IF t = s THEN "QU" ELSE status[t]
    BY <2>2, <2>6
  <2>8. \A v \in Webs : Asked(v)' => v = w \/ (Asked(v) /\ web'[v].sub = web[v].sub)
    BY <2>3 DEF Asked
  <2>9. ASSUME NEW v \in Webs, NEW u \in Webs, Asked(v)', Asked(u)', web'[v].sub = web'[u].sub PROVE v = u
    <3>1. \A x \in Webs : Asked(x) => web[x].sub # s
      BY <2>4 DEF Asked
    <3> QED
      BY <2>3, <2>8, <2>9, <3>1 DEF PlaceInv
  <2>10. ASSUME NEW v \in Webs, Asked(v)' PROVE web'[v].sub \notin node_map' /\ submission_map'[web'[v].sub] = NoConn
    BY <2>3, <2>4, <2>5, <2>8, <2>10 DEF PlaceInv, Unplaced
  <2>11. ASSUME NEW c \in Conns, thread[c].at = "read"
         PROVE  Unplaced(thread[c].sub) /\ \A v \in Webs : Asked(v)' => web'[v].sub # thread[c].sub
    BY <2>3, <2>4, <2>6, <2>8, <2>11 DEF PlaceInv
  <2>12. ASSUME NEW t \in Subs, status'[t] = "new"
         PROVE  /\ Unplaced(t) /\ \A c \in Conns : thread[c].at \in Writing => thread[c].sub # t
                /\ \A v \in Webs : web'[v].at # "idle" => web'[v].sub # t
    <3>1. t # s /\ status[t] = "new"
      BY <2>7, <2>12
    <3> QED
      BY <2>3, <3>1 DEF PlaceInv
  <2>13. \A t \in Subs : status'[t] # "gone"
    BY <2>7 DEF PlaceInv
  <2> QED
    BY <2>5, <2>9, <2>10, <2>11, <2>12, <2>13 DEF PlaceInv, Unplaced
<1> QED
  BY <1>5, <1>6, <1>7

\* Every step keeps the placements right.
LEMMA PlaceStep == Reliable /\ WebOps \subseteq {"abort"} /\ PlaceInv /\ [BridgeNext]_vars => PlaceInv'
<1> SUFFICES ASSUME Reliable, WebOps \subseteq {"abort"}, PlaceInv, [BridgeNext]_vars PROVE PlaceInv'
  OBVIOUS
<1>0. /\ BridgeBase /\ BridgeBase' /\ {"new", "dead"} \cap Writing = {} /\ "read" \in Writing
  BY BaseStep DEF PlaceInv, Writing
<1>1. CASE Crash
  <2>1. /\ \A c \in Conns : thread'[c].at \notin Writing
        /\ UNCHANGED web /\ \A t \in Subs : Unplaced(t)'
    BY <1>0, <1>1, CrashMoves DEF Unplaced
  <2> QED
    BY <2>1, PlacesStay
<1>2. ASSUME NEW c \in Conns, Handshake(c) \/ ThreadStep(c) \/ \E s \in Subs : JudgeStep(c, s)
      PROVE  PlaceInv'
  BY <1>2, HandlerPlaces
<1>3. CASE ~Crash /\ ~\E c \in Conns : \/ Handshake(c) \/ ThreadStep(c) \/ \E s \in Subs : JudgeStep(c, s)
  <2>1. UNCHANGED thread
    BY <1>0, <1>3, RestMoves
  <2>2. ASSUME NEW w \in Webs, WebProcessStep(w) \/ \E s \in Subs : Submit(w, s) \/ AskAbort(w, s)
        PROVE  PlaceInv'
    BY <2>1, <2>2, WebPlaces
  <2>3. ASSUME NEW w \in Webs, NEW s \in Subs, NEW kind \in {"rejudge", "batch"} PROVE ~Rejudge(w, s, kind)
    BY DEF Rejudge
  <2>4. CASE UNCHANGED <<listVars, web>>
    <3>1. \A t \in Subs : Unplaced(t) => Unplaced(t)'
      BY <2>4 DEF Unplaced, listVars
    <3> QED
      BY <2>1, <2>4, <3>1, PlacesStay
  <2>5. ASSUME NEW c \in Conns PROVE ~SupportedProblems(c)
    BY <1>0, NoHotReload DEF BridgeBase
  <2> QED
    BY <1>3, <2>2, <2>3, <2>4, <2>5, NoVanish
       DEF BridgeNext, HangUp, PingFails, ForceDisconnect, Start, vars
<1> QED
  BY <1>1, <1>2, <1>3

\* What is counted: a judge's cases are stored as they come, and the verdict is
\* computed from all of them.
CountInv ==
  /\ RunInv
  /\ \A c \in Conns : thread[c].at = "clear" => progress[c][thread[c].sub] = 2
  /\ \A c \in Conns, s \in Subs :
       progress[c][s] >= 2 => \/ thread[c].at = "clear" /\ thread[c].sub = s
                              \/ cases[s] = progress[c][s] - 2
  /\ \A c \in Conns : thread[c].at = "read" => cases[thread[c].sub] = NumCases
  /\ \A c \in Conns : thread[c].at = "D" => thread[c].seen = NumCases
  /\ \A s \in Subs : status[s] = "D" => counted[s] = NumCases

\* What the leaves of the counting proofs need of the types.
LEMMA CountTypes ==
  ASSUME CountInv
  PROVE  /\ BridgeBase /\ ReliableInv /\ progress \in [Conns -> [Subs -> 0 .. (2 + NumCases)]]
         /\ cases \in [Subs -> Nat] /\ NumCases \in Nat \ {0} /\ thread \in [Conns -> ThreadState]
         /\ counted \in [Subs -> Nat] /\ NoConn \notin Conns
         /\ \A d \in Conns, s \in Subs : progress[d][s] # 0 => submission_map[s] = d
         /\ \A d \in Conns : thread[d].at \in Busy => thread[d].sub \in Subs
         /\ {"read", "D", "clear"} \subseteq Busy
  BY JudgeBridgeAssumption, ReliableFacts
     DEF JudgeBridgeAssumption, CountInv, RunInv, BridgeBase, RowTypes, ThreadState, Busy, Writing

\* A verdict is only written by a grading-end, and from what it counted.
LEMMA VerdictsStay ==
  ASSUME Reliable, CountInv, [BridgeNext]_vars, NEW s \in Subs, status'[s] = "D"
  PROVE  counted'[s] = NumCases
<1>1. CASE status'[s] = status[s] /\ counted'[s] = counted[s]
  BY <1>1 DEF CountInv
<1>2. ASSUME NEW c \in Conns, GradingEndSave(c), thread[c].sub = s PROVE counted'[s] = NumCases
  BY <1>2, CountTypes DEF GradingEndSave, CountInv
<1> QED
  BY <1>1, <1>2, StatusMoves, CountTypes

\* A step that stores and deletes no case, and moves no judge beyond the start
\* of a run, keeps the counts.
LEMMA CountStays ==
  ASSUME Reliable, CountInv, RunInv', [BridgeNext]_vars, UNCHANGED cases,
         \A c \in Conns :
           \/ thread'[c] = thread[c] /\ \A s \in Subs : progress'[c][s] = progress[c][s]
           \/ /\ thread'[c].at \notin {"clear", "read", "D"}
              /\ \/ thread[c].at # "clear" /\ \A s \in Subs : progress'[c][s] \in {0, 1, progress[c][s]}
                 \/ \A s \in Subs : progress'[c][s] = 0
  PROVE  CountInv'
<1>1. ASSUME NEW c \in Conns
      PROVE  /\ thread'[c].at = "clear" => progress'[c][thread'[c].sub] = 2
             /\ thread'[c].at = "read" => cases'[thread'[c].sub] = NumCases
             /\ thread'[c].at = "D" => thread'[c].seen = NumCases
  BY CountTypes DEF CountInv
<1>2. ASSUME NEW c \in Conns, NEW s \in Subs, progress'[c][s] >= 2
      PROVE  (thread'[c].at = "clear" /\ thread'[c].sub = s) \/ cases'[s] = progress'[c][s] - 2
  <2>1. progress[c][s] \in Nat
    BY CountTypes
  <2>2. /\ progress'[c][s] = progress[c][s]
        /\ thread'[c] = thread[c] \/ thread[c].at # "clear"
    BY <1>2, <2>1
  <2> QED
    BY <1>2, <2>2 DEF CountInv
<1>3. \A s \in Subs : status'[s] = "D" => counted'[s] = NumCases
  BY VerdictsStay
<1> QED
  BY <1>1, <1>2, <1>3 DEF CountInv

\* A step of a handler keeps the counts.
LEMMA HandlerCounts ==
  ASSUME Reliable, PlaceInv, CountInv, RunInv', [BridgeNext]_vars, NEW c \in Conns,
         \/ Handshake(c) \/ ThreadStep(c) \/ \E s \in Subs : JudgeStep(c, s)
  PROVE  CountInv'
<1>0. /\ BridgeBase /\ ReliableInv /\ progress \in [Conns -> [Subs -> 0 .. (2 + NumCases)]]
      /\ cases \in [Subs -> Nat] /\ NumCases \in Nat \ {0} /\ thread \in [Conns -> ThreadState]
      /\ NoConn \notin Conns
      /\ \A d \in Conns, s \in Subs : progress[d][s] # 0 => submission_map[s] = d
      /\ \A d \in Conns : thread[d].at \in Busy => thread[d].sub \in Subs
      /\ {"read", "D", "clear"} \subseteq Busy
  BY CountTypes
<1>a. /\ {"idle", "connected", "dead", "offline", "fail", "mis_got", "mis_processing"} \cap {"clear", "read", "D"} = {}
      /\ {"idle", "connected", "dead", "offline", "fail", "mis_got", "mis_processing"} \subseteq ThreadStates
      /\ {"clear", "read", "D", "CE", "IE", "AB"} \subseteq ThreadStates
  BY DEF ThreadStates
<1>1. OnlyThread(c)
  BY <1>0, HandlerMoves
<1>2. \A s \in Subs : status'[s] = "D" => counted'[s] = NumCases
  BY VerdictsStay
<1>3. ASSUME UNCHANGED <<cases, progress>>, thread[c].at # "clear", thread'[c].at \notin {"clear", "read", "D"}
      PROVE  CountInv'
  BY <1>1, <1>3, CountStays DEF OnlyThread
<1>4. ASSUME NEW at \in ThreadStates, NEW s \in Subs \cup {NoSub}, NEW seen \in Nat,
             GoTo(c, at, s, seen), at \in Busy => s \in Subs
      PROVE  thread'[c].at = at /\ thread'[c].sub = s /\ thread'[c].seen = seen
  BY <1>0, <1>4, GoToFacts
<1>5. ASSUME Rest(c) PROVE thread'[c].at = "idle"
  <2>1. "idle" \notin Busy
    BY DEF Busy, Writing
  <2> QED
    BY <1>a, <1>4, <1>5, <2>1 DEF Rest
<1>b. {"connected", "offline", "fail", "dead"} \cap Busy = {}
  BY DEF Busy, Writing
<1>6. CASE Handshake(c)
  <2>1. UNCHANGED <<cases, progress>> /\ thread[c].at = "new" /\ thread'[c].at = "connected"
    BY <1>6, <1>4, <1>a, <1>b DEF Handshake, dbVars, judgeVars
  <2> QED
    BY <1>3, <2>1
<1>7. CASE ThreadStep(c)
  <2>1. CASE Disconnect(c)
    <3>1. /\ UNCHANGED cases /\ progress' = [progress EXCEPT ![c] = [s \in Subs |-> 0]]
          /\ thread'[c].at = "offline"
      BY <2>1, <1>4, <1>a, <1>b DEF Disconnect, dbVars
    <3> QED
      BY <1>0, <1>1, <3>1, CountStays DEF OnlyThread
  <2>2. CASE GradingBeginClear(c)
    <3>1. PICK s \in Subs : s = thread[c].sub
      BY <1>0, <2>2 DEF GradingBeginClear
    <3>2. /\ UNCHANGED progress /\ cases' = [cases EXCEPT ![s] = 0] /\ thread'[c].at = "idle"
          /\ thread[c].at = "clear" /\ progress[c][s] = 2 /\ submission_map[s] = c
      BY <1>5, <2>2, <3>1 DEF GradingBeginClear, judgeVars, CountInv, RunInv, BridgeBase
    <3>3. cases'[s] = 0 /\ \A t \in Subs \ {s} : cases'[t] = cases[t]
      BY <1>0, <3>2
    <3>4. ASSUME NEW d \in Conns, NEW t \in Subs, progress'[d][t] >= 2
          PROVE  (thread'[d].at = "clear" /\ thread'[d].sub = t) \/ cases'[t] = progress'[d][t] - 2
      <4>1. CASE t = s
        <5>1. d = c
          BY <1>0, <3>2, <3>4, <4>1
        <5> QED
          BY <3>2, <3>3, <4>1, <5>1
      <4>2. CASE t # s
        BY <1>1, <3>1, <3>2, <3>3, <3>4, <4>2 DEF CountInv, OnlyThread
      <4> QED
        BY <4>1, <4>2
    <3>5. ASSUME NEW d \in Conns, thread'[d].at = "read" PROVE cases'[thread'[d].sub] = NumCases
      <4>1. d # c /\ thread'[d] = thread[d]
        BY <1>1, <3>2, <3>5 DEF OnlyThread
      <4>2. thread[d].sub \in Subs /\ submission_map[thread[d].sub] = NoConn /\ cases[thread[d].sub] = NumCases
        BY <1>0, <3>5, <4>1 DEF PlaceInv, CountInv, Unplaced
      <4>3. thread[d].sub # s
        BY <1>0, <3>2, <4>2
      <4> QED
        BY <3>3, <4>1, <4>2, <4>3
    <3>6. ASSUME NEW d \in Conns
          PROVE  /\ thread'[d].at = "clear" => progress'[d][thread'[d].sub] = 2
                 /\ thread'[d].at = "D" => thread'[d].seen = NumCases
      BY <1>1, <3>2 DEF CountInv, OnlyThread
    <3> QED
      BY <1>2, <3>4, <3>5, <3>6 DEF CountInv
  <2>3. CASE GradingEndRead(c)
    <3>1. /\ UNCHANGED <<cases, progress>> /\ thread[c].at = "read" /\ thread[c].sub \in Subs
          /\ cases[thread[c].sub] = NumCases
          /\ Rest(c) \/ GoTo(c, "D", thread[c].sub, cases[thread[c].sub])
      BY <1>0, <2>3 DEF GradingEndRead, dbVars, judgeVars, CountInv
    <3>2. CASE GoTo(c, "D", thread[c].sub, NumCases)
      <4>1. thread'[c].at = "D" /\ thread'[c].seen = NumCases
        BY <1>0, <1>4, <1>a, <3>1, <3>2
      <4>2. ASSUME NEW d \in Conns
            PROVE  /\ thread'[d].at = "clear" => progress'[d][thread'[d].sub] = 2
                   /\ thread'[d].at = "read" => cases'[thread'[d].sub] = NumCases
                   /\ thread'[d].at = "D" => thread'[d].seen = NumCases
        BY <1>1, <3>1, <4>1 DEF CountInv, OnlyThread
      <4>3. ASSUME NEW d \in Conns, NEW t \in Subs, progress'[d][t] >= 2
            PROVE  (thread'[d].at = "clear" /\ thread'[d].sub = t) \/ cases'[t] = progress'[d][t] - 2
        BY <1>1, <3>1, <4>1, <4>3 DEF CountInv, OnlyThread
      <4> QED
        BY <1>2, <4>2, <4>3 DEF CountInv
    <3>3. CASE Rest(c)
      BY <1>3, <1>5, <3>1, <3>3
    <3> QED
      BY <3>1, <3>2, <3>3
  <2>4. ~SupportedProblemsUpdate(c)
    BY <1>0, NoHotReload
  <2>5. CASE WrongAcknowledgedGot(c)
    <3>1. UNCHANGED <<cases, progress>> /\ thread[c].at = "mis_got" /\ thread[c].sub \in Subs
          /\ (Rest(c) \/ GoTo(c, "mis_processing", thread[c].sub, 0))
      BY <1>0, <2>5 DEF WrongAcknowledgedGot, Busy
    <3>2. thread'[c].at \in {"idle", "mis_processing"}
      BY <1>4, <1>5, <1>a, <3>1
    <3> QED
      BY <1>3, <3>1, <3>2
  <2>6. CASE DisconnectOffline(c) \/ DisconnectFail(c)
    <3>1. UNCHANGED <<cases, progress>> /\ thread[c].at # "clear" /\ thread'[c].at \in {"fail", "dead"}
      BY <1>4, <1>a, <1>b, <2>6 DEF DisconnectOffline, DisconnectFail, judgeVars
    <3> QED
      BY <1>3, <3>1
  <2>7. CASE Connected(c) \/ WrongAcknowledgedProcessing(c) \/ GradingEndSave(c) \/ WriteVerdict(c)
    <3>1. UNCHANGED <<cases, progress>> /\ thread[c].at # "clear" /\ Rest(c)
      BY <2>7 DEF Connected, WrongAcknowledgedProcessing, GradingEndSave, WriteVerdict, judgeVars
    <3> QED
      BY <1>3, <1>5, <3>1
  <2> QED
    BY <1>7, <2>1, <2>2, <2>3, <2>4, <2>5, <2>6, <2>7 DEF ThreadStep
<1>8. ASSUME NEW s \in Subs, JudgeStep(c, s) PROVE CountInv'
  <2>0. /\ s \in at_judge[c] /\ submission_map[s] = c /\ thread[c].at = "idle"
        /\ progress[c][s] \in 0 .. (2 + NumCases)
        /\ HasRow(s)
    BY <1>0, <1>8, ReliableFacts
       DEF JudgeStep, Acknowledged, WrongAcknowledged, GradingBegin, TestCase, Report, AtStage, Ready,
           PlaceInv, Unplaced, HasRow
  <2>1. ASSUME Advance(c, s), progress[c][s] <= 1 + NumCases
        PROVE  /\ progress'[c][s] = progress[c][s] + 1
               /\ \A d \in Conns, t \in Subs : d # c \/ t # s => progress'[d][t] = progress[d][t]
    BY <1>0, <2>1, AdvanceFacts
  <2>2. CASE Acknowledged(c, s)
    <3>1. UNCHANGED <<cases, thread>> /\ Advance(c, s) /\ progress[c][s] = 0
      BY <2>2 DEF Acknowledged, AtStage
    <3>2. \A d \in Conns : \A t \in Subs : progress'[d][t] \in {1, progress[d][t]} /\ (d # c => progress'[d][t] = progress[d][t])
      BY <1>0, <2>1, <3>1
    <3> QED
      BY <2>0, <3>1, <3>2, CountStays
  <2>3. ASSUME NEW got \in Subs, WrongAcknowledged(c, s, got) PROVE CountInv'
    <3>1. UNCHANGED cases /\ Advance(c, s) /\ progress[c][s] = 0 /\ thread'[c].at = "mis_got"
      BY <1>4, <1>a, <2>3 DEF WrongAcknowledged, AtStage
    <3>2. \A d \in Conns : \A t \in Subs : progress'[d][t] \in {1, progress[d][t]} /\ (d # c => progress'[d][t] = progress[d][t])
      BY <1>0, <2>1, <3>1
    <3> QED
      BY <1>1, <2>0, <3>1, <3>2, CountStays DEF OnlyThread
  <2>4. CASE GradingBegin(c, s)
    <3>1. UNCHANGED cases /\ Advance(c, s) /\ progress[c][s] = 1 /\ GoTo(c, "clear", s, 0)
      BY <2>0, <2>4 DEF GradingBegin, AtStage
    <3>2. /\ progress'[c][s] = 2
          /\ \A d \in Conns, t \in Subs : d # c \/ t # s => progress'[d][t] = progress[d][t]
      BY <1>0, <2>1, <3>1
    <3>3. thread'[c].at = "clear" /\ thread'[c].sub = s
      BY <1>4, <1>a, <3>1
    <3>4. ASSUME NEW d \in Conns, NEW t \in Subs, progress'[d][t] >= 2
          PROVE  (thread'[d].at = "clear" /\ thread'[d].sub = t) \/ cases'[t] = progress'[d][t] - 2
      BY <1>1, <2>0, <3>1, <3>2, <3>3, <3>4 DEF CountInv, OnlyThread
    <3>5. ASSUME NEW d \in Conns
          PROVE  /\ thread'[d].at = "clear" => progress'[d][thread'[d].sub] = 2
                 /\ thread'[d].at = "read" => cases'[thread'[d].sub] = NumCases
                 /\ thread'[d].at = "D" => thread'[d].seen = NumCases
      <4>1. CASE d = c
        BY <3>2, <3>3, <4>1
      <4>2. CASE d # c
        BY <1>0, <1>1, <3>1, <3>2, <4>2 DEF CountInv, OnlyThread
      <4> QED
        BY <4>1, <4>2
    <3> QED
      BY <1>2, <3>4, <3>5 DEF CountInv
  <2>5. CASE TestCase(c, s)
    <3>1. PICK k \in 0 .. (NumCases - 1) : AtStage(c, s, 2 + k)
      BY <2>5 DEF TestCase
    <3>2. /\ UNCHANGED thread /\ Advance(c, s) /\ progress[c][s] = 2 + k
          /\ cases' = [cases EXCEPT ![s] = @ + 1]
      BY <2>0, <2>5, <3>1 DEF TestCase, AtStage
    <3>3. /\ progress'[c][s] = 3 + k
          /\ \A d \in Conns, t \in Subs : d # c \/ t # s => progress'[d][t] = progress[d][t]
      BY <1>0, <2>1, <3>1, <3>2
    <3>4. cases[s] = k
      BY <1>0, <2>0, <3>1, <3>2 DEF CountInv
    <3>5. cases'[s] = k + 1 /\ \A t \in Subs \ {s} : cases'[t] = cases[t]
      BY <1>0, <3>2, <3>4
    <3>6. ASSUME NEW d \in Conns, NEW t \in Subs, progress'[d][t] >= 2
          PROVE  (thread'[d].at = "clear" /\ thread'[d].sub = t) \/ cases'[t] = progress'[d][t] - 2
      <4>1. CASE d = c /\ t = s
        BY <3>1, <3>3, <3>5, <4>1
      <4>2. CASE t # s
        BY <3>2, <3>3, <3>5, <3>6, <4>2 DEF CountInv
      <4>3. CASE d # c /\ t = s
        BY <1>0, <2>0, <3>3, <3>6, <4>3
      <4> QED
        BY <4>1, <4>2, <4>3
    <3>7. ASSUME NEW d \in Conns
          PROVE  /\ thread'[d].at = "clear" => progress'[d][thread'[d].sub] = 2
                 /\ thread'[d].at = "read" => cases'[thread'[d].sub] = NumCases
                 /\ thread'[d].at = "D" => thread'[d].seen = NumCases
      <4>1. CASE thread[d].at = "clear"
        <5>1. d # c /\ thread[d].sub \in Subs
          BY <1>0, <2>0, <4>1
        <5> QED
          BY <3>2, <3>3, <4>1, <5>1 DEF CountInv
      <4>2. CASE thread[d].at = "read"
        <5>1. thread[d].sub \in Subs /\ submission_map[thread[d].sub] = NoConn
          BY <1>0, <4>2 DEF PlaceInv, Unplaced
        <5>2. thread[d].sub # s
          BY <1>0, <2>0, <5>1
        <5> QED
          BY <3>2, <3>5, <4>2, <5>1, <5>2 DEF CountInv
      <4> QED
        BY <3>2, <4>1, <4>2 DEF CountInv
    <3> QED
      BY <1>2, <3>6, <3>7 DEF CountInv
  <2>6. ASSUME NEW verdict \in Verdicts, Report(c, s, verdict) PROVE CountInv'
    <3>1. /\ UNCHANGED cases /\ progress' = [progress EXCEPT ![c][s] = 0]
          /\ GoTo(c, IF verdict = "D" THEN "read" ELSE verdict, s, 0)
      BY <1>0, <2>6, ReportMoves DEF Report, dbVars
    <3>2. \A d \in Conns : \A t \in Subs : progress'[d][t] \in {0, progress[d][t]} /\ (d # c => progress'[d][t] = progress[d][t])
      BY <1>0, <3>1
    <3>3. CASE verdict # "D"
      <4>1. verdict \in {"CE", "IE", "AB"}
        BY <3>3, JudgeBridgeAssumption DEF JudgeBridgeAssumption
      <4>2. thread'[c].at = verdict
        BY <1>4, <1>a, <3>1, <3>3, <4>1
      <4> QED
        BY <1>1, <2>0, <3>1, <3>2, <4>1, <4>2, CountStays DEF OnlyThread
    <3>4. CASE verdict = "D"
      <4>1. thread'[c].at = "read" /\ thread'[c].sub = s
        BY <1>4, <1>a, <3>1, <3>4
      <4>2. progress[c][s] = 2 + NumCases
        BY <2>6, <3>4 DEF Report, MayReport
      <4>3. cases[s] = NumCases
        <5>0. NumCases \in Nat
          BY <1>0
        <5>1. progress[c][s] >= 2 /\ progress[c][s] - 2 = NumCases
          BY <4>2, <5>0
        <5> QED
          BY <2>0, <5>1 DEF CountInv
      <4>4. ASSUME NEW d \in Conns, NEW t \in Subs, progress'[d][t] >= 2
            PROVE  (thread'[d].at = "clear" /\ thread'[d].sub = t) \/ cases'[t] = progress'[d][t] - 2
        <5>1. progress'[d][t] = progress[d][t]
          BY <3>2, <4>4
        <5>2. CASE d = c
          BY <2>0, <3>1, <4>4, <5>1, <5>2 DEF CountInv
        <5>3. CASE d # c
          BY <1>1, <3>1, <4>4, <5>1, <5>3 DEF CountInv, OnlyThread
        <5> QED
          BY <5>2, <5>3
      <4>5. ASSUME NEW d \in Conns
            PROVE  /\ thread'[d].at = "clear" => progress'[d][thread'[d].sub] = 2
                   /\ thread'[d].at = "read" => cases'[thread'[d].sub] = NumCases
                   /\ thread'[d].at = "D" => thread'[d].seen = NumCases
        <5>1. CASE d = c
          BY <3>1, <4>1, <4>3, <5>1
        <5>2. CASE d # c
          BY <1>0, <1>1, <3>1, <3>2, <5>2 DEF CountInv, OnlyThread
        <5> QED
          BY <5>1, <5>2
      <4> QED
        BY <1>2, <4>4, <4>5 DEF CountInv
    <3> QED
      BY <3>3, <3>4
  <2> QED
    BY <1>8, <2>2, <2>3, <2>4, <2>5, <2>6 DEF JudgeStep
<1> QED
  BY <1>6, <1>7, <1>8

\* Every step keeps the counts, as long as the placements are right.
LEMMA CountStep == Reliable /\ PlaceInv /\ CountInv /\ [BridgeNext]_vars => CountInv'
<1> SUFFICES ASSUME Reliable, PlaceInv, CountInv, [BridgeNext]_vars PROVE CountInv'
  OBVIOUS
<1>0. /\ BridgeBase /\ RunInv' /\ cases \in [Subs -> Nat] /\ web \in [Webs -> WebRequest] /\ NoConn \notin Conns
      /\ \A w \in Webs : web[w].at # "idle" => web[w].sub \in Subs
  BY RunStep, CountTypes DEF CountInv, BridgeBase, WebTypeOK
<1>1. CASE Crash
  <2>1. /\ UNCHANGED cases /\ \A c \in Conns : thread'[c].at \in {"new", "dead"}
        /\ \A c \in Conns, s \in Subs : progress'[c][s] = 0
    BY <1>0, <1>1, CrashMoves DEF dbVars
  <2> QED
    BY <1>0, <2>1, CountStays
<1>2. ASSUME NEW c \in Conns, \/ Handshake(c) \/ ThreadStep(c) \/ \E s \in Subs : JudgeStep(c, s)
      PROVE  CountInv'
  BY <1>0, <1>2, HandlerCounts
<1>3. CASE ~Crash /\ ~\E c \in Conns : \/ Handshake(c) \/ ThreadStep(c) \/ \E s \in Subs : JudgeStep(c, s)
  <2>1. UNCHANGED <<thread, progress>>
    BY <1>0, <1>3, RestMoves
  <2>2. ASSUME NEW w \in Webs, ClearRow(w) PROVE CountInv'
    <3>1. /\ Asked(w) /\ web[w].sub \in Subs /\ cases' = [cases EXCEPT ![web[w].sub] = 0]
      BY <1>0, <2>2 DEF ClearRow, Asked
    <3>2. PICK s \in Subs : s = web[w].sub
      BY <3>1
    <3>3. cases'[s] = 0 /\ \A t \in Subs \ {s} : cases'[t] = cases[t]
      BY <1>0, <3>1, <3>2
    <3>4. submission_map[s] = NoConn /\ \A c \in Conns : thread[c].at = "read" => thread[c].sub # s
      BY <3>1, <3>2 DEF PlaceInv, Unplaced
    <3>5. ASSUME NEW c \in Conns PROVE progress[c][s] = 0
      BY <1>0, <3>4 DEF CountInv, RunInv
    <3>6. ASSUME NEW c \in Conns, NEW t \in Subs, progress'[c][t] >= 2
          PROVE  (thread'[c].at = "clear" /\ thread'[c].sub = t) \/ cases'[t] = progress'[c][t] - 2
      <4>1. t # s
        BY <2>1, <3>5, <3>6
      <4> QED
        BY <2>1, <3>3, <3>6, <4>1 DEF CountInv
    <3>7. ASSUME NEW c \in Conns, thread'[c].at = "read" PROVE cases'[thread'[c].sub] = NumCases
      <4>1. thread[c].sub \in Subs
        BY <2>1, <3>7, CountTypes
      <4> QED
        BY <2>1, <3>3, <3>4, <3>7, <4>1 DEF CountInv
    <3>8. \A t \in Subs : status'[t] = "D" => counted'[t] = NumCases
      BY VerdictsStay
    <3> QED
      BY <1>0, <2>1, <3>6, <3>7, <3>8 DEF CountInv
  <2>3. CASE UNCHANGED cases
    BY <1>0, <2>1, <2>3, CountStays
  <2> QED
    BY <1>3, <2>2, <2>3, NoVanish
       DEF BridgeNext, SupportedProblems, HangUp, PingFails, ForceDisconnect, WebProcessStep, UpdateRow,
           Request, RequestFails, MarkFailed, MarkAborted, Submit, Rejudge, AskAbort, Start, vars, dbVars
<1> QED
  BY <1>1, <1>2, <1>3

\* In a bridge whose dispatches succeed, and without rejudges, a verdict is
\* computed from all test cases of the problem, whatever is aborted, hangs up,
\* is acknowledged wrongly, crashes or is lost.
THEOREM VerdictsAreComplete ==
  ASSUME Reliable, WebOps \subseteq {"abort"} PROVE BridgeSpec => []VerdictIsComplete
<1>1. BridgeInit => PlaceInv /\ CountInv
  <2> SUFFICES ASSUME BridgeInit PROVE PlaceInv /\ CountInv
    OBVIOUS
  <2>1. /\ \A c \in Conns, s \in Subs : progress[c][s] = 0
        /\ \A s \in Subs : cases[s] = 0 /\ status[s] = "new"
        /\ \A c \in Conns : thread[c].at = "new"
        /\ \A w \in Webs : web[w].at = "idle"
        /\ NumCases \in Nat
        /\ \A s \in Subs : Unplaced(s)
    BY JudgeBridgeAssumption DEF JudgeBridgeAssumption, BridgeInit, Resting, NoRequest, Init, Unplaced
  <2>2. PlaceInv
    BY <2>1, BaseStarts DEF PlaceInv, Writing, Asked
  <2>3. RunInv
    BY <2>1, BaseStarts DEF RunInv
  <2> QED
    BY <2>1, <2>2, <2>3 DEF CountInv
<1>2. CountInv => VerdictIsComplete
  BY DEF CountInv, VerdictIsComplete
<1>3. PlaceInv /\ CountInv /\ [BridgeNext]_vars => (PlaceInv /\ CountInv)'
  BY PlaceStep, CountStep
<1> QED
  BY <1>1, <1>2, <1>3, PTL DEF BridgeSpec
-----------------------------------------------------------------------------
(* A terminate-submission *)

\* In a bridge whose dispatches succeed, the judge that is told to terminate
\* holds the submission the abort was for, and no other: the packet need not
\* name it.
THEOREM AbortsHitTheirTarget == ASSUME Reliable PROVE BridgeSpec => AbortHitsItsTarget
<1>1. BridgeInit => BridgeBase
  BY BaseStarts
<1>2. BridgeBase /\ [BridgeNext]_vars => BridgeBase'
  BY BaseStep
<1>3. BridgeBase => [\A w \in Webs, s \in Subs :
                       AskAbort(w, s) /\ killing' # killing =>
                         \A c \in Conns : killing'[c] /\ ~killing[c] => at_judge[c] = {s}]_vars
  <2> SUFFICES ASSUME BridgeBase, NEW w \in Webs, NEW s \in Subs, AskAbort(w, s), killing' # killing,
                      NEW c \in Conns, killing'[c], ~killing[c]
               PROVE  at_judge[c] = {s}
    OBVIOUS
  <2>1. ReliableInv /\ killing \in [Conns -> BOOLEAN]
    BY DEF BridgeBase, RowTypes
  <2>2. PICK d : d = submission_map[s]
    OBVIOUS
  <2>3. /\ d # NoConn
        /\ killing' = [killing EXCEPT ![d] = @ \/ (socket[d] # "shut" /\ at_judge[d] # {})]
    BY <2>2 DEF AskAbort
  <2>4. c = d
    BY <2>1, <2>3
  <2>5. submission_map[s] = c
    BY <2>2, <2>4
  <2>6. at_judge[c] \subseteq Subs
    BY <2>1 DEF ReliableInv, TypeOK
  <2> QED
    BY <2>1, <2>5, <2>6, ReliableFacts
<1> QED
  BY <1>1, <1>2, <1>3, PTL DEF BridgeSpec, AbortHitsItsTarget

-----------------------------------------------------------------------------
(* The rows of judges (JudgeStatus) *)

\* What a report may name, and where a connected thread may be.
Languages == UNION {DOMAIN r : r \in Reports}
LinkStates == {"idle", "registered", "set", "deleted", "created", "up", "leaving"}

\* A thread that is not idle is of a judge that may connect.
StatusTypes ==
  /\ row \in [Machines -> [online : BOOLEAN, is_blocked : BOOLEAN]]
  /\ runtimes \in [Machines -> SUBSET Languages]
  /\ DOMAIN versions = Machines
  /\ DOMAIN link = Sockets
  /\ \A s \in Sockets : \/ link[s] = Unconnected
                        \/ link[s] \in [at : LinkStates \ {"idle"}, judge : Followed,
                                        report : Reports, blocked : BOOLEAN]
  /\ opened = NoForm \/ opened \in [judge : Followed, online : BOOLEAN]
  /\ daemon \in BOOLEAN

\* Threads are those of a bridge that runs.
DownIsIdle == ~daemon => \A s \in Sockets : link[s].at = "idle"

\* A judge that is not mixed has one connection, ...
OneEach == \A j \in Machines \ mixed : \A s, t \in Connections(j) : s = t

\* ... which finds what it has written.
OwnWork(s) ==
  LET j == link[s].judge
      at == link[s].at
  IN  at # "idle" /\ j \notin mixed =>
        /\ at \in {"set", "deleted", "created", "up"} => runtimes[j] = DOMAIN link[s].report
        /\ at = "deleted" => versions[j] = {}
        /\ at \in {"created", "up"} => versions[j] = {<<s, link[s].report>>}
        /\ at = "up" /\ j \notin spoiled => row[j].online

\* A judge all of whose connections are leaving has been marked.
LeftIsOffline ==
  daemon => \A j \in Machines \ spoiled :
              (\A s \in Connections(j) : link[s].at = "leaving") => ~row[j].online

\* All of it, with the property of the page.
StatusInv ==
  /\ StatusTypes /\ DownIsIdle /\ OneEach /\ LeftIsOffline /\ PageIsWhole
  /\ \A s \in Sockets : OwnWork(s)

-----------------------------------------------------------------------------
\* A set of numbers that is not empty has a least.
LEMMA LeastOf ==
  ASSUME NEW T, T \subseteq Nat, T # {}
  PROVE  \E x \in T : \A y \in T : x <= y
<1> DEFINE R == OpToRel(<, Nat)
<1>1. IsWellFoundedOn(R, Nat)
  BY NatLessThanWellFounded
<1>2. PICK x \in T : \A y \in T : ~(<<y, x>> \in R)
  <2> HIDE DEF R
  <2> QED BY <1>1, WFMin
<1>3. \A y \in T : <<y, x>> \in R <=> y < x
  BY DEF OpToRel
<1> HIDE DEF R
<1>4. ASSUME NEW y \in T
      PROVE  x <= y
  <2>1. x \in Nat /\ y \in Nat /\ ~(y < x)
    BY <1>2, <1>3
  <2> QED
    BY <2>1
<1> QED
  BY <1>4

\* Who stands for a judge has what it has.
LEMMA FirstIsAlike ==
  ASSUME NEW matrix, NEW group \in SUBSET Machines, NEW i \in group
  PROVE  matrix[first_alike(matrix, group, i)] = matrix[i]
<1> DEFINE alike == {k \in group : matrix[k] = matrix[i]}
<1>1. Machines \subseteq Nat
  <2>1. Cardinality(Machines) \in Nat
    BY StatusAssumption, FS_CardinalityType DEF StatusAssumption
  <2> QED
    BY <2>1, StatusAssumption DEF StatusAssumption
<1>2. alike \subseteq Nat /\ alike # {}
  BY <1>1
<1>3. PICK k \in alike : \A m \in alike : k <= m
  <2> HIDE DEF alike
  <2> QED
    BY <1>2, LeastOf
<1>4. k \in group /\ matrix[k] = matrix[i] /\ \A m \in group : matrix[m] = matrix[i] => k <= m
  BY <1>3
<1>5. first_alike(matrix, group, i) =
        CHOOSE x \in group : matrix[x] = matrix[i] /\ \A m \in group : matrix[m] = matrix[i] => x <= m
  BY DEF first_alike
<1> HIDE DEF alike
<1> QED
  BY <1>4, <1>5

\* The lines of a group.
GroupIn(matrix, g) == {j \in DOMAIN matrix : GroupOf[j] = g}
LinesOf(matrix, g) ==
  LET group == GroupIn(matrix, g)
  IN  IF Cardinality(group) = 1 THEN {<<Title[j], matrix[j]>> : j \in group}
      ELSE {<<g, matrix[rep(matrix, group)]>>}
             \cup {<<Title[j], matrix[j]>> :
                     j \in {i \in group : first_alike(matrix, group, i) # rep(matrix, group)}}
\* Whether a judge has a line of its own.
IsApart(matrix, j) ==
  LET group == GroupIn(matrix, GroupOf[j])
  IN  Cardinality(group) = 1 \/ first_alike(matrix, group, j) # rep(matrix, group)

\* The page is the lines of its groups.
LEMMA LinesOfGroups ==
  ASSUME NEW matrix
  PROVE  version_matrix(matrix) = UNION {LinesOf(matrix, GroupOf[j]) : j \in DOMAIN matrix}
<1>1. version_matrix(matrix) = UNION {LinesOf(matrix, g) : g \in {GroupOf[j] : j \in DOMAIN matrix}}
  BY Zenon DEF version_matrix, LinesOf, GroupIn
<1> QED
  BY <1>1

\* A page is whole, of any rows.
LEMMA MatrixIsWhole ==
  ASSUME NEW matrix, DOMAIN matrix \subseteq Machines,
         NEW lines, lines = version_matrix(matrix)
  PROVE  LET titled(t) == {line \in lines : line[1] = t}
             here == DOMAIN matrix
         IN  \A j \in here :
               \/ titled(Title[j]) = {<<Title[j], matrix[j]>>}
               \/ titled(Title[j]) = {} /\ titled(GroupOf[j]) = {<<GroupOf[j], matrix[j]>>}
               \/ \E k \in here : Title[k] \in {GroupOf[m] : m \in here}
<1> DEFINE here == DOMAIN matrix
           titled(t) == {line \in lines : line[1] = t}
<1> SUFFICES ASSUME NEW j \in here,
                    ~ \E k \in here : Title[k] \in {GroupOf[m] : m \in here}
             PROVE  \/ titled(Title[j]) = {<<Title[j], matrix[j]>>}
                    \/ titled(Title[j]) = {} /\ titled(GroupOf[j]) = {<<GroupOf[j], matrix[j]>>}
  OBVIOUS
<1>1. \A k, m \in here : Title[k] # GroupOf[m] /\ (Title[k] = Title[m] => k = m)
  BY StatusAssumption DEF StatusAssumption
<1>2. \A line : line \in lines <=> \E m \in here : line \in LinesOf(matrix, GroupOf[m])
  BY LinesOfGroups
<1>3. ASSUME NEW m \in here
      PROVE  \A line : line \in LinesOf(matrix, GroupOf[m]) <=>
                 \/ /\ Cardinality(GroupIn(matrix, GroupOf[m])) # 1
                    /\ line = <<GroupOf[m], matrix[rep(matrix, GroupIn(matrix, GroupOf[m]))]>>
                 \/ \E k \in here : /\ GroupOf[k] = GroupOf[m] /\ IsApart(matrix, k)
                                      /\ line = <<Title[k], matrix[k]>>
  BY DEF LinesOf, IsApart, GroupIn
<1>4. \A line : line \in lines <=>
         \/ \E m \in here : /\ Cardinality(GroupIn(matrix, GroupOf[m])) # 1
                              /\ line = <<GroupOf[m], matrix[rep(matrix, GroupIn(matrix, GroupOf[m]))]>>
         \/ \E k \in here : IsApart(matrix, k) /\ line = <<Title[k], matrix[k]>>
  BY <1>2, <1>3
<1>5. \A line : line \in titled(Title[j]) <=> IsApart(matrix, j) /\ line = <<Title[j], matrix[j]>>
  BY <1>1, <1>4
<1>6. CASE IsApart(matrix, j)
  BY <1>5, <1>6
<1>7. CASE ~IsApart(matrix, j)
  <2>1. titled(Title[j]) = {}
    BY <1>5, <1>7
  <2> DEFINE group == GroupIn(matrix, GroupOf[j])
  <2>2. Cardinality(group) # 1 /\ first_alike(matrix, group, j) = rep(matrix, group)
    BY <1>7 DEF IsApart
  <2>3. group \in SUBSET Machines /\ j \in group
    BY DEF GroupIn
  <2>4. matrix[rep(matrix, group)] = matrix[j]
    <3> HIDE DEF group
    <3> QED
      BY <2>2, <2>3, FirstIsAlike
  <2>5. \A m \in here : GroupOf[m] = GroupOf[j] => GroupIn(matrix, GroupOf[m]) = group
    OBVIOUS
  <2>6. \A line : line \in titled(GroupOf[j]) <=> line = <<GroupOf[j], matrix[j]>>
    <3> HIDE DEF group
    <3> QED
      BY <1>1, <1>4, <2>2, <2>4, <2>5
  <2> QED
    BY <2>1, <2>6
<1> QED
  BY <1>6, <1>7

-----------------------------------------------------------------------------
(* Every statement of a thread, of a form and of a restart keeps the invariant *)

\* Whoever moves, the page stays, and idle threads are alike.
LEMMA StatusFacts ==
  ASSUME StatusInv, NEW s \in Sockets
  PROVE  /\ link[s].at = "idle" <=> link[s] = Unconnected
         /\ link[s].at # "idle" =>
              /\ link[s] \in [at : LinkStates \ {"idle"}, judge : Followed, report : Reports, blocked : BOOLEAN]
              /\ link[s].judge \in Machines
BY StatusAssumption DEF StatusInv, StatusTypes, Unconnected, LinkStates, StatusAssumption

\* A handshake finds an idle thread and, of an unmixed judge, no other connection.
LEMMA LetInKeeps ==
  ASSUME StatusInv, NEW s \in Sockets, NEW j \in Followed, NEW report \in Reports, LetIn(s, j, report)
  PROVE  StatusInv'
<1> USE DEF LetIn
<1>0. Followed \subseteq Machines
  BY StatusAssumption DEF StatusAssumption
<1>1. StatusTypes'
  BY <1>0, StatusFacts DEF StatusInv, StatusTypes, LinkStates, Unconnected, NoForm, Languages
<1>2. DownIsIdle'
  BY StatusFacts DEF StatusInv, StatusTypes, DownIsIdle, Unconnected
<1>3. OneEach'
  BY <1>0, StatusFacts DEF StatusInv, StatusTypes, OneEach, Connections, DownIsIdle, Unconnected
<1>4. LeftIsOffline'
  BY <1>0, StatusFacts DEF StatusInv, StatusTypes, LeftIsOffline, Connections, DownIsIdle, Unconnected, NoForm
<1>5. PageIsWhole'
  BY DEF StatusInv, PageIsWhole
<1>6. ASSUME NEW r \in Sockets
      PROVE  OwnWork(r)'
  BY <1>0, StatusFacts DEF StatusInv, StatusTypes, OwnWork, OneEach, Connections, DownIsIdle, Unconnected, NoForm
<1> QED
  BY <1>1, <1>2, <1>3, <1>4, <1>5, <1>6 DEF StatusInv

\* Runtimes are those of the report, and is_blocked is read into the thread.
LEMMA SetRuntimesKeeps ==
  ASSUME StatusInv, NEW s \in Sockets, SetRuntimes(s)
  PROVE  StatusInv'
<1> USE DEF SetRuntimes
<1>0. Followed \subseteq Machines
  BY StatusAssumption DEF StatusAssumption
<1>1. StatusTypes'
  <2>1. /\ link[s] \in [at : LinkStates \ {"idle"}, judge : Followed, report : Reports, blocked : BOOLEAN]
        /\ row[link[s].judge].is_blocked \in BOOLEAN
    BY <1>0, StatusFacts DEF StatusInv, StatusTypes
  <2>2. link'[s] = [at |-> "set", judge |-> link[s].judge, report |-> link[s].report,
                    blocked |-> row[link[s].judge].is_blocked]
    BY <2>1 DEF StatusInv, StatusTypes
  <2>3. link'[s] \in [at : LinkStates \ {"idle"}, judge : Followed, report : Reports, blocked : BOOLEAN]
    BY <2>1, <2>2 DEF LinkStates
  <2>4. DOMAIN link[s].report \in SUBSET Languages
    BY <2>1 DEF Languages
  <2> QED
    BY <1>0, <2>1, <2>3, <2>4 DEF StatusInv, StatusTypes
<1>2. DownIsIdle'
  BY StatusFacts DEF StatusInv, StatusTypes, DownIsIdle, Unconnected
<1>3. OneEach'
  BY <1>0, StatusFacts DEF StatusInv, StatusTypes, OneEach, Connections, DownIsIdle, Unconnected
<1>4. LeftIsOffline'
  BY <1>0, StatusFacts DEF StatusInv, StatusTypes, LeftIsOffline, Connections, DownIsIdle, Unconnected, NoForm
<1>5. PageIsWhole'
  BY DEF StatusInv, PageIsWhole
<1>6. ASSUME NEW r \in Sockets
      PROVE  OwnWork(r)'
  BY <1>0, StatusFacts DEF StatusInv, StatusTypes, OwnWork, OneEach, Connections, DownIsIdle, Unconnected, NoForm
<1> QED
  BY <1>1, <1>2, <1>3, <1>4, <1>5, <1>6 DEF StatusInv

\* After the DELETE an unmixed judge has no versions, ...
LEMMA DeleteVersionsKeeps ==
  ASSUME StatusInv, NEW s \in Sockets, DeleteVersions(s)
  PROVE  StatusInv'
<1> USE DEF DeleteVersions, Turns
<1>0. Followed \subseteq Machines
  BY StatusAssumption DEF StatusAssumption
<1>1. StatusTypes'
  BY <1>0, StatusFacts DEF StatusInv, StatusTypes, LinkStates, Unconnected, NoForm, Languages
<1>2. DownIsIdle'
  BY StatusFacts DEF StatusInv, StatusTypes, DownIsIdle, Unconnected
<1>3. OneEach'
  BY <1>0, StatusFacts DEF StatusInv, StatusTypes, OneEach, Connections, DownIsIdle, Unconnected
<1>4. LeftIsOffline'
  BY <1>0, StatusFacts DEF StatusInv, StatusTypes, LeftIsOffline, Connections, DownIsIdle, Unconnected, NoForm
<1>5. PageIsWhole'
  BY DEF StatusInv, PageIsWhole
<1>6. ASSUME NEW r \in Sockets
      PROVE  OwnWork(r)'
  BY <1>0, StatusFacts DEF StatusInv, StatusTypes, OwnWork, OneEach, Connections, DownIsIdle, Unconnected, NoForm
<1> QED
  BY <1>1, <1>2, <1>3, <1>4, <1>5, <1>6 DEF StatusInv

\* ... and after the INSERTs those of its report, since the runtimes it looks up are there.
LEMMA CreateVersionsKeeps ==
  ASSUME StatusInv, NEW s \in Sockets, CreateVersions(s)
  PROVE  StatusInv'
<1> USE DEF CreateVersions, Turns
<1>0. Followed \subseteq Machines
  BY StatusAssumption DEF StatusAssumption
<1>01. /\ link[s] \in [at : LinkStates \ {"idle"}, judge : Followed, report : Reports, blocked : BOOLEAN]
      /\ link[s].judge \in Machines
  BY StatusFacts
<1>02. /\ link'[s].at \in {"created", "up"} /\ link'[s].judge = link[s].judge /\ link'[s].report = link[s].report
       /\ link'[s] \in [at : LinkStates \ {"idle"}, judge : Followed, report : Reports, blocked : BOOLEAN]
       /\ \A r \in Sockets \ {s} : link'[r] = link[r]
       /\ DOMAIN link' = Sockets
  BY <1>01 DEF StatusInv, StatusTypes, LinkStates
<1>1. StatusTypes'
  BY <1>0, <1>02 DEF StatusInv, StatusTypes
<1>2. DownIsIdle'
  BY StatusFacts DEF StatusInv, StatusTypes, DownIsIdle, Unconnected
<1>3. OneEach'
  BY <1>0, StatusFacts DEF StatusInv, StatusTypes, OneEach, Connections, DownIsIdle, Unconnected
<1>4. LeftIsOffline'
  BY <1>0, StatusFacts DEF StatusInv, StatusTypes, LeftIsOffline, Connections, DownIsIdle, Unconnected, NoForm
<1>5. PageIsWhole'
  BY DEF StatusInv, PageIsWhole
<1>6. ASSUME NEW r \in Sockets
      PROVE  OwnWork(r)'
  <2> DEFINE j == link[s].judge
  <2>1. CASE r # s
    <3>1. link[r].at # "idle" /\ link[r].judge = j => j \in mixed
      BY <1>01, <2>1, StatusFacts DEF StatusInv, OneEach, Connections
    <3>2. link[r].at # "idle" /\ link[r].judge # j => versions'[link[r].judge] = versions[link[r].judge]
      BY StatusFacts DEF StatusInv, StatusTypes
    <3> QED
      BY <1>02, <2>1, <3>1, <3>2 DEF StatusInv, OwnWork
  <2>2. CASE r = s /\ j \notin mixed
    <3>1. runtimes[j] = DOMAIN link[s].report /\ versions[j] = {}
      BY <1>01, <2>2 DEF StatusInv, OwnWork
    <3> DEFINE own == link[s].report
    <3>2. own = [l \in runtimes[j] |-> own[l]]
      <4>1. own \in Reports
        BY <1>01
      <4>2. own = [l \in DOMAIN own |-> own[l]]
        <5> HIDE DEF own
        <5> QED
          BY <4>1, StatusAssumption DEF StatusAssumption
      <4> QED
        BY <3>1, <4>2
    <3>3. versions'[j] = {<<s, link[s].report>>} /\ link'[s].at = "created"
      BY <1>01, <3>1, <3>2 DEF StatusInv, StatusTypes
    <3> QED
      BY <1>02, <2>2, <3>1, <3>3 DEF OwnWork
  <2> QED
    BY <1>02, <2>1, <2>2 DEF OwnWork
<1> QED
  BY <1>1, <1>2, <1>3, <1>4, <1>5, <1>6 DEF StatusInv

\* The save marks the judge online.
LEMMA SaveJudgeKeeps ==
  ASSUME StatusInv, NEW s \in Sockets, SaveJudge(s)
  PROVE  StatusInv'
<1> USE DEF SaveJudge, Turns
<1>0. Followed \subseteq Machines
  BY StatusAssumption DEF StatusAssumption
<1>1. StatusTypes'
  BY <1>0, StatusFacts DEF StatusInv, StatusTypes, LinkStates, Unconnected, NoForm, Languages
<1>2. DownIsIdle'
  BY StatusFacts DEF StatusInv, StatusTypes, DownIsIdle, Unconnected
<1>3. OneEach'
  BY <1>0, StatusFacts DEF StatusInv, StatusTypes, OneEach, Connections, DownIsIdle, Unconnected
<1>4. LeftIsOffline'
  BY <1>0, StatusFacts DEF StatusInv, StatusTypes, LeftIsOffline, Connections, DownIsIdle, Unconnected, NoForm
<1>5. PageIsWhole'
  BY DEF StatusInv, PageIsWhole
<1>6. ASSUME NEW r \in Sockets
      PROVE  OwnWork(r)'
  BY <1>0, StatusFacts DEF StatusInv, StatusTypes, OwnWork, OneEach, Connections, DownIsIdle, Unconnected, NoForm
<1> QED
  BY <1>1, <1>2, <1>3, <1>4, <1>5, <1>6 DEF StatusInv

\* The first statement of a disconnection marks it offline, ...
LEMMA GoOfflineKeeps ==
  ASSUME StatusInv, NEW s \in Sockets, GoOffline(s)
  PROVE  StatusInv'
<1> USE DEF GoOffline, Turns
<1>0. Followed \subseteq Machines
  BY StatusAssumption DEF StatusAssumption
<1>1. StatusTypes'
  <2>1. /\ link[s] \in [at : LinkStates \ {"idle"}, judge : Followed, report : Reports, blocked : BOOLEAN]
        /\ row[link[s].judge] \in [online : BOOLEAN, is_blocked : BOOLEAN]
    BY <1>0, StatusFacts DEF StatusInv, StatusTypes
  <2>2. link'[s] = [link[s] EXCEPT !.at = "leaving"]
    BY DEF StatusInv, StatusTypes
  <2>3. link'[s] \in [at : LinkStates \ {"idle"}, judge : Followed, report : Reports, blocked : BOOLEAN]
    BY <2>1, <2>2 DEF LinkStates
  <2>4. row' \in [Machines -> [online : BOOLEAN, is_blocked : BOOLEAN]]
    BY <2>1 DEF StatusInv, StatusTypes
  <2> QED
    BY <2>3, <2>4 DEF StatusInv, StatusTypes
<1>2. DownIsIdle'
  BY StatusFacts DEF StatusInv, StatusTypes, DownIsIdle, Unconnected
<1>3. OneEach'
  BY <1>0, StatusFacts DEF StatusInv, StatusTypes, OneEach, Connections, DownIsIdle, Unconnected
<1>4. LeftIsOffline'
  BY <1>0, StatusFacts DEF StatusInv, StatusTypes, LeftIsOffline, Connections, DownIsIdle, Unconnected, NoForm
<1>5. PageIsWhole'
  BY DEF StatusInv, PageIsWhole
<1>6. ASSUME NEW r \in Sockets
      PROVE  OwnWork(r)'
  BY <1>0, StatusFacts DEF StatusInv, StatusTypes, OwnWork, OneEach, Connections, DownIsIdle, Unconnected, NoForm
<1> QED
  BY <1>1, <1>2, <1>3, <1>4, <1>5, <1>6 DEF StatusInv

\* ... and the thread ends with the second.
LEMMA ClearVersionsKeeps ==
  ASSUME StatusInv, NEW s \in Sockets, ClearVersions(s)
  PROVE  StatusInv'
<1> USE DEF ClearVersions
<1>0. Followed \subseteq Machines
  BY StatusAssumption DEF StatusAssumption
<1>1. StatusTypes'
  BY <1>0, StatusFacts DEF StatusInv, StatusTypes, LinkStates, Unconnected, NoForm, Languages
<1>2. DownIsIdle'
  BY StatusFacts DEF StatusInv, StatusTypes, DownIsIdle, Unconnected
<1>3. OneEach'
  BY <1>0, StatusFacts DEF StatusInv, StatusTypes, OneEach, Connections, DownIsIdle, Unconnected
<1>4. LeftIsOffline'
  BY <1>0, StatusFacts DEF StatusInv, StatusTypes, LeftIsOffline, Connections, DownIsIdle, Unconnected, NoForm
<1>5. PageIsWhole'
  BY DEF StatusInv, PageIsWhole
<1>6. ASSUME NEW r \in Sockets
      PROVE  OwnWork(r)'
  BY <1>0, StatusFacts DEF StatusInv, StatusTypes, OwnWork, OneEach, Connections, DownIsIdle, Unconnected, NoForm
<1> QED
  BY <1>1, <1>2, <1>3, <1>4, <1>5, <1>6 DEF StatusInv

\* A bridge that dies takes its threads along, and says nothing of rows.
LEMMA KillBridgeKeeps ==
  ASSUME StatusInv, KillBridge
  PROVE  StatusInv'
<1> USE DEF KillBridge
<1>0. Followed \subseteq Machines
  BY StatusAssumption DEF StatusAssumption
<1>1. StatusTypes'
  BY <1>0, StatusFacts DEF StatusInv, StatusTypes, LinkStates, Unconnected, NoForm, Languages
<1>2. DownIsIdle'
  BY StatusFacts DEF StatusInv, StatusTypes, DownIsIdle, Unconnected
<1>3. OneEach'
  BY <1>0, StatusFacts DEF StatusInv, StatusTypes, OneEach, Connections, DownIsIdle, Unconnected
<1>4. LeftIsOffline'
  BY <1>0, StatusFacts DEF StatusInv, StatusTypes, LeftIsOffline, Connections, DownIsIdle, Unconnected, NoForm
<1>5. PageIsWhole'
  BY DEF StatusInv, PageIsWhole
<1>6. ASSUME NEW r \in Sockets
      PROVE  OwnWork(r)'
  BY <1>0, StatusFacts DEF StatusInv, StatusTypes, OwnWork, OneEach, Connections, DownIsIdle, Unconnected, NoForm
<1> QED
  BY <1>1, <1>2, <1>3, <1>4, <1>5, <1>6 DEF StatusInv

\* One that starts marks all rows offline.
LEMMA StartBridgeKeeps ==
  ASSUME StatusInv, StartBridge
  PROVE  StatusInv'
<1> USE DEF StartBridge
<1>0. Followed \subseteq Machines
  BY StatusAssumption DEF StatusAssumption
<1>1. StatusTypes'
  BY <1>0, StatusFacts DEF StatusInv, StatusTypes, LinkStates, Unconnected, NoForm, Languages
<1>2. DownIsIdle'
  BY StatusFacts DEF StatusInv, StatusTypes, DownIsIdle, Unconnected
<1>3. OneEach'
  BY <1>0, StatusFacts DEF StatusInv, StatusTypes, OneEach, Connections, DownIsIdle, Unconnected
<1>4. LeftIsOffline'
  BY <1>0, StatusFacts DEF StatusInv, StatusTypes, LeftIsOffline, Connections, DownIsIdle, Unconnected, NoForm
<1>5. PageIsWhole'
  BY DEF StatusInv, PageIsWhole
<1>6. ASSUME NEW r \in Sockets
      PROVE  OwnWork(r)'
  BY <1>0, StatusFacts DEF StatusInv, StatusTypes, OwnWork, OneEach, Connections, DownIsIdle, Unconnected, NoForm
<1> QED
  BY <1>1, <1>2, <1>3, <1>4, <1>5, <1>6 DEF StatusInv

\* A form that is read changes no row.
LEMMA ReadFormKeeps ==
  ASSUME StatusInv, NEW j \in Followed, ReadForm(j)
  PROVE  StatusInv'
<1> USE DEF ReadForm
<1>0. Followed \subseteq Machines
  BY StatusAssumption DEF StatusAssumption
<1>1. StatusTypes'
  BY <1>0, StatusFacts DEF StatusInv, StatusTypes, LinkStates, Unconnected, NoForm, Languages
<1>2. DownIsIdle'
  BY StatusFacts DEF StatusInv, StatusTypes, DownIsIdle, Unconnected
<1>3. OneEach'
  BY <1>0, StatusFacts DEF StatusInv, StatusTypes, OneEach, Connections, DownIsIdle, Unconnected
<1>4. LeftIsOffline'
  BY <1>0, StatusFacts DEF StatusInv, StatusTypes, LeftIsOffline, Connections, DownIsIdle, Unconnected, NoForm
<1>5. PageIsWhole'
  BY DEF StatusInv, PageIsWhole
<1>6. ASSUME NEW r \in Sockets
      PROVE  OwnWork(r)'
  BY <1>0, StatusFacts DEF StatusInv, StatusTypes, OwnWork, OneEach, Connections, DownIsIdle, Unconnected, NoForm
<1> QED
  BY <1>1, <1>2, <1>3, <1>4, <1>5, <1>6 DEF StatusInv

\* A form that is saved over what changed since spoils its row.
LEMMA SaveFormKeeps ==
  ASSUME StatusInv, NEW b \in BOOLEAN, SaveForm(b)
  PROVE  StatusInv'
<1> USE DEF SaveForm
<1>0. Followed \subseteq Machines
  BY StatusAssumption DEF StatusAssumption
<1>1. StatusTypes'
  BY <1>0, StatusFacts DEF StatusInv, StatusTypes, LinkStates, Unconnected, NoForm, Languages
<1>2. DownIsIdle'
  BY StatusFacts DEF StatusInv, StatusTypes, DownIsIdle, Unconnected
<1>3. OneEach'
  BY <1>0, StatusFacts DEF StatusInv, StatusTypes, OneEach, Connections, DownIsIdle, Unconnected
<1>4. LeftIsOffline'
  BY <1>0, StatusFacts DEF StatusInv, StatusTypes, LeftIsOffline, Connections, DownIsIdle, Unconnected, NoForm
<1>5. PageIsWhole'
  BY DEF StatusInv, PageIsWhole
<1>6. ASSUME NEW r \in Sockets
      PROVE  OwnWork(r)'
  BY <1>0, StatusFacts DEF StatusInv, StatusTypes, OwnWork, OneEach, Connections, DownIsIdle, Unconnected, NoForm
<1> QED
  BY <1>1, <1>2, <1>3, <1>4, <1>5, <1>6 DEF StatusInv


\* Whoever moves: a thread, the bridge, an administrator, or who loads the page.
LEMMA StatusStep ==
  ASSUME StatusInv, [StatusNext]_svars
  PROVE  StatusInv'
<1>1. CASE StatusNext
  <2>1. ASSUME StatusInit, NEW here \in SUBSET Machines, NEW matrix \in [here -> Reports], VersionMatrix(matrix)
        PROVE  StatusInv'
    <3>1. page' = [matrix |-> matrix, lines |-> version_matrix(matrix)]
      BY <2>1 DEF VersionMatrix
    <3>2. PageIsWhole'
      <4>1. page'.matrix = matrix /\ page'.lines = version_matrix(matrix) /\ DOMAIN matrix \subseteq Machines
        BY <2>1, <3>1
      <4> QED
        BY <4>1, MatrixIsWhole DEF PageIsWhole
    <3> QED
      BY <2>1, <3>2 DEF VersionMatrix, StatusInv, StatusTypes, DownIsIdle, OneEach, OwnWork, LeftIsOffline,
                        Connections
  <2> QED
    BY <1>1, <2>1, LetInKeeps, SetRuntimesKeeps, DeleteVersionsKeeps, CreateVersionsKeeps, SaveJudgeKeeps,
       GoOfflineKeeps, ClearVersionsKeeps, KillBridgeKeeps, StartBridgeKeeps, ReadFormKeeps, SaveFormKeeps
       DEF StatusNext
<1>2. CASE UNCHANGED svars
  BY <1>2 DEF svars, StatusInv, StatusTypes, DownIsIdle, OneEach, OwnWork, LeftIsOffline, Connections, PageIsWhole
<1> QED
  BY <1>1, <1>2

\* It holds of a site with no judge online.
LEMMA StatusBegins ==
  ASSUME StatusInit
  PROVE  StatusInv
BY DEF StatusInit, StatusInv, StatusTypes, DownIsIdle, OneEach, OwnWork, LeftIsOffline, Connections,
       PageIsWhole, NoPage, Unconnected

\* The site tells the truth about its judges: whoever is connected and at rest is
\* online with its versions, whoever is not is offline, and the page of versions
\* has what each judge has, for any judges, connections, reports and forms.
THEOREM StatusStaysTrue == StatusSpec => []StatusIsTrue
<1>1. StatusInv => StatusIsTrue
  <2> SUFFICES ASSUME StatusInv, daemon, NEW j \in Machines \ spoiled, Quiet(j)
               PROVE  /\ Connections(j) = {} => ~row[j].online
                      /\ j \notin mixed => \A s \in Connections(j) :
                           row[j].online /\ versions[j] = {<<s, link[s].report>>}
    BY DEF StatusIsTrue, RowsAreTrue, StatusInv
  <2> QED
    BY DEF StatusInv, LeftIsOffline, OwnWork, Quiet, Connections
<1> QED
  BY <1>1, StatusBegins, StatusStep, PTL DEF StatusSpec
====
