----------------------------- MODULE JudgeBridge -----------------------------
(***************************************************************************)
(* The road of a submission: the web processes that submit, rejudge and    *)
(* abort (judge/judgeapi.py), the bridge with one handler thread per judge *)
(* connection (judge/bridge/judge_handler.py) around the JudgeList, the    *)
(* judge servers behind the connections, and the database rows all of      *)
(* them write.                                                             *)
(*                                                                         *)
(* A step is one call under the lock of the list, or one statement of the  *)
(* database: these are the points between which threads and processes      *)
(* interleave.  The judge servers are not in this repository; they do here *)
(* what the handlers are written for, and a packet is handled by the step  *)
(* that produces it, since nothing else reads the stream it came on.       *)
(***************************************************************************)
EXTENDS JudgeList

CONSTANTS
  Webs,       \* web and celery processes, each with one call of judgeapi at a time
  InContest,  \* submissions linked to a contest problem
  Wanted,     \* what the judge field of the submit form may hold
  Declared,   \* the lists of problems a judge may declare
  NumCases,   \* test cases of every problem
  Verdicts,   \* the reports judges end a submission with, subset of Final
  WebOps,     \* subset of {"rejudge", "batch", "abort"}: the calls besides submit
  Faults      \* what may go wrong, see below

(***************************************************************************)
(* reset     - a send to a judge that hung up may raise                    *)
(* shutdown  - the bridge closes connections itself (forced disconnect of  *)
(*             an admin, a ping that fails)                                *)
(* database  - the queries of submit may raise                             *)
(* vanish    - rows of submissions are deleted                             *)
(* misack    - a judge acknowledges an id it was not sent last             *)
(* crash     - the bridge dies and is started again                        *)
(* noreply   - the bridge's answer to a submission-request is lost         *)
(* noabort   - the bridge's answer to a terminate-submission is lost       *)
(* hangup    - judges hang up                                              *)
(***************************************************************************)
FaultKinds == {"reset", "shutdown", "database", "vanish", "misack", "crash",
               "noreply", "noabort", "hangup"}

ASSUME JudgeBridgeAssumption ==
  /\ InContest \subseteq Subs
  /\ Wanted \subseteq Names \cup {AnyJudge}
  /\ Declared \subseteq SUBSET Problems
  /\ NumCases \in Nat \ {0}
  /\ Verdicts \subseteq {"D", "CE", "IE", "AB"}
  /\ WebOps \subseteq {"rejudge", "batch", "abort"}
  /\ Faults \subseteq FaultKinds
  /\ LastPriority = 3
  /\ Faults \cap {"reset", "shutdown", "vanish"} # {} => "late" \in Outcomes
  /\ "database" \in Faults => "early" \in Outcomes

VARIABLES
  status,   \* Submission.status; "new": not submitted yet, "gone": deleted
  cases,    \* how many SubmissionTestCase rows the submission has
  counted,  \* how many of them its last grading-end added up
  online,   \* Judge.online, by name
  progress, \* how far a judge is with an id it holds, see the handlers
  killing,  \* a terminate-submission reached the judge
  socket,   \* open, reset (the judge hung up) or shut (by the bridge)
  thread,   \* where each handler thread is, and with which id
  web,      \* where each web process is, and with which request
  up        \* the bridge process runs

dbVars == <<status, cases, counted, online>>
judgeVars == <<progress, killing, socket>>
vars == <<listVars, dbVars, judgeVars, thread, web, up>>

InProgress == {"QU", "P", "G"}
Final == {"D", "CE", "IE", "AB"}
HasRow(s) == status[s] \notin {"new", "gone"}

NoRequest == [at |-> "idle", sub |-> NoSub, judge_id |-> AnyJudge, priority |-> 0]
Resting == [at |-> "idle", sub |-> NoSub, seen |-> 0]

ThreadStates == {"new", "connected", "idle", "clear", "mis_got", "mis_processing",
                 "read", "D", "CE", "IE", "AB", "offline", "fail", "dead"}
WebStates == {"idle", "update", "clear", "request", "failed", "aborted"}

BridgeTypeOK ==
  /\ TypeOK
  /\ status \in [Subs -> {"new", "gone"} \cup InProgress \cup Final]
  /\ cases \in [Subs -> Nat]
  /\ counted \in [Subs -> Nat]
  /\ online \in [Names -> BOOLEAN]
  /\ progress \in [Conns -> [Subs -> 0..(2 + NumCases)]]
  /\ killing \in [Conns -> BOOLEAN]
  /\ socket \in [Conns -> {"open", "reset", "shut"}]
  /\ thread \in [Conns -> [at : ThreadStates, sub : Subs \cup {NoSub}, seen : Nat]]
  /\ web \in [Webs -> [at : WebStates, sub : Subs \cup {NoSub},
                       judge_id : Names \cup {AnyJudge}, priority : Priorities]]
  /\ up \in BOOLEAN

BridgeInit ==
  /\ Init
  /\ status = [s \in Subs |-> "new"]
  /\ cases = [s \in Subs |-> 0]
  /\ counted = [s \in Subs |-> 0]
  /\ online = [n \in Names |-> FALSE]
  /\ progress = [c \in Conns |-> [s \in Subs |-> 0]]
  /\ killing = [c \in Conns |-> FALSE]
  /\ socket = [c \in Conns |-> "open"]
  /\ thread = [c \in Conns |-> [Resting EXCEPT !.at = "new"]]
  /\ web = [w \in Webs |-> NoRequest]
  /\ up = TRUE

-----------------------------------------------------------------------------
(* Database statements: an UPDATE of a row that is gone does nothing *)

Write(s, st) == status' = IF s \in Subs /\ HasRow(s) THEN [status EXCEPT ![s] = st] ELSE status

GoTo(c, at, s, seen) == thread' = [thread EXCEPT ![c] = [at |-> at, sub |-> s, seen |-> seen]]
Rest(c) == GoTo(c, "idle", NoSub, 0)

\* The ways in which submit(s) may end on connection c, given socket and row.
SubmitEnds == [c \in Conns |-> [s \in Subs |->
  {o \in Outcomes :
     CASE o = "early" -> "database" \in Faults
       [] o = "late"  -> \/ ~HasRow(s)
                         \/ socket[c] = "shut"
                         \/ socket[c] = "reset" /\ "reset" \in Faults
       [] o = "sent"  -> HasRow(s) /\ socket[c] # "shut"}]]

\* The handler thread of c is between two packets.
Ready(c) == up /\ thread[c].at = "idle" /\ ~updating[c]

\* The judge behind c holds s and has come as far as the given stage with it:
\* 0 sent, 1 acknowledged, 2 begun, 2 + k after k test cases.
AtStage(c, s, stage) == Ready(c) /\ s \in at_judge[c] /\ progress[c][s] = stage

Advance(c, s) == progress' = [progress EXCEPT ![c][s] = @ + 1]

-----------------------------------------------------------------------------
(* The handler of a judge connection: connecting *)

\* on_handshake up to the end of register
Handshake(c) ==
  /\ up
  /\ thread[c].at = "new"
  /\ \E declared \in Declared : Register(c, declared, SubmitEnds)
  /\ GoTo(c, "connected", NoSub, 0)
  /\ UNCHANGED <<dbVars, judgeVars, web, up>>

\* _connected, after the judge is already in the pool
Connected(c) ==
  /\ up
  /\ thread[c].at = "connected"
  /\ online' = [online EXCEPT ![NameOf[c]] = TRUE]
  /\ Rest(c)
  /\ UNCHANGED <<listVars, status, cases, counted, judgeVars, web, up>>

\* on_supported_problems, first half
SupportedProblems(c) ==
  /\ Ready(c)
  /\ \E declared \in Declared : DeclareProblems(c, declared)
  /\ UNCHANGED <<dbVars, judgeVars, thread, web, up>>

\* on_supported_problems, second half
SupportedProblemsUpdate(c) ==
  /\ up
  /\ UpdateProblems(c, SubmitEnds)
  /\ UNCHANGED <<dbVars, judgeVars, thread, web, up>>

-----------------------------------------------------------------------------
(* The handler of a judge connection: one submission *)

\* on_submission_acknowledged of the id the handler works on.  It comes
\* however late: the timer submit makes for it is never started.
Acknowledged(c, s) ==
  /\ AtStage(c, s, 0)
  /\ s = working[c]
  /\ Write(s, "P")
  /\ Advance(c, s)
  /\ UNCHANGED <<listVars, cases, counted, online, killing, socket, thread, web, up>>

\* on_submission_acknowledged of another id: on_submission_wrong_acknowledge
WrongAcknowledged(c, s, got) ==
  /\ AtStage(c, s, 0)
  /\ got # working[c]
  /\ got = s \/ "misack" \in Faults
  /\ Write(working[c], "IE")
  /\ Advance(c, s)
  /\ GoTo(c, "mis_got", got, 0)
  /\ UNCHANGED <<listVars, cases, counted, online, killing, socket, web, up>>

\* ... its second UPDATE, then close(), which raises when the peer is gone
WrongAcknowledgedGot(c) ==
  LET got == thread[c].sub IN
  /\ up
  /\ thread[c].at = "mis_got"
  /\ IF status[got] = "QU" THEN Write(got, "IE") ELSE UNCHANGED status
  /\ \/ socket' = [socket EXCEPT ![c] = "shut"] /\ GoTo(c, "mis_processing", got, 0)
     \/ socket[c] = "reset" /\ UNCHANGED socket /\ Rest(c)
  /\ UNCHANGED <<listVars, cases, counted, online, progress, killing, web, up>>

\* ... and then the handler goes on to on_submission_processing
WrongAcknowledgedProcessing(c) ==
  /\ up
  /\ thread[c].at = "mis_processing"
  /\ Write(thread[c].sub, "P")
  /\ Rest(c)
  /\ UNCHANGED <<listVars, cases, counted, online, judgeVars, web, up>>

\* on_grading_begin
GradingBegin(c, s) ==
  /\ AtStage(c, s, 1)
  /\ Write(s, "G")
  /\ Advance(c, s)
  /\ IF HasRow(s) THEN GoTo(c, "clear", s, 0) ELSE UNCHANGED thread
  /\ UNCHANGED <<listVars, cases, counted, online, killing, socket, web, up>>

\* Broken: the test cases of an earlier run stay.
GradingBeginKeeps(c) ==
  /\ up
  /\ thread[c].at = "clear"
  /\ Rest(c)
  /\ UNCHANGED <<listVars, dbVars, judgeVars, web, up>>

\* ... its DELETE of the test cases
GradingBeginClear(c) ==
  /\ up
  /\ thread[c].at = "clear"
  /\ cases' = [cases EXCEPT ![thread[c].sub] = 0]
  /\ Rest(c)
  /\ UNCHANGED <<listVars, status, counted, online, judgeVars, web, up>>

\* Broken: a case that is too much for the rate of events is not stored either.
TestCaseRated(c, s) ==
  /\ \E k \in 0..(NumCases - 1) : AtStage(c, s, 2 + k)
  /\ cases' = IF HasRow(s) /\ cases[s] = 0 THEN [cases EXCEPT ![s] = @ + 1] ELSE cases
  /\ Advance(c, s)
  /\ UNCHANGED <<listVars, status, counted, online, killing, socket, thread, web, up>>

\* on_test_case
TestCase(c, s) ==
  /\ \E k \in 0..(NumCases - 1) : AtStage(c, s, 2 + k)
  /\ cases' = IF HasRow(s) THEN [cases EXCEPT ![s] = @ + 1] ELSE cases
  /\ Advance(c, s)
  /\ UNCHANGED <<listVars, status, counted, online, killing, socket, thread, web, up>>

\* when the judge sends grading-end, compile-error, internal-error and
\* submission-terminated
MayReport(c, s, verdict) ==
  CASE verdict = "D"  -> progress[c][s] = 2 + NumCases
    [] verdict = "CE" -> progress[c][s] = 1
    [] verdict = "IE" -> progress[c][s] > 0
    [] verdict = "AB" -> progress[c][s] > 0 /\ killing[c]

\* Broken: a submission that was terminated does not free its judge.
ReportKeepsWorking(c, s, verdict) ==
  /\ Ready(c)
  /\ s \in at_judge[c]
  /\ MayReport(c, s, verdict)
  /\ IF verdict = "AB"
     THEN /\ at_judge' = [at_judge EXCEPT ![c] = @ \ {s}]
          /\ UNCHANGED <<queue, node_map, submission_map, judges, working, problems, life, updating>>
     ELSE OnJudgeFree(c, s, SubmitEnds)
  /\ progress' = [progress EXCEPT ![c][s] = 0]
  /\ killing' = [killing EXCEPT ![c] = @ /\ at_judge[c] # {s}]
  /\ GoTo(c, IF verdict = "D" THEN "read" ELSE verdict, s, 0)
  /\ UNCHANGED <<dbVars, socket, web, up>>

\* on_grading_end, on_compile_error, on_internal_error and
\* on_submission_terminated begin with _free_self.  When that raises, on_packet
\* logs it and the verdict is lost.  A terminate-submission names no id: it is
\* spent when the judge has nothing left.
Report(c, s, verdict) ==
  /\ Ready(c)
  /\ s \in at_judge[c]
  /\ MayReport(c, s, verdict)
  /\ OnJudgeFree(c, s, SubmitEnds)
  /\ progress' = [progress EXCEPT ![c][s] = 0]
  /\ killing' = [killing EXCEPT ![c] = @ /\ at_judge[c] # {s}]
  /\ LET raised == \/ submission_map[s] = NoConn
                   \/ /\ c \notin judges
                      /\ ~NothingFor(c, problems[c])
                      /\ UNCHANGED node_map
     IN IF raised THEN UNCHANGED thread
        ELSE GoTo(c, IF verdict = "D" THEN "read" ELSE verdict, s, 0)
  /\ UNCHANGED <<dbVars, socket, web, up>>

\* on_grading_end: the row and its test cases are read
GradingEndRead(c) ==
  LET s == thread[c].sub IN
  /\ up
  /\ thread[c].at = "read"
  /\ IF HasRow(s) THEN GoTo(c, "D", s, cases[s]) ELSE Rest(c)
  /\ UNCHANGED <<listVars, dbVars, judgeVars, web, up>>

\* on_grading_end saves the whole row, and makes it anew if it was deleted
GradingEndSave(c) ==
  /\ up
  /\ thread[c].at = "D"
  /\ status' = [status EXCEPT ![thread[c].sub] = "D"]
  /\ counted' = [counted EXCEPT ![thread[c].sub] = thread[c].seen]
  /\ Rest(c)
  /\ UNCHANGED <<listVars, cases, online, judgeVars, web, up>>

\* the UPDATE of the three other reports
WriteVerdict(c) ==
  /\ up
  /\ thread[c].at \in {"CE", "IE", "AB"}
  /\ Write(thread[c].sub, thread[c].at)
  /\ Rest(c)
  /\ UNCHANGED <<listVars, cases, counted, online, judgeVars, web, up>>

-----------------------------------------------------------------------------
(* The handler of a judge connection: losing it *)

HangUp(c) ==
  /\ "hangup" \in Faults
  /\ life[c] = "on"
  /\ socket[c] = "open"
  /\ socket' = [socket EXCEPT ![c] = "reset"]
  /\ UNCHANGED <<listVars, dbVars, progress, killing, thread, web, up>>

\* disconnect with force, for each judge of the pool with the name
ForceDisconnect(n) ==
  /\ "shutdown" \in Faults
  /\ up
  /\ \E c \in judges : NameOf[c] = n /\ socket[c] # "shut"
  /\ socket' = [c \in Conns |-> IF c \in judges /\ NameOf[c] = n THEN "shut" ELSE socket[c]]
  /\ UNCHANGED <<listVars, dbVars, progress, killing, thread, web, up>>

\* Broken: it takes the judge out of the pool as well, without the lock.
PingDiscards(c) ==
  /\ "shutdown" \in Faults
  /\ up
  /\ life[c] = "on"
  /\ socket[c] = "reset"
  /\ socket' = [socket EXCEPT ![c] = "shut"]
  /\ judges' = judges \ {c}
  /\ UNCHANGED <<queue, node_map, submission_map, working, problems, life, updating, at_judge,
                 dbVars, progress, killing, thread, web, up>>

\* _ping_thread closes the connection when a ping cannot be sent
PingFails(c) ==
  /\ "shutdown" \in Faults
  /\ up
  /\ life[c] = "on"
  /\ socket[c] = "reset"
  /\ socket' = [socket EXCEPT ![c] = "shut"]
  /\ UNCHANGED <<listVars, dbVars, progress, killing, thread, web, up>>

\* on_disconnect up to judges.remove
Disconnect(c) ==
  /\ Ready(c)
  /\ socket[c] # "open"
  /\ Remove(c)
  /\ killing' = [killing EXCEPT ![c] = FALSE]
  /\ progress' = [progress EXCEPT ![c] = [s \in Subs |-> 0]]
  /\ GoTo(c, "offline", NoSub, 0)
  /\ UNCHANGED <<dbVars, socket, web, up>>

\* ... _disconnected
DisconnectOffline(c) ==
  /\ up
  /\ thread[c].at = "offline"
  /\ online' = [online EXCEPT ![NameOf[c]] = FALSE]
  /\ GoTo(c, "fail", NoSub, 0)
  /\ UNCHANGED <<listVars, status, cases, counted, judgeVars, web, up>>

\* Broken: the submission of a judge that left is not marked.
DisconnectSilently(c) ==
  /\ up
  /\ thread[c].at = "fail"
  /\ GoTo(c, "dead", NoSub, 0)
  /\ UNCHANGED <<listVars, dbVars, judgeVars, web, up>>

\* ... and the UPDATE of the submission it was working on, wherever that is now
DisconnectFail(c) ==
  /\ up
  /\ thread[c].at = "fail"
  /\ Write(working[c], "IE")
  /\ GoTo(c, "dead", NoSub, 0)
  /\ UNCHANGED <<listVars, cases, counted, online, judgeVars, web, up>>

\* The bridge process dies with all its threads.
Crash ==
  /\ "crash" \in Faults
  /\ up
  /\ up' = FALSE
  /\ Restart
  /\ thread' = [c \in Conns |-> IF thread[c].at = "new" THEN thread[c]
                                ELSE [Resting EXCEPT !.at = "dead"]]
  /\ killing' = [c \in Conns |-> FALSE]
  /\ progress' = [c \in Conns |-> [s \in Subs |-> 0]]
  /\ UNCHANGED <<dbVars, socket, web>>

\* Broken: what was in progress when the last bridge died is left alone.
StartAsLeft ==
  /\ ~up
  /\ up' = TRUE
  /\ online' = [n \in Names |-> FALSE]
  /\ UNCHANGED <<listVars, status, cases, counted, judgeVars, thread, web>>

\* judge_daemon
Start ==
  /\ ~up
  /\ up' = TRUE
  /\ online' = [n \in Names |-> FALSE]
  /\ status' = [s \in Subs |-> IF status[s] \in InProgress THEN "IE" ELSE status[s]]
  /\ UNCHANGED <<listVars, cases, counted, judgeVars, thread, web>>

-----------------------------------------------------------------------------
(* The web processes *)

Await(w, at) == web' = [web EXCEPT ![w].at = at]
Return(w) == web' = [web EXCEPT ![w] = NoRequest]

\* ProblemSubmit creates the row and calls judge
Submit(w, s) ==
  /\ web[w].at = "idle"
  /\ status[s] = "new"
  /\ status' = [status EXCEPT ![s] = "QU"]
  /\ \E j \in Wanted :
       web' = [web EXCEPT ![w] = [at |-> "update", sub |-> s, judge_id |-> j,
                                  priority |-> IF s \in InContest THEN 0 ELSE 1]]
  /\ UNCHANGED <<listVars, cases, counted, online, judgeVars, thread, up>>

\* a rejudge, of one submission or by rejudge_problem_filter
Rejudge(w, s, kind) ==
  /\ web[w].at = "idle"
  /\ HasRow(s)
  /\ kind \in WebOps
  /\ web' = [web EXCEPT ![w] = [at |-> "update", sub |-> s, judge_id |-> AnyJudge,
                                priority |-> IF kind = "batch" THEN 3 ELSE 2]]
  /\ UNCHANGED <<listVars, dbVars, judgeVars, thread, up>>

\* judge_submission: the conditional UPDATE, which leaves P and G alone
UpdateRow(w) ==
  LET s == web[w].sub IN
  /\ web[w].at = "update"
  /\ \/ /\ HasRow(s) /\ status[s] \notin {"P", "G"}
        /\ Write(s, "QU")
        /\ counted' = [counted EXCEPT ![s] = 0]
        /\ Await(w, "clear")
     \/ /\ ~HasRow(s) \/ status[s] \in {"P", "G"}
        /\ Return(w)
        /\ UNCHANGED <<status, counted>>
  /\ UNCHANGED <<listVars, cases, online, judgeVars, thread, up>>

\* ... the DELETE of its test cases
ClearRow(w) ==
  /\ web[w].at = "clear"
  /\ cases' = [cases EXCEPT ![web[w].sub] = 0]
  /\ Await(w, "request")
  /\ UNCHANGED <<listVars, status, counted, online, judgeVars, thread, up>>

\* ... judge_request and, in the bridge, DjangoHandler.on_submission
Request(w) ==
  /\ web[w].at = "request"
  /\ up
  /\ Judge(web[w].sub, web[w].judge_id, web[w].priority, SubmitEnds)
  /\ Return(w) \/ ("noreply" \in Faults /\ Await(w, "failed"))
  /\ UNCHANGED <<dbVars, judgeVars, thread, up>>

RequestFails(w) ==
  /\ web[w].at = "request"
  /\ ~up
  /\ Await(w, "failed")
  /\ UNCHANGED <<listVars, dbVars, judgeVars, thread, up>>

\* ... and its except clause
MarkFailed(w) ==
  /\ web[w].at = "failed"
  /\ Write(web[w].sub, "IE")
  /\ Return(w)
  /\ UNCHANGED <<listVars, cases, counted, online, judgeVars, thread, up>>

\* abort_submission: the request and, in the bridge, DjangoHandler.on_termination
AskAbort(w, s) ==
  /\ web[w].at = "idle"
  /\ "abort" \in WebOps
  /\ HasRow(s)
  /\ up
  /\ \/ /\ submission_map[s] # NoConn
        /\ LET c == submission_map[s] IN
             killing' = [killing EXCEPT ![c] = @ \/ (socket[c] # "shut" /\ at_judge[c] # {})]
        /\ UNCHANGED <<listVars, web>>
     \/ /\ submission_map[s] = NoConn
        /\ Abort(s) \/ (s \notin node_map /\ UNCHANGED listVars)
        /\ \/ web' = [web EXCEPT ![w] = [at |-> "aborted", sub |-> s,
                                         judge_id |-> AnyJudge, priority |-> 0]]
           \/ "noabort" \in Faults /\ UNCHANGED web
        /\ UNCHANGED killing
  /\ UNCHANGED <<dbVars, progress, socket, thread, up>>

\* ... the UPDATE, when the bridge said that no judge aborts it
MarkAborted(w) ==
  /\ web[w].at = "aborted"
  /\ Write(web[w].sub, "AB")
  /\ Return(w)
  /\ UNCHANGED <<listVars, cases, counted, online, judgeVars, thread, up>>

\* a submission is deleted, with its test cases
DeleteRow(s) ==
  /\ "vanish" \in Faults
  /\ HasRow(s)
  /\ status' = [status EXCEPT ![s] = "gone"]
  /\ cases' = [cases EXCEPT ![s] = 0]
  /\ counted' = [counted EXCEPT ![s] = 0]
  /\ UNCHANGED <<listVars, online, judgeVars, thread, web, up>>

-----------------------------------------------------------------------------
\* the steps a handler thread takes on its own, once it has begun
ThreadStep(c) ==
  \/ Connected(c)
  \/ SupportedProblemsUpdate(c)
  \/ WrongAcknowledgedGot(c)
  \/ WrongAcknowledgedProcessing(c)
  \/ GradingBeginClear(c)
  \/ GradingEndRead(c)
  \/ GradingEndSave(c)
  \/ WriteVerdict(c)
  \/ Disconnect(c)
  \/ DisconnectOffline(c)
  \/ DisconnectFail(c)

\* the steps a packet from a judge begins
JudgeStep(c, s) ==
  \/ Acknowledged(c, s)
  \/ \E got \in Subs : WrongAcknowledged(c, s, got)
  \/ GradingBegin(c, s)
  \/ TestCase(c, s)
  \/ \E verdict \in Verdicts : Report(c, s, verdict)

\* the steps a call of judgeapi takes, once it has begun
WebProcessStep(w) ==
  \/ UpdateRow(w)
  \/ ClearRow(w)
  \/ Request(w)
  \/ RequestFails(w)
  \/ MarkFailed(w)
  \/ MarkAborted(w)

BridgeNext ==
  \/ \E c \in Conns :
       \/ Handshake(c)
       \/ SupportedProblems(c)
       \/ ThreadStep(c)
       \/ \E s \in Subs : JudgeStep(c, s)
       \/ HangUp(c)
       \/ PingFails(c)
  \/ \E n \in Names : ForceDisconnect(n)
  \/ \E w \in Webs :
       \/ WebProcessStep(w)
       \/ \E s \in Subs :
            \/ Submit(w, s)
            \/ \E kind \in {"rejudge", "batch"} : Rejudge(w, s, kind)
            \/ AskAbort(w, s)
  \/ \E s \in Subs : DeleteRow(s)
  \/ Crash
  \/ Start

BridgeSpec == BridgeInit /\ [][BridgeNext]_vars

\* A handler thread goes on or, if it waits for a packet, its judge sends one it
\* owes.  Web processes and the supervisor that restarts the bridge go on.  No
\* one need submit, connect or hang up.
Fairness ==
  /\ \A c \in Conns : WF_vars(ThreadStep(c) \/ \E s \in Subs : JudgeStep(c, s))
  /\ \A w \in Webs : WF_vars(WebProcessStep(w))
  /\ WF_vars(Start)

FairBridgeSpec == BridgeSpec /\ Fairness

\* The same with judges that are connected, answer pings, and never answer
\* a submission.
SilentJudgeSpec ==
  /\ BridgeSpec
  /\ \A c \in Conns : WF_vars(ThreadStep(c))
  /\ \A w \in Webs : WF_vars(WebProcessStep(w))
  /\ WF_vars(Start)

-----------------------------------------------------------------------------
(* Properties *)

WithJudge(s) ==
  \E c \in Conns : submission_map[s] = c /\ life[c] = "on" /\ working[c] = s

\* a handler thread is about to write the row of s
WithThread(s) ==
  \E c \in Conns : \/ thread[c].sub = s
                   \/ thread[c].at \in {"offline", "fail"} /\ working[c] = s

WithWeb(s) == \E w \in Webs : web[w].at # "idle" /\ web[w].sub = s

\* A row that says QU, P or G is somebody's business: it waits in the list, a
\* judge has it, or a thread or process is on its way to write it.  Nothing
\* is shown as being judged that nobody judges.
InProgressHasOwner ==
  up => \A s \in Subs :
    /\ status[s] \in {"P", "G"} => WithJudge(s) \/ WithThread(s)
    /\ status[s] = "QU" => s \in node_map \/ WithJudge(s) \/ WithThread(s) \/ WithWeb(s)

\* The test cases of a submission are those of one run of its judge.
CasesOfOneRun == \A s \in Subs : cases[s] <= NumCases

\* A verdict is computed from all test cases of the run it ends.
VerdictIsComplete == \A s \in Subs : status[s] = "D" => counted[s] = NumCases

\* A judge that is told to terminate holds the submission it was told for.
\* (the packet names none: judge_handler.py, abort)
AbortHitsItsTarget ==
  [][\A w \in Webs, s \in Subs :
       AskAbort(w, s) /\ killing' # killing =>
         \A c \in Conns : killing'[c] /\ ~killing[c] => at_judge[c] = {s}]_vars

\* What is in progress comes to an end, as long as the pool has a judge for it.
EventuallyJudged ==
  \A s \in Subs :
    status[s] \in InProgress ~>
      \/ status[s] \notin InProgress
      \/ ~\E c \in judges : ProblemOf[s] \in problems[c]

\* A judge does not keep a submission: it reports, is freed of it, or leaves.
EventuallyFree == \A s \in Subs : WithJudge(s) ~> ~WithJudge(s)

\* The bridge uses its list only in the ways JudgeList allows its callers, so
\* what is proved of JudgeList holds in the bridge.
UsesListAsSpecified == Spec

-----------------------------------------------------------------------------
(* What the documents and comments say and the code does not do *)

\* docs 5.3, "Vigilant de 20 segons": a judge that does not acknowledge a
\* submission in time is disconnected and does not hold it for ever.
UnansweredIsDropped ==
  \A c \in Conns, s \in Subs :
    s \in at_judge[c] /\ progress[c][s] = 0 ~>
      s \notin at_judge[c] \/ progress[c][s] # 0 \/ socket[c] = "shut"
=============================================================================
