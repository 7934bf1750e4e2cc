------------------------------ MODULE JudgeList ------------------------------
(***************************************************************************)
(* The JudgeList of the bridge (judge/bridge/judge_list.py): the object    *)
(* every connection thread and every web request share, which holds the    *)
(* waiting submissions and decides which judge grades which one.           *)
(*                                                                         *)
(* Each method runs under one RLock, so each is one action here.  The      *)
(* callers are the handler threads of the judge connections, at most one   *)
(* call at a time per connection, and the threads that serve the web       *)
(* requests, which may call at any time.  JudgeBridge says when they do.   *)
(*                                                                         *)
(* A connection is one JudgeHandler object: a judge that reconnects is a   *)
(* new connection that may carry the name of an old one.                   *)
(***************************************************************************)
EXTENDS Integers, Sequences

CONSTANTS
  Subs,       \* submission ids
  Conns,      \* judge connections, each used once
  Names,      \* the names judges authenticate with
  NameOf,     \* the name each connection hands over in its handshake
  Problems,   \* what a judge may declare: a problem with a language
  ProblemOf,  \* what each submission needs from its judge
  Outcomes,   \* how JudgeHandler.submit may end, see Dispatch
  LastPriority, \* priorities - 1: the code has 4 markers, 0 is served first
  HotReload,  \* may a judge declare its problems again after the handshake?
  AnyJudge,   \* judge_id None: no particular judge was asked for
  NoSub,      \* _working False
  NoConn      \* an id that submission_map does not hold

Priorities == 0..LastPriority

ASSUME JudgeListAssumption ==
  /\ NameOf \in [Conns -> Names]
  /\ ProblemOf \in [Subs -> Problems]
  /\ Outcomes \subseteq {"sent", "early", "late"}
  /\ "sent" \in Outcomes
  /\ LastPriority \in Nat
  /\ HotReload \in BOOLEAN
  /\ NoSub \notin Subs
  /\ NoConn \notin Conns
  /\ AnyJudge \notin Names

VARIABLES
  queue,          \* the entries in front of each priority marker of the dllist
  node_map,       \* the keys of node_map: ids that have a node in the queue
  submission_map, \* which connection each id was last given to
  judges,         \* the pool new submissions are matched against
  working,        \* JudgeHandler._working of each connection
  problems,       \* JudgeHandler.problems and .executors of each connection
  life,           \* new, on (handshake done) or gone (removed from the list)
  updating,       \* inside on_supported_problems, past its check of .working
  at_judge        \* ids the judge behind a connection was sent and still has

listVars == <<queue, node_map, submission_map, judges, working, problems,
              life, updating, at_judge>>

Entry == [id : Subs, judge_id : Names \cup {AnyJudge}]

TypeOK ==
  /\ queue \in [Priorities -> Seq(Entry)]
  /\ node_map \subseteq Subs
  /\ submission_map \in [Subs -> Conns \cup {NoConn}]
  /\ judges \subseteq Conns
  /\ working \in [Conns -> Subs \cup {NoSub}]
  /\ problems \in [Conns -> SUBSET Problems]
  /\ life \in [Conns -> {"new", "on", "gone"}]
  /\ updating \in [Conns -> BOOLEAN]
  /\ at_judge \in [Conns -> SUBSET Subs]

Init ==
  /\ queue = [p \in Priorities |-> <<>>]
  /\ node_map = {}
  /\ submission_map = [s \in Subs |-> NoConn]
  /\ judges = {}
  /\ working = [c \in Conns |-> NoSub]
  /\ problems = [c \in Conns |-> {}]
  /\ life = [c \in Conns |-> "new"]
  /\ updating = [c \in Conns |-> FALSE]
  /\ at_judge = [c \in Conns |-> {}]

-----------------------------------------------------------------------------
(* Helpers *)

\* JudgeHandler.can_judge, for a judge that declared the set `declared'
CanJudge(c, declared, e) ==
  /\ ProblemOf[e.id] \in declared
  /\ e.judge_id \in {AnyJudge, NameOf[c]}

IsQueued(s) == \E p \in Priorities : \E i \in 1..Len(queue[p]) : queue[p][i].id = s

\* the walk of _handle_free_judge finds no node
NothingFor(c, declared) ==
  \A p \in Priorities : \A i \in 1..Len(queue[p]) : ~CanJudge(c, declared, queue[p][i])

\* the list is walked from its head: by priority, then by age
IsBefore(p, i, q, j) == p < q \/ (p = q /\ i < j)

\* The first entry of the walk that c can judge is entry i of priority p.
IsFirstFor(c, declared, p, i) ==
  /\ CanJudge(c, declared, queue[p][i])
  /\ \A q \in Priorities : \A j \in 1..Len(queue[q]) :
       IsBefore(q, j, p, i) => ~CanJudge(c, declared, queue[q][j])

Drop(seq, i) == [j \in 1..(Len(seq) - 1) |-> IF j < i THEN seq[j] ELSE seq[j + 1]]

RemoveNode(p, i) ==
  /\ queue' = [queue EXCEPT ![p] = Drop(@, i)]
  /\ node_map' = node_map \ {queue[p][i].id}

\* Broken: the map holds the judge's name.
DispatchByName(c, s, map, work, held, o) ==
  /\ submission_map' = [map EXCEPT ![s] = NameOf[c]]
  /\ working' = IF o = "early" THEN work ELSE [work EXCEPT ![c] = s]
  /\ at_judge' = IF o = "sent" THEN [held EXCEPT ![c] = @ \cup {s}] ELSE held

\* Broken: _working is not set.
DispatchUnrecorded(c, s, map, work, held, o) ==
  /\ submission_map' = [map EXCEPT ![s] = c]
  /\ working' = work
  /\ at_judge' = IF o = "sent" THEN [held EXCEPT ![c] = @ \cup {s}] ELSE held

(***************************************************************************)
(* JudgeHandler.submit.  `early': its queries raise before _working is     *)
(* set.  `late': the row is gone or the socket is closed, and it raises    *)
(* after _working was set.  The map was written before the call, and       *)
(* nothing takes it back.                                                  *)
(***************************************************************************)
Dispatch(c, s, map, work, held, o) ==
  /\ submission_map' = [map EXCEPT ![s] = c]
  /\ working' = IF o = "early" THEN work ELSE [work EXCEPT ![c] = s]
  /\ at_judge' = IF o = "sent" THEN [held EXCEPT ![c] = @ \cup {s}] ELSE held

\* _handle_free_judge, entered with the given pool, map, _working and packets
\* sent; may[c][s] has the ways in which submit(s) may end on c
HandleFreeJudge(c, pool, declared, map, work, held, may) ==
  \/ /\ NothingFor(c, declared)
     /\ judges' = pool
     /\ submission_map' = map
     /\ working' = work
     /\ at_judge' = held
     /\ UNCHANGED <<queue, node_map>>
  \/ \E p \in Priorities : \E i \in 1..Len(queue[p]) :
       /\ IsFirstFor(c, declared, p, i)
       /\ \E o \in may[c][queue[p][i].id] :
            /\ Dispatch(c, queue[p][i].id, map, work, held, o)
            /\ \/ o = "sent" /\ judges' = pool /\ RemoveNode(p, i)
               \/ o # "sent" /\ judges' = pool \ {c} /\ UNCHANGED <<queue, node_map>>

-----------------------------------------------------------------------------
(* The methods *)

\* register: its call of disconnect compares names with the handler object
\* itself, so it never finds one, and an older connection of that name stays.
Register(c, declared, may) ==
  /\ life[c] = "new"
  /\ life' = [life EXCEPT ![c] = "on"]
  /\ problems' = [problems EXCEPT ![c] = declared]
  /\ HandleFreeJudge(c, judges \cup {c}, declared, submission_map, working, at_judge, may)
  /\ UNCHANGED updating

\* on_supported_problems up to its check of .working, made without the lock
DeclareProblems(c, declared) ==
  /\ HotReload
  /\ life[c] = "on"
  /\ ~updating[c]
  /\ problems' = [problems EXCEPT ![c] = declared]
  /\ updating' = [updating EXCEPT ![c] = working[c] = NoSub]
  /\ UNCHANGED <<queue, node_map, submission_map, judges, working, life, at_judge>>

\* update_problems, which does not look at .working again
UpdateProblems(c, may) ==
  /\ updating[c]
  /\ updating' = [updating EXCEPT ![c] = FALSE]
  /\ HandleFreeJudge(c, judges, problems[c], submission_map, working, at_judge, may)
  /\ UNCHANGED <<problems, life>>

\* on_judge_free.  The judge reports on any id it holds.
OnJudgeFree(c, s, may) ==
  /\ life[c] = "on"
  /\ ~updating[c]
  /\ s \in at_judge[c]
  /\ UNCHANGED <<problems, life, updating>>
  /\ \/ \* KeyError: the map lost the id, the judge is never freed
        /\ submission_map[s] = NoConn
        /\ at_judge' = [at_judge EXCEPT ![c] = @ \ {s}]
        /\ UNCHANGED <<queue, node_map, submission_map, judges, working>>
     \/ /\ submission_map[s] # NoConn
        /\ HandleFreeJudge(c, judges, problems[c],
                           [submission_map EXCEPT ![s] = NoConn],
                           [working EXCEPT ![c] = NoSub],
                           [at_judge EXCEPT ![c] = @ \ {s}], may)

\* Broken: the connection stays in the pool.
RemoveFromMapOnly(c) ==
  /\ life[c] = "on"
  /\ ~updating[c]
  /\ life' = [life EXCEPT ![c] = "gone"]
  /\ submission_map' = IF working[c] = NoSub THEN submission_map
                       ELSE [submission_map EXCEPT ![working[c]] = NoConn]
  /\ at_judge' = [at_judge EXCEPT ![c] = {}]
  /\ UNCHANGED <<queue, node_map, judges, working, problems, updating>>

\* remove, called once by on_disconnect; whatever the judge held is lost to it
Remove(c) ==
  /\ life[c] = "on"
  /\ ~updating[c]
  /\ life' = [life EXCEPT ![c] = "gone"]
  /\ judges' = judges \ {c}
  /\ submission_map' = IF working[c] = NoSub THEN submission_map
                       ELSE [submission_map EXCEPT ![working[c]] = NoConn]
  /\ at_judge' = [at_judge EXCEPT ![c] = {}]
  /\ UNCHANGED <<queue, node_map, working, problems, updating>>

\* Broken: a submission for any judge is matched with no judge.
CandidatesByName(e) ==
  {c \in judges : /\ working[c] = NoSub
                  /\ ProblemOf[e.id] \in problems[c]
                  /\ e.judge_id = NameOf[c]}

\* Broken: judges that are working are candidates too.
CandidatesBusyToo(e) == {c \in judges : CanJudge(c, problems[c], e)}

\* the judges of judge() that could take the entry at once
Candidates(e) ==
  {c \in judges : working[c] = NoSub /\ CanJudge(c, problems[c], e)}

\* judge.  The reported loads are arbitrary, so any candidate may be the least
\* loaded.  A failed submit calls judge again, which finds the id in the map.
Judge(s, judge_id, priority, may) ==
  LET e == [id |-> s, judge_id |-> judge_id] IN
  /\ UNCHANGED <<problems, life, updating>>
  /\ \/ /\ submission_map[s] # NoConn \/ s \in node_map
        /\ UNCHANGED <<queue, node_map, submission_map, judges, working, at_judge>>
     \/ /\ submission_map[s] = NoConn /\ s \notin node_map
        /\ \/ \E c \in Candidates(e) : \E o \in may[c][s] :
                /\ Dispatch(c, s, submission_map, working, at_judge, o)
                /\ judges' = IF o = "sent" THEN judges ELSE judges \ {c}
                /\ UNCHANGED <<queue, node_map>>
           \/ /\ Candidates(e) = {}
              /\ queue' = [queue EXCEPT ![priority] = Append(@, e)]
              /\ node_map' = node_map \cup {s}
              /\ UNCHANGED <<submission_map, judges, working, at_judge>>

\* Broken: the node goes and node_map keeps the id.
AbortKeepsId(s) ==
  /\ submission_map[s] = NoConn
  /\ s \in node_map
  /\ \E p \in Priorities : \E i \in 1..Len(queue[p]) :
       queue[p][i].id = s /\ queue' = [queue EXCEPT ![p] = Drop(@, i)]
  /\ UNCHANGED <<node_map, submission_map, judges, working, problems, life, updating, at_judge>>

\* abort of an id that is in the map only sends a packet; else it leaves the queue
Abort(s) ==
  /\ submission_map[s] = NoConn
  /\ s \in node_map
  /\ \E p \in Priorities : \E i \in 1..Len(queue[p]) :
       queue[p][i].id = s /\ RemoveNode(p, i)
  /\ UNCHANGED <<submission_map, judges, working, problems, life, updating, at_judge>>

\* The bridge process dies: the next one starts with an empty JudgeList.
Restart ==
  /\ queue' = [p \in Priorities |-> <<>>]
  /\ node_map' = {}
  /\ submission_map' = [s \in Subs |-> NoConn]
  /\ judges' = {}
  /\ working' = [c \in Conns |-> NoSub]
  /\ problems' = [c \in Conns |-> {}]
  /\ life' = [c \in Conns |-> IF life[c] = "on" THEN "gone" ELSE life[c]]
  /\ updating' = [c \in Conns |-> FALSE]
  /\ at_judge' = [c \in Conns |-> {}]

-----------------------------------------------------------------------------
\* With nothing known of rows and sockets, submit may end in any way.
AnyWay == [c \in Conns |-> [s \in Subs |-> Outcomes]]

ConnStep(c) ==
  \/ \E declared \in SUBSET Problems : Register(c, declared, AnyWay)
  \/ \E declared \in SUBSET Problems : DeclareProblems(c, declared)
  \/ UpdateProblems(c, AnyWay)
  \/ \E s \in Subs : OnJudgeFree(c, s, AnyWay)
  \/ Remove(c)

WebStep(s) ==
  \/ \E j \in Names \cup {AnyJudge}, p \in Priorities : Judge(s, j, p, AnyWay)
  \/ Abort(s)

Next ==
  \/ \E c \in Conns : ConnStep(c)
  \/ \E s \in Subs : WebStep(s)
  \/ Restart

Spec == Init /\ [][Next]_listVars

-----------------------------------------------------------------------------
(* Properties that hold whatever submit does *)

\* node_map holds exactly the ids that have a node, and an id has one node.
\* (judge_list.py keeps the two in step by hand in four places.)
QueueConsistent ==
  /\ \A s \in Subs : s \in node_map <=> IsQueued(s)
  /\ \A p, q \in Priorities : \A i \in 1..Len(queue[p]), j \in 1..Len(queue[q]) :
       queue[p][i].id = queue[q][j].id => p = q /\ i = j

\* No judge of the pool idles while something it could grade is waiting, but
\* for the moment between a new list of problems and its update_problems.
WorkConserving ==
  \A c \in judges :
    working[c] = NoSub /\ ~updating[c] => NothingFor(c, problems[c])

\* The pool never holds a connection whose thread has left on_disconnect's
\* call of remove behind: nothing is handed to a dead handler.
PoolIsConnected == \A c \in judges : life[c] = "on"

\* An id that waits is not in the hands of a judge of the pool: it may be in
\* the map as well, but then its judge was thrown out by a failed dispatch.
WaitingIsNotGraded == \A s \in node_map : submission_map[s] \notin judges

\* What the pool offers is real: a connection that is there, for work that no
\* other one of the pool has.
PoolIsHonest == PoolIsConnected /\ WaitingIsNotGraded

-----------------------------------------------------------------------------
(* Properties of a bridge whose dispatches succeed and whose judges declare *)
(* their problems once: Outcomes = {"sent"} and ~HotReload                  *)

Reliable == Outcomes = {"sent"} /\ ~HotReload

\* submission_map and _working, which are written apart, say the same; and a
\* judge has exactly the submission its handler is working on.
MapAgrees ==
  Reliable =>
    /\ \A s \in Subs, c \in Conns :
         submission_map[s] = c <=> life[c] = "on" /\ working[c] = s
    /\ \A c \in Conns :
         at_judge[c] = {s \in Subs : life[c] = "on" /\ working[c] = s}

\* No submission is with two judges at once, however often it is rejudged,
\* aborted or dropped by a judge that goes away ("rejudges should be
\* idempotent", judge_list.py).
OneGrader ==
  Reliable => \A c, d \in Conns : at_judge[c] \cap at_judge[d] # {} => c = d

Abstract == INSTANCE Dispatching WITH waiting <- node_map, grader <- submission_map

\* If the bridge is Reliable, every step of the list is a step of Dispatching or
\* none: its two maps read as what waits and who grades what.
ImplementsDispatching == Abstract!DispatchingSpec
=============================================================================
