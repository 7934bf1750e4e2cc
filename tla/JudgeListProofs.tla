--------------------------- MODULE JudgeListProofs ---------------------------
(***************************************************************************)
(* Proofs about JudgeList, for any number of submissions, connections,     *)
(* priorities and problems: its types and its queue; what it promises to   *)
(* its callers in spite of every way a dispatch may end; and, when every   *)
(* dispatch succeeds and judges declare their problems once, who grades    *)
(* what and that the list implements Dispatching.                          *)
(***************************************************************************)
EXTENDS JudgeList, TLAPS
-----------------------------------------------------------------------------
(* Sequences of entries *)

\* Removing a node keeps the other entries of the priority, in their order.
LEMMA DropFacts ==
  ASSUME NEW S, NEW seq \in Seq(S), NEW i \in 1..Len(seq)
  PROVE  /\ Drop(seq, i) \in Seq(S)
         /\ Len(Drop(seq, i)) = Len(seq) - 1
         /\ \A j \in 1..(Len(seq) - 1) :
              Drop(seq, i)[j] = IF j < i THEN seq[j] ELSE seq[j + 1]
<1>1. Len(seq) - 1 \in Nat
  OBVIOUS
<1>2. \A j \in 1..(Len(seq) - 1) : (IF j < i THEN seq[j] ELSE seq[j + 1]) \in S
  OBVIOUS
<1> QED
  BY <1>1, <1>2 DEF Drop

\* Queueing an entry keeps what was queued and puts it last.
LEMMA AppendFacts ==
  ASSUME NEW S, NEW seq \in Seq(S), NEW e \in S
  PROVE  /\ Append(seq, e) \in Seq(S)
         /\ Len(Append(seq, e)) = Len(seq) + 1
         /\ \A j \in 1..Len(seq) : Append(seq, e)[j] = seq[j]
         /\ Append(seq, e)[Len(seq) + 1] = e
  OBVIOUS

-----------------------------------------------------------------------------
(* Type correctness *)

\* With nothing known of rows and sockets, a submit of an entry of the queue, or
\* of a submission on a candidate, ends in one of the Outcomes.
LEMMA OutcomesForQueued ==
  ASSUME TypeOK, NEW c \in Conns, NEW p \in Priorities, NEW i \in 1..Len(queue[p])
  PROVE  AnyWay[c][queue[p][i].id] = Outcomes
<1>1. queue[p] \in Seq(Entry)
  BY DEF TypeOK
<1>2. queue[p][i] \in Entry
  BY <1>1
<1>3. queue[p][i].id \in Subs
  BY <1>2 DEF Entry
<1> QED
  BY <1>3 DEF AnyWay

\* Every pass over the queue has some way to end.
LEMMA OutcomesForCandidates ==
  ASSUME TypeOK, NEW e, NEW c \in Candidates(e), NEW s \in Subs
  PROVE  AnyWay[c][s] = Outcomes
<1>1. c \in Conns
  BY DEF TypeOK, Candidates
<1> QED
  BY <1>1 DEF AnyWay

\* A pass of _handle_free_judge keeps the types of all it may change.
LEMMA HandleFreeJudgeType ==
  ASSUME TypeOK,
         NEW c \in Conns,
         NEW pool \in SUBSET Conns,
         NEW declared \in SUBSET Problems,
         NEW map \in [Subs -> Conns \cup {NoConn}],
         NEW work \in [Conns -> Subs \cup {NoSub}],
         NEW held \in [Conns -> SUBSET Subs],
         HandleFreeJudge(c, pool, declared, map, work, held, AnyWay)
  PROVE  /\ queue' \in [Priorities -> Seq(Entry)]
         /\ node_map' \in SUBSET Subs
         /\ submission_map' \in [Subs -> Conns \cup {NoConn}]
         /\ judges' \in SUBSET Conns
         /\ working' \in [Conns -> Subs \cup {NoSub}]
         /\ at_judge' \in [Conns -> SUBSET Subs]
<1>1. CASE NothingFor(c, declared)
  BY <1>1 DEF HandleFreeJudge, NothingFor, TypeOK, IsFirstFor
<1>2. CASE ~NothingFor(c, declared)
  <2>0. PICK p \in Priorities : \E i \in 1..Len(queue[p]) : \E o \in Outcomes :
          /\ Dispatch(c, queue[p][i].id, map, work, held, o)
          /\ \/ o = "sent" /\ judges' = pool /\ RemoveNode(p, i)
             \/ o # "sent" /\ judges' = pool \ {c} /\ UNCHANGED <<queue, node_map>>
    BY <1>2, OutcomesForQueued DEF HandleFreeJudge
  <2>1. PICK i \in 1..Len(queue[p]), o \in Outcomes :
          /\ Dispatch(c, queue[p][i].id, map, work, held, o)
          /\ \/ o = "sent" /\ judges' = pool /\ RemoveNode(p, i)
             \/ o # "sent" /\ judges' = pool \ {c} /\ UNCHANGED <<queue, node_map>>
    BY <2>0
  <2>2. queue[p] \in Seq(Entry)
    BY DEF TypeOK
  <2>2a. queue[p][i] \in Entry
    BY <2>2
  <2>2b. queue[p][i].id \in Subs
    BY <2>2a DEF Entry
  <2>3. Drop(queue[p], i) \in Seq(Entry)
    BY <2>2, DropFacts
  <2> QED
    BY <2>1, <2>2b, <2>3 DEF Dispatch, RemoveNode, TypeOK
<1> QED
  BY <1>1, <1>2

\* The empty list is well typed.
LEMMA InitType == Init => TypeOK
  BY JudgeListAssumption DEF Init, TypeOK

\* Every call of the list keeps its types.
LEMMA NextType == TypeOK /\ [Next]_listVars => TypeOK'
<1> SUFFICES ASSUME TypeOK, [Next]_listVars PROVE TypeOK'
  OBVIOUS
<1> USE JudgeListAssumption
<1>1. ASSUME NEW c \in Conns, NEW declared \in SUBSET Problems, Register(c, declared, AnyWay)
      PROVE  TypeOK'
  <2>1. judges \cup {c} \in SUBSET Conns
    BY DEF TypeOK
  <2> QED
    BY <1>1, <2>1, HandleFreeJudgeType DEF Register, TypeOK
<1>2. ASSUME NEW c \in Conns, NEW declared \in SUBSET Problems, DeclareProblems(c, declared)
      PROVE  TypeOK'
  BY <1>2 DEF DeclareProblems, TypeOK
<1>3. ASSUME NEW c \in Conns, UpdateProblems(c, AnyWay)
      PROVE  TypeOK'
  BY <1>3, HandleFreeJudgeType DEF UpdateProblems, TypeOK
<1>4. ASSUME NEW c \in Conns, NEW s \in Subs, OnJudgeFree(c, s, AnyWay)
      PROVE  TypeOK'
  <2>1. CASE submission_map[s] = NoConn
    BY <1>4, <2>1 DEF OnJudgeFree, TypeOK
  <2>2. CASE submission_map[s] # NoConn
    <3>1. /\ [submission_map EXCEPT ![s] = NoConn] \in [Subs -> Conns \cup {NoConn}]
          /\ [working EXCEPT ![c] = NoSub] \in [Conns -> Subs \cup {NoSub}]
          /\ [at_judge EXCEPT ![c] = @ \ {s}] \in [Conns -> SUBSET Subs]
      BY DEF TypeOK
    <3> QED
      BY <1>4, <2>2, <3>1, HandleFreeJudgeType DEF OnJudgeFree, TypeOK
  <2> QED
    BY <2>1, <2>2
<1>5. ASSUME NEW c \in Conns, Remove(c)
      PROVE  TypeOK'
  BY <1>5 DEF Remove, TypeOK
<1>6. ASSUME NEW s \in Subs, NEW j \in Names \cup {AnyJudge}, NEW p \in Priorities,
             Judge(s, j, p, AnyWay)
      PROVE  TypeOK'
  <2> DEFINE e == [id |-> s, judge_id |-> j]
  <2>1. e \in Entry
    BY DEF Entry
  <2>2. Append(queue[p], e) \in Seq(Entry)
    BY <2>1 DEF TypeOK
  <2> HIDE DEF e
  <2>3. \A c \in Candidates(e) : c \in Conns
    BY DEF Candidates, TypeOK
  <2>4. /\ UNCHANGED <<problems, life, updating>>
        /\ \/ UNCHANGED <<queue, node_map, submission_map, judges, working, at_judge>>
           \/ \E c \in Candidates(e), o \in Outcomes :
                /\ Dispatch(c, s, submission_map, working, at_judge, o)
                /\ judges' = IF o = "sent" THEN judges ELSE judges \ {c}
                /\ UNCHANGED <<queue, node_map>>
           \/ /\ queue' = [queue EXCEPT ![p] = Append(@, e)]
              /\ node_map' = node_map \cup {s}
              /\ UNCHANGED <<submission_map, judges, working, at_judge>>
    BY <1>6, OutcomesForCandidates DEF Judge, e
  <2>5. CASE UNCHANGED <<queue, node_map, submission_map, judges, working, at_judge>>
    BY <2>4, <2>5 DEF TypeOK
  <2>6. ASSUME NEW c \in Candidates(e), NEW o \in Outcomes,
               Dispatch(c, s, submission_map, working, at_judge, o),
               judges' = IF o = "sent" THEN judges ELSE judges \ {c},
               UNCHANGED <<queue, node_map>>
        PROVE  TypeOK'
    BY <2>3, <2>4, <2>6 DEF TypeOK, Dispatch
  <2>7. CASE /\ queue' = [queue EXCEPT ![p] = Append(@, e)]
             /\ node_map' = node_map \cup {s}
             /\ UNCHANGED <<submission_map, judges, working, at_judge>>
    BY <2>2, <2>4, <2>7 DEF TypeOK
  <2> QED
    BY <2>4, <2>5, <2>6, <2>7
<1>7. ASSUME NEW s \in Subs, Abort(s)
      PROVE  TypeOK'
  <2>0. PICK p \in Priorities : \E i \in 1..Len(queue[p]) : RemoveNode(p, i)
    BY <1>7 DEF Abort
  <2>1. PICK i \in 1..Len(queue[p]) : RemoveNode(p, i)
    BY <2>0
  <2>2. Drop(queue[p], i) \in Seq(Entry)
    BY DropFacts DEF TypeOK
  <2> QED
    BY <1>7, <2>1, <2>2 DEF Abort, RemoveNode, TypeOK
<1>8. ASSUME Restart
      PROVE  TypeOK'
  BY <1>8 DEF Restart, TypeOK
<1>9. CASE UNCHANGED listVars
  BY <1>9 DEF listVars, TypeOK
<1> QED
  BY <1>1, <1>2, <1>3, <1>4, <1>5, <1>6, <1>7, <1>8, <1>9 DEF Next, ConnStep, WebStep

\* Every field of the list keeps its type, whatever its callers do.
THEOREM TypeCorrect == Spec => []TypeOK
  BY InitType, NextType, PTL DEF Spec

-----------------------------------------------------------------------------
(* The queue and node_map *)

\* What any step does to the two: nothing, it takes a node out, it appends a
\* node for an id that had none, or it empties both.
LEMMA QueueStep ==
  ASSUME TypeOK, [Next]_listVars
  PROVE  \/ UNCHANGED <<queue, node_map>>
         \/ \E p \in Priorities : \E i \in 1..Len(queue[p]) : RemoveNode(p, i)
         \/ \E p \in Priorities : \E e \in Entry :
              /\ e.id \notin node_map
              /\ queue' = [queue EXCEPT ![p] = Append(@, e)]
              /\ node_map' = node_map \cup {e.id}
         \/ queue' = [p \in Priorities |-> <<>>] /\ node_map' = {}
<1> DEFINE Taken == \E p \in Priorities : \E i \in 1..Len(queue[p]) : RemoveNode(p, i)
<1>1. ASSUME NEW c, NEW pool, NEW declared, NEW map, NEW work, NEW held,
             HandleFreeJudge(c, pool, declared, map, work, held, AnyWay)
      PROVE  UNCHANGED <<queue, node_map>> \/ Taken
  BY <1>1 DEF HandleFreeJudge
<1>2. ASSUME NEW c \in Conns, ConnStep(c)
      PROVE  UNCHANGED <<queue, node_map>> \/ Taken
  BY <1>1, <1>2 DEF ConnStep, Register, DeclareProblems, UpdateProblems, OnJudgeFree, Remove
<1>3. ASSUME NEW s \in Subs, NEW j \in Names \cup {AnyJudge}, NEW p \in Priorities,
             Judge(s, j, p, AnyWay)
      PROVE  \/ UNCHANGED <<queue, node_map>>
             \/ \E e \in Entry :
                  /\ e.id \notin node_map
                  /\ queue' = [queue EXCEPT ![p] = Append(@, e)]
                  /\ node_map' = node_map \cup {e.id}
  <2> DEFINE e == [id |-> s, judge_id |-> j]
  <2>1. e \in Entry /\ e.id = s
    BY DEF Entry
  <2> QED
    BY <1>3, <2>1 DEF Judge
<1>4. ASSUME NEW s \in Subs, Abort(s)
      PROVE  Taken
  BY <1>4 DEF Abort
<1>5. ASSUME Restart
      PROVE  queue' = [p \in Priorities |-> <<>>] /\ node_map' = {}
  BY <1>5 DEF Restart
<1>6. CASE UNCHANGED listVars
  BY <1>6 DEF listVars
<1> QED
  BY <1>2, <1>3, <1>4, <1>5, <1>6 DEF Next, WebStep

\* Taking a node out leaves a part of the queue as it was.
LEMMA RemoveNodeFacts ==
  ASSUME TypeOK, QueueConsistent,
         NEW p \in Priorities, NEW i \in 1..Len(queue[p]), RemoveNode(p, i)
  PROVE  /\ QueueConsistent'
         /\ \A q \in Priorities : \A j \in 1..Len(queue'[q]) :
              \E k \in 1..Len(queue[q]) : queue'[q][j] = queue[q][k]
<1> DEFINE kept(q, j) == IF q = p /\ j >= i THEN j + 1 ELSE j
<1>1. queue[p] \in Seq(Entry) /\ \A q \in Priorities : queue[q] \in Seq(Entry)
  BY DEF TypeOK
<1>2. /\ Len(Drop(queue[p], i)) = Len(queue[p]) - 1
      /\ \A j \in 1..(Len(queue[p]) - 1) :
           Drop(queue[p], i)[j] = IF j < i THEN queue[p][j] ELSE queue[p][j + 1]
  BY <1>1, DropFacts
<1>3. /\ queue' = [queue EXCEPT ![p] = Drop(@, i)]
      /\ node_map' = node_map \ {queue[p][i].id}
  BY DEF RemoveNode
<1>4. \A q \in Priorities : q # p => queue'[q] = queue[q]
  BY <1>3 DEF TypeOK
<1>5. queue'[p] = Drop(queue[p], i)
  BY <1>3 DEF TypeOK
<1>6. ASSUME NEW q \in Priorities, NEW j \in 1..Len(queue'[q])
      PROVE  /\ kept(q, j) \in 1..Len(queue[q])
             /\ queue'[q][j] = queue[q][kept(q, j)]
             /\ q = p => kept(q, j) # i
  <2>1. CASE q # p
    BY <1>4, <2>1
  <2>2. CASE q = p
    BY <1>1, <1>2, <1>5, <2>2
  <2> QED
    BY <2>1, <2>2
<1>7. ASSUME NEW s \in Subs
      PROVE  s \in node_map' <=> IsQueued(s)'
  <2>1. ASSUME IsQueued(s)'
        PROVE  s \in node_map'
    <3>1. PICK q \in Priorities : \E j \in 1..Len(queue'[q]) : queue'[q][j].id = s
      BY <2>1 DEF IsQueued
    <3>2. PICK j \in 1..Len(queue'[q]) : queue'[q][j].id = s
      BY <3>1
    <3>3. queue[q][kept(q, j)].id = s /\ kept(q, j) \in 1..Len(queue[q])
      BY <1>6, <3>2
    <3>4. s \in node_map
      BY <3>3 DEF QueueConsistent, IsQueued
    <3>5. s # queue[p][i].id
      BY <1>6, <3>3 DEF QueueConsistent
    <3> QED
      BY <1>3, <3>4, <3>5
  <2>2. ASSUME s \in node_map'
        PROVE  IsQueued(s)'
    <3>1. s \in node_map /\ s # queue[p][i].id
      BY <1>3, <2>2
    <3>2. PICK q \in Priorities : \E k \in 1..Len(queue[q]) : queue[q][k].id = s
      BY <3>1 DEF QueueConsistent, IsQueued
    <3>3. PICK k \in 1..Len(queue[q]) : queue[q][k].id = s
      BY <3>2
    <3>4. CASE q # p
      BY <1>4, <3>3, <3>4 DEF IsQueued
    <3>5. CASE q = p
      <4> DEFINE j == IF k < i THEN k ELSE k - 1
      <4>1. k # i
        BY <3>1, <3>3, <3>5
      <4>2. j \in 1..(Len(queue[p]) - 1) /\ Drop(queue[p], i)[j] = queue[p][k]
        BY <1>1, <1>2, <3>5, <4>1
      <4>3. j \in 1..Len(queue'[p]) /\ queue'[p][j].id = s
        BY <1>2, <1>5, <3>3, <3>5, <4>2
      <4> QED
        BY <4>3 DEF IsQueued
    <3> QED
      BY <3>4, <3>5
  <2> QED
    BY <2>1, <2>2
<1>8. ASSUME NEW q \in Priorities, NEW r \in Priorities,
             NEW j \in 1..Len(queue'[q]), NEW k \in 1..Len(queue'[r]),
             queue'[q][j].id = queue'[r][k].id
      PROVE  q = r /\ j = k
  <2>1. queue[q][kept(q, j)].id = queue[r][kept(r, k)].id
    BY <1>6, <1>8
  <2>2. q = r /\ kept(q, j) = kept(r, k)
    BY <1>6, <2>1 DEF QueueConsistent
  <2>3. j \in Int /\ k \in Int /\ i \in Int
    OBVIOUS
  <2>4. CASE q # p
    BY <2>2, <2>4
  <2>5. CASE q = p
    BY <2>2, <2>3, <2>5
  <2> QED
    BY <2>4, <2>5
<1>9. QueueConsistent'
  BY <1>7, <1>8 DEF QueueConsistent
<1> QED
  BY <1>6, <1>9

\* A new node of an id that had none.
LEMMA AddNodeFacts ==
  ASSUME TypeOK, QueueConsistent,
         NEW p \in Priorities, NEW e \in Entry,
         e.id \notin node_map,
         queue' = [queue EXCEPT ![p] = Append(@, e)],
         node_map' = node_map \cup {e.id}
  PROVE  /\ QueueConsistent'
         /\ \A q \in Priorities : \A j \in 1..Len(queue'[q]) :
              queue'[q][j] = e \/ \E k \in 1..Len(queue[q]) : queue'[q][j] = queue[q][k]
<1>1. \A q \in Priorities : queue[q] \in Seq(Entry)
  BY DEF TypeOK
<1>2. \A q \in Priorities : q # p => queue'[q] = queue[q]
  BY DEF TypeOK
<1>3. queue'[p] = Append(queue[p], e)
  BY DEF TypeOK
<1>4. /\ Len(queue'[p]) = Len(queue[p]) + 1
      /\ \A j \in 1..Len(queue[p]) : queue'[p][j] = queue[p][j]
      /\ queue'[p][Len(queue[p]) + 1] = e
  BY <1>1, <1>3, AppendFacts
<1>5. ASSUME NEW q \in Priorities, NEW j \in 1..Len(queue'[q])
      PROVE  \/ q = p /\ j = Len(queue[p]) + 1 /\ queue'[q][j] = e
             \/ j \in 1..Len(queue[q]) /\ queue'[q][j] = queue[q][j]
  BY <1>1, <1>2, <1>4
<1>6. \A q \in Priorities : \A j \in 1..Len(queue[q]) :
        j \in 1..Len(queue'[q]) /\ queue'[q][j] = queue[q][j]
  BY <1>1, <1>2, <1>4
<1>7. \A q \in Priorities : \A j \in 1..Len(queue[q]) : queue[q][j].id # e.id
  <2>1. e.id \in Subs
    BY DEF Entry
  <2> QED
    BY <2>1 DEF QueueConsistent, IsQueued
<1>8. ASSUME NEW s \in Subs
      PROVE  s \in node_map' <=> IsQueued(s)'
  <2>1. CASE s = e.id
    <3>1. Len(queue[p]) + 1 \in 1..Len(queue'[p])
      BY <1>1, <1>4
    <3> QED
      BY <1>4, <2>1, <3>1 DEF IsQueued
  <2>2. CASE s # e.id
    <3>1. IsQueued(s)' => IsQueued(s)
      BY <1>5, <2>2 DEF IsQueued
    <3>2. IsQueued(s) => IsQueued(s)'
      BY <1>6 DEF IsQueued
    <3> QED
      BY <2>2, <3>1, <3>2 DEF QueueConsistent
  <2> QED
    BY <2>1, <2>2
<1>9. ASSUME NEW q \in Priorities, NEW r \in Priorities,
             NEW j \in 1..Len(queue'[q]), NEW k \in 1..Len(queue'[r]),
             queue'[q][j].id = queue'[r][k].id
      PROVE  q = r /\ j = k
  <2>1. CASE j \in 1..Len(queue[q]) /\ k \in 1..Len(queue[r])
    <3>1. queue[q][j].id = queue[r][k].id
      BY <1>6, <1>9, <2>1
    <3> QED
      BY <2>1, <3>1 DEF QueueConsistent
  <2>2. CASE j \notin 1..Len(queue[q]) \/ k \notin 1..Len(queue[r])
    BY <1>5, <1>7, <1>9, <2>2
  <2> QED
    BY <2>1, <2>2
<1>10. QueueConsistent'
  BY <1>8, <1>9 DEF QueueConsistent
<1> QED
  BY <1>5, <1>10

\* Nothing is queued at first.
LEMMA InitQueueConsistent == Init => QueueConsistent
  BY DEF Init, QueueConsistent, IsQueued

\* Every call keeps the nodes, the map and the marks in step.
LEMMA NextQueueConsistent == TypeOK /\ QueueConsistent /\ [Next]_listVars => QueueConsistent'
<1> SUFFICES ASSUME TypeOK, QueueConsistent, [Next]_listVars PROVE QueueConsistent'
  OBVIOUS
<1>1. CASE UNCHANGED <<queue, node_map>>
  BY <1>1 DEF QueueConsistent, IsQueued
<1>2. CASE \E p \in Priorities : \E i \in 1..Len(queue[p]) : RemoveNode(p, i)
  BY <1>2, RemoveNodeFacts
<1>3. CASE \E p \in Priorities : \E e \in Entry :
             /\ e.id \notin node_map
             /\ queue' = [queue EXCEPT ![p] = Append(@, e)]
             /\ node_map' = node_map \cup {e.id}
  BY <1>3, AddNodeFacts
<1>4. CASE queue' = [p \in Priorities |-> <<>>] /\ node_map' = {}
  BY <1>4 DEF QueueConsistent, IsQueued
<1> QED
  BY <1>1, <1>2, <1>3, <1>4, QueueStep

\* node_map and the linked list stay in step, and no id is ever queued twice.
THEOREM QueueIsConsistent == Spec => []QueueConsistent
<1>1. Spec => []TypeOK
  BY TypeCorrect
<1>2. TypeOK /\ QueueConsistent /\ [Next]_listVars => QueueConsistent'
  BY NextQueueConsistent
<1> QED
  BY <1>1, <1>2, InitQueueConsistent, PTL DEF Spec

-----------------------------------------------------------------------------
(* A list whose dispatches succeed and whose judges declare their problems *)
(* once: submission_map, _working and the judges themselves agree on who   *)
(* grades what, and the list implements Dispatching.                       *)
\* map, work and held say the same of who grades what, given who is connected.
Agrees(map, work, held, alive) ==
  /\ \A s \in Subs, c \in Conns : map[s] = c <=> alive[c] = "on" /\ work[c] = s
  /\ \A c \in Conns : held[c] = {s \in Subs : alive[c] = "on" /\ work[c] = s}

\* The inductive invariant, on top of types and a consistent queue: an id that
\* waits is in no map, and a connection that is new works on nothing.
ReliableInv ==
  /\ TypeOK
  /\ QueueConsistent
  /\ Agrees(submission_map, working, at_judge, life)
  /\ \A s \in node_map : submission_map[s] = NoConn
  /\ \A c \in Conns : life[c] = "new" => working[c] = NoSub
  /\ \A c \in Conns : ~updating[c]
  /\ judges \subseteq {c \in Conns : life[c] = "on"}

\* The parts of it that are not of the queue.
Settled ==
  /\ Agrees(submission_map, working, at_judge, life)
  /\ \A s \in node_map : submission_map[s] = NoConn
  /\ \A c \in Conns : life[c] = "new" => working[c] = NoSub
  /\ \A c \in Conns : ~updating[c]
  /\ judges \subseteq {c \in Conns : life[c] = "on"}

-----------------------------------------------------------------------------
(* One pass of _handle_free_judge *)

\* A pass either leaves all as it was given or hands a waiting id to c.
LEMMA ReliablePass ==
  ASSUME Reliable, TypeOK, QueueConsistent,
         NEW c \in Conns, NEW pool, NEW declared, NEW map, NEW work, NEW held,
         HandleFreeJudge(c, pool, declared, map, work, held, AnyWay)
  PROVE  /\ judges' = pool
         /\ \/ /\ submission_map' = map
               /\ working' = work
               /\ at_judge' = held
               /\ node_map' = node_map
            \/ \E s \in node_map :
                 /\ submission_map' = [map EXCEPT ![s] = c]
                 /\ working' = [work EXCEPT ![c] = s]
                 /\ at_judge' = [held EXCEPT ![c] = @ \cup {s}]
                 /\ node_map' = node_map \ {s}
<1>1. CASE /\ judges' = pool
           /\ submission_map' = map
           /\ working' = work
           /\ at_judge' = held
           /\ UNCHANGED <<queue, node_map>>
  BY <1>1
<1>2. CASE \E p \in Priorities : \E i \in 1..Len(queue[p]) :
             /\ Dispatch(c, queue[p][i].id, map, work, held, "sent")
             /\ judges' = pool
             /\ RemoveNode(p, i)
  <2>1. PICK p \in Priorities : \E i \in 1..Len(queue[p]) :
             /\ Dispatch(c, queue[p][i].id, map, work, held, "sent")
             /\ judges' = pool
             /\ RemoveNode(p, i)
    BY <1>2
  <2>2. PICK i \in 1..Len(queue[p]) :
             /\ Dispatch(c, queue[p][i].id, map, work, held, "sent")
             /\ judges' = pool
             /\ RemoveNode(p, i)
    BY <2>1
  <2> DEFINE s == queue[p][i].id
  <2>3. s \in node_map
    <3>1. queue[p] \in Seq(Entry)
      BY DEF TypeOK
    <3>2. queue[p][i] \in Entry
      BY <3>1
    <3>3. s \in Subs
      BY <3>2 DEF Entry
    <3> QED
      BY <3>3 DEF QueueConsistent, IsQueued
  <2>4. /\ submission_map' = [map EXCEPT ![s] = c]
        /\ working' = [work EXCEPT ![c] = s]
        /\ at_judge' = [held EXCEPT ![c] = @ \cup {s}]
    BY <2>2 DEF Dispatch
  <2>5. node_map' = node_map \ {s}
    BY <2>2 DEF RemoveNode
  <2> QED
    BY <2>2, <2>3, <2>4, <2>5
<1>3. \A p \in Priorities : \A i \in 1..Len(queue[p]) : AnyWay[c][queue[p][i].id] = {"sent"}
  BY OutcomesForQueued DEF Reliable
<1> QED
  BY <1>1, <1>2, <1>3 DEF HandleFreeJudge

\* What a pass is entered with.
SettledFor(c, map, work, held) ==
  /\ map \in [Subs -> Conns \cup {NoConn}]
  /\ work \in [Conns -> Subs \cup {NoSub}]
  /\ held \in [Conns -> SUBSET Subs]
  /\ Agrees(map, work, held, life')
  /\ life'[c] = "on"
  /\ work[c] = NoSub
  /\ \A s \in node_map : map[s] = NoConn
  /\ \A d \in Conns : life'[d] = "new" => work[d] = NoSub

\* A pass keeps submission_map, _working and the judges in agreement.
LEMMA PassAgrees ==
  ASSUME Reliable, TypeOK, QueueConsistent,
         NEW c \in Conns, NEW pool, NEW declared, NEW map, NEW work, NEW held,
         HandleFreeJudge(c, pool, declared, map, work, held, AnyWay),
         SettledFor(c, map, work, held)
  PROVE  /\ Agrees(submission_map, working, at_judge, life)'
         /\ \A s \in node_map' : submission_map'[s] = NoConn
         /\ \A d \in Conns : life'[d] = "new" => working'[d] = NoSub
<1>1. CASE /\ submission_map' = map
           /\ working' = work
           /\ at_judge' = held
           /\ node_map' = node_map
  BY <1>1 DEF SettledFor, Agrees
<1>2. ASSUME NEW s \in node_map,
             submission_map' = [map EXCEPT ![s] = c],
             working' = [work EXCEPT ![c] = s],
             at_judge' = [held EXCEPT ![c] = @ \cup {s}],
             node_map' = node_map \ {s}
      PROVE  /\ Agrees(submission_map, working, at_judge, life)'
             /\ \A t \in node_map' : submission_map'[t] = NoConn
             /\ \A d \in Conns : life'[d] = "new" => working'[d] = NoSub
  <2>1. s \in Subs /\ map[s] = NoConn /\ NoConn \notin Conns /\ NoSub \notin Subs
    BY JudgeListAssumption DEF JudgeListAssumption, TypeOK, SettledFor
  <2>2. \A t \in Subs : submission_map'[t] = IF t = s THEN c ELSE map[t]
    BY <1>2 DEF SettledFor
  <2>3. \A d \in Conns : /\ working'[d] = IF d = c THEN s ELSE work[d]
                         /\ at_judge'[d] = IF d = c THEN held[c] \cup {s} ELSE held[d]
    BY <1>2 DEF SettledFor
  <2>4. \A t \in Subs, d \in Conns :
          submission_map'[t] = d <=> life'[d] = "on" /\ working'[d] = t
    BY <2>1, <2>2, <2>3 DEF SettledFor, Agrees
  <2>5. held[c] = {}
    BY <2>1 DEF SettledFor, Agrees
  <2>6. \A d \in Conns :
          at_judge'[d] = {t \in Subs : life'[d] = "on" /\ working'[d] = t}
    BY <2>1, <2>3, <2>5 DEF SettledFor, Agrees
  <2>7. \A t \in node_map' : submission_map'[t] = NoConn
    BY <1>2, <2>2 DEF SettledFor, TypeOK
  <2>8. \A d \in Conns : life'[d] = "new" => working'[d] = NoSub
    BY <2>3 DEF SettledFor
  <2> QED
    BY <2>4, <2>6, <2>7, <2>8 DEF Agrees
<1> QED
  BY <1>1, <1>2, ReliablePass

-----------------------------------------------------------------------------
(* Every step keeps the invariant *)

\* At first nobody grades anything.
LEMMA InitReliable == Init => ReliableInv
<1> SUFFICES ASSUME Init PROVE ReliableInv
  OBVIOUS
<1>1. TypeOK /\ QueueConsistent
  BY InitType, InitQueueConsistent
<1> QED
  BY <1>1, JudgeListAssumption DEF JudgeListAssumption, Init, ReliableInv, Agrees

\* A registration hands out at most one waiting id.
LEMMA RegisterSettled ==
  ASSUME Reliable, ReliableInv, NEW c \in Conns, NEW declared \in SUBSET Problems,
         Register(c, declared, AnyWay)
  PROVE  Settled'
<1>1. /\ life[c] = "new"
      /\ life' = [life EXCEPT ![c] = "on"]
      /\ updating' = updating
      /\ HandleFreeJudge(c, judges \cup {c}, declared, submission_map, working, at_judge, AnyWay)
  BY DEF Register
<1>2. SettledFor(c, submission_map, working, at_judge)
  <2>1. working[c] = NoSub /\ NoSub \notin Subs
    BY <1>1, JudgeListAssumption DEF JudgeListAssumption, ReliableInv
  <2>2. /\ life'[c] = "on"
        /\ \A d \in Conns : d # c => life'[d] = life[d]
    BY <1>1 DEF ReliableInv, TypeOK
  <2>3. Agrees(submission_map, working, at_judge, life')
    BY <1>1, <2>1, <2>2 DEF ReliableInv, Agrees
  <2> QED
    BY <2>1, <2>2, <2>3 DEF ReliableInv, TypeOK, SettledFor
<1>3. judges' = judges \cup {c}
  BY <1>1, ReliablePass DEF ReliableInv
<1>4. /\ Agrees(submission_map, working, at_judge, life)'
      /\ \A s \in node_map' : submission_map'[s] = NoConn
      /\ \A d \in Conns : life'[d] = "new" => working'[d] = NoSub
  BY <1>1, <1>2, PassAgrees DEF ReliableInv
<1>5. judges' \subseteq {d \in Conns : life'[d] = "on"}
  BY <1>1, <1>3 DEF ReliableInv, TypeOK
<1> QED
  BY <1>1, <1>4, <1>5 DEF Settled, ReliableInv

\* A report frees its judge, which may get the next id.
LEMMA OnJudgeFreeSettled ==
  ASSUME Reliable, ReliableInv, NEW c \in Conns, NEW s \in Subs, OnJudgeFree(c, s, AnyWay)
  PROVE  /\ Settled'
         /\ submission_map[s] = c
         /\ HandleFreeJudge(c, judges, problems[c],
                            [submission_map EXCEPT ![s] = NoConn],
                            [working EXCEPT ![c] = NoSub],
                            [at_judge EXCEPT ![c] = @ \ {s}], AnyWay)
<1> DEFINE map  == [submission_map EXCEPT ![s] = NoConn]
           work == [working EXCEPT ![c] = NoSub]
           held == [at_judge EXCEPT ![c] = @ \ {s}]
<1>1. /\ life[c] = "on"
      /\ s \in at_judge[c]
      /\ life' = life
      /\ updating' = updating
  BY DEF OnJudgeFree
<1>2. working[c] = s /\ submission_map[s] = c /\ at_judge[c] = {s}
  BY <1>1 DEF ReliableInv, Agrees
<1>3. NoConn \notin Conns /\ NoSub \notin Subs
  BY JudgeListAssumption DEF JudgeListAssumption
<1>4. HandleFreeJudge(c, judges, problems[c], map, work, held, AnyWay)
  BY <1>2, <1>3 DEF OnJudgeFree
<1>5. SettledFor(c, map, work, held)
  <2>1. /\ \A t \in Subs : map[t] = IF t = s THEN NoConn ELSE submission_map[t]
        /\ \A d \in Conns : work[d] = IF d = c THEN NoSub ELSE working[d]
        /\ \A d \in Conns : held[d] = IF d = c THEN {} ELSE at_judge[d]
    BY <1>2 DEF ReliableInv, TypeOK
  <2>2. /\ map \in [Subs -> Conns \cup {NoConn}]
        /\ work \in [Conns -> Subs \cup {NoSub}]
        /\ held \in [Conns -> SUBSET Subs]
    BY DEF ReliableInv, TypeOK
  <2> HIDE DEF map, work, held
  <2>3. \A t \in Subs, d \in Conns : map[t] = d <=> life'[d] = "on" /\ work[d] = t
    BY <1>1, <1>2, <1>3, <2>1 DEF ReliableInv, Agrees
  <2>4. \A d \in Conns : held[d] = {t \in Subs : life'[d] = "on" /\ work[d] = t}
    BY <1>1, <1>2, <1>3, <2>1 DEF ReliableInv, Agrees
  <2>5. Agrees(map, work, held, life')
    BY <2>3, <2>4 DEF Agrees
  <2>6. \A t \in node_map : map[t] = NoConn
    BY <2>1 DEF ReliableInv, TypeOK
  <2>7. \A d \in Conns : life'[d] = "new" => work[d] = NoSub
    BY <1>1, <2>1 DEF ReliableInv
  <2> QED
    BY <1>1, <2>1, <2>2, <2>5, <2>6, <2>7 DEF SettledFor
<1> HIDE DEF map, work, held
<1>6. judges' = judges
  BY <1>4, ReliablePass DEF ReliableInv
<1>7. /\ Agrees(submission_map, working, at_judge, life)'
      /\ \A t \in node_map' : submission_map'[t] = NoConn
      /\ \A d \in Conns : life'[d] = "new" => working'[d] = NoSub
  BY <1>4, <1>5, PassAgrees DEF ReliableInv
<1>8. Settled'
  BY <1>1, <1>6, <1>7 DEF Settled, ReliableInv
<1> QED
  BY <1>2, <1>4, <1>8 DEF map, work, held

\* A connection that leaves takes its id out of the map.
LEMMA RemoveSettled ==
  ASSUME Reliable, ReliableInv, NEW c \in Conns, Remove(c)
  PROVE  Settled'
<1>1. /\ life[c] = "on"
      /\ life' = [life EXCEPT ![c] = "gone"]
      /\ judges' = judges \ {c}
      /\ at_judge' = [at_judge EXCEPT ![c] = {}]
      /\ UNCHANGED <<node_map, working, updating>>
      /\ submission_map' = IF working[c] = NoSub THEN submission_map
                           ELSE [submission_map EXCEPT ![working[c]] = NoConn]
  BY DEF Remove
<1>2. NoConn \notin Conns /\ NoSub \notin Subs
  BY JudgeListAssumption DEF JudgeListAssumption
<1>3. \A s \in Subs :
        submission_map'[s] = IF s = working[c] THEN NoConn ELSE submission_map[s]
  BY <1>1, <1>2 DEF ReliableInv, TypeOK
<1>4. /\ \A d \in Conns : life'[d] = IF d = c THEN "gone" ELSE life[d]
      /\ \A d \in Conns : at_judge'[d] = IF d = c THEN {} ELSE at_judge[d]
  BY <1>1 DEF ReliableInv, TypeOK
<1>5. \A s \in Subs, d \in Conns :
        submission_map'[s] = d <=> life'[d] = "on" /\ working'[d] = s
  BY <1>1, <1>2, <1>3, <1>4 DEF ReliableInv, Agrees
<1>6. \A d \in Conns :
        at_judge'[d] = {s \in Subs : life'[d] = "on" /\ working'[d] = s}
  BY <1>1, <1>4 DEF ReliableInv, Agrees
<1>7. \A s \in node_map' : submission_map'[s] = NoConn
  BY <1>1, <1>3 DEF ReliableInv, TypeOK
<1> QED
  BY <1>1, <1>4, <1>5, <1>6, <1>7 DEF ReliableInv, Settled, Agrees

\* A request is queued or handed to a free judge, never both.
LEMMA JudgeSettled ==
  ASSUME Reliable, ReliableInv, NEW s \in Subs, NEW j \in Names \cup {AnyJudge},
         NEW p \in Priorities, Judge(s, j, p, AnyWay)
  PROVE  /\ Settled'
         /\ \/ UNCHANGED <<node_map, submission_map>>
            \/ \E c \in Conns :
                 /\ submission_map[s] = NoConn
                 /\ s \notin node_map
                 /\ life[c] = "on" /\ working[c] = NoSub
                 /\ submission_map' = [submission_map EXCEPT ![s] = c]
                 /\ UNCHANGED node_map
            \/ /\ submission_map[s] = NoConn
               /\ s \notin node_map
               /\ node_map' = node_map \cup {s}
               /\ UNCHANGED submission_map
<1> DEFINE e == [id |-> s, judge_id |-> j]
<1>1. life' = life /\ updating' = updating
  BY DEF Judge
<1>2. \/ UNCHANGED <<node_map, submission_map, judges, working, at_judge>>
      \/ \E c \in Candidates(e) :
           /\ submission_map[s] = NoConn
           /\ s \notin node_map
           /\ Dispatch(c, s, submission_map, working, at_judge, "sent")
           /\ judges' = judges
           /\ UNCHANGED node_map
      \/ /\ submission_map[s] = NoConn
         /\ s \notin node_map
         /\ node_map' = node_map \cup {s}
         /\ UNCHANGED <<submission_map, judges, working, at_judge>>
  BY OutcomesForCandidates DEF Judge, ReliableInv, Reliable
<1>3. CASE UNCHANGED <<node_map, submission_map, judges, working, at_judge>>
  BY <1>1, <1>3 DEF ReliableInv, Settled, Agrees
<1>4. ASSUME NEW c \in Candidates(e),
             submission_map[s] = NoConn,
             s \notin node_map,
             Dispatch(c, s, submission_map, working, at_judge, "sent"),
             judges' = judges,
             UNCHANGED node_map
      PROVE  /\ Settled'
             /\ c \in Conns
             /\ life[c] = "on" /\ working[c] = NoSub
             /\ submission_map' = [submission_map EXCEPT ![s] = c]
  <2>1. c \in Conns /\ life[c] = "on" /\ working[c] = NoSub
    BY DEF Candidates, ReliableInv
  <2>2. NoConn \notin Conns /\ NoSub \notin Subs
    BY JudgeListAssumption DEF JudgeListAssumption
  <2>3. /\ submission_map' = [submission_map EXCEPT ![s] = c]
        /\ working' = [working EXCEPT ![c] = s]
        /\ at_judge' = [at_judge EXCEPT ![c] = @ \cup {s}]
    BY <1>4 DEF Dispatch
  <2>4. /\ \A t \in Subs : submission_map'[t] = IF t = s THEN c ELSE submission_map[t]
        /\ \A d \in Conns : working'[d] = IF d = c THEN s ELSE working[d]
        /\ \A d \in Conns : at_judge'[d] = IF d = c THEN at_judge[c] \cup {s} ELSE at_judge[d]
    BY <2>3 DEF ReliableInv, TypeOK
  <2>5. at_judge[c] = {}
    BY <2>1, <2>2 DEF ReliableInv, Agrees
  <2>6. \A t \in Subs, d \in Conns :
          submission_map'[t] = d <=> life'[d] = "on" /\ working'[d] = t
    BY <1>1, <1>4, <2>1, <2>2, <2>4 DEF ReliableInv, Agrees
  <2>7. \A d \in Conns :
          at_judge'[d] = {t \in Subs : life'[d] = "on" /\ working'[d] = t}
    BY <1>1, <2>1, <2>2, <2>4, <2>5 DEF ReliableInv, Agrees
  <2>8. \A t \in node_map' : submission_map'[t] = NoConn
    BY <1>4, <2>4 DEF ReliableInv, TypeOK
  <2>9. \A d \in Conns : life'[d] = "new" => working'[d] = NoSub
    BY <1>1, <2>1, <2>4 DEF ReliableInv
  <2> QED
    BY <1>1, <1>4, <2>1, <2>3, <2>6, <2>7, <2>8, <2>9 DEF ReliableInv, Settled, Agrees
<1>5. CASE /\ submission_map[s] = NoConn
           /\ s \notin node_map
           /\ node_map' = node_map \cup {s}
           /\ UNCHANGED <<submission_map, judges, working, at_judge>>
  BY <1>1, <1>5 DEF ReliableInv, Settled, Agrees
<1> HIDE DEF e
<1> QED
  BY <1>2, <1>3, <1>4, <1>5

\* The invariant is inductive.
LEMMA NextReliable == Reliable /\ ReliableInv /\ [Next]_listVars => ReliableInv'
<1> SUFFICES ASSUME Reliable, ReliableInv, [Next]_listVars PROVE ReliableInv'
  OBVIOUS
<1>1. TypeOK' /\ QueueConsistent'
  BY NextType, NextQueueConsistent DEF ReliableInv
<1>2. ASSUME NEW c \in Conns, ConnStep(c)
      PROVE  Settled'
  <2>1. ~\E declared \in SUBSET Problems : DeclareProblems(c, declared)
    BY DEF DeclareProblems, Reliable
  <2>2. ~UpdateProblems(c, AnyWay)
    BY DEF UpdateProblems, ReliableInv
  <2> QED
    BY <1>2, <2>1, <2>2, RegisterSettled, OnJudgeFreeSettled, RemoveSettled DEF ConnStep
<1>3. ASSUME NEW s \in Subs, Abort(s)
      PROVE  Settled'
  <2>1. PICK p \in Priorities : \E i \in 1..Len(queue[p]) : RemoveNode(p, i)
    BY <1>3 DEF Abort
  <2>2. node_map' \subseteq node_map
    BY <2>1 DEF RemoveNode
  <2>3. UNCHANGED <<submission_map, judges, working, life, updating, at_judge>>
    BY <1>3 DEF Abort
  <2> QED
    BY <2>2, <2>3 DEF ReliableInv, Settled, Agrees
<1>4. ASSUME NEW s \in Subs, WebStep(s)
      PROVE  Settled'
  BY <1>3, <1>4, JudgeSettled DEF WebStep
<1>5. ASSUME Restart
      PROVE  Settled'
  <2>1. /\ submission_map' = [s \in Subs |-> NoConn]
        /\ working' = [c \in Conns |-> NoSub]
        /\ at_judge' = [c \in Conns |-> {}]
        /\ updating' = [c \in Conns |-> FALSE]
        /\ node_map' = {}
        /\ judges' = {}
    BY <1>5 DEF Restart
  <2>2. NoConn \notin Conns /\ NoSub \notin Subs
    BY JudgeListAssumption DEF JudgeListAssumption
  <2> QED
    BY <2>1, <2>2 DEF Settled, Agrees
<1>6. ASSUME UNCHANGED listVars
      PROVE  Settled'
  <2>1. UNCHANGED <<node_map, submission_map, judges, working, life, updating, at_judge>>
    BY <1>6 DEF listVars
  <2> QED
    BY <2>1 DEF ReliableInv, Settled, Agrees
<1>7. Settled'
  BY <1>2, <1>4, <1>5, <1>6 DEF Next
<1> QED
  BY <1>1, <1>7 DEF ReliableInv, Settled

\* The invariant holds in every reachable state.
LEMMA ReliableInvariant ==
  ASSUME Reliable
  PROVE  Spec => []ReliableInv
<1>1. ReliableInv /\ [Next]_listVars => ReliableInv'
  BY NextReliable
<1> QED
  BY <1>1, InitReliable, PTL DEF Spec

-----------------------------------------------------------------------------
(* The theorems *)

\* submission_map, the handlers and the judges never disagree on who has what.
THEOREM MapsAgree == Spec => []MapAgrees
<1>1. CASE Reliable
  <2>1. ReliableInv => MapAgrees
    BY DEF ReliableInv, Agrees, MapAgrees
  <2>2. Spec => []ReliableInv
    BY <1>1, ReliableInvariant
  <2> QED
    BY <2>1, <2>2, PTL
<1>2. CASE ~Reliable
  <2>1. MapAgrees
    BY <1>2 DEF MapAgrees
  <2> QED
    BY <2>1, PTL
<1> QED
  BY <1>1, <1>2

\* No submission is ever with two judges.
THEOREM OneGraderOnly == Spec => []OneGrader
<1>1. CASE Reliable
  <2>1. ReliableInv => OneGrader
    BY DEF ReliableInv, Agrees, OneGrader
  <2>2. Spec => []ReliableInv
    BY <1>1, ReliableInvariant
  <2> QED
    BY <2>1, <2>2, PTL
<1>2. CASE ~Reliable
  <2>1. OneGrader
    BY <1>2 DEF OneGrader
  <2> QED
    BY <2>1, PTL
<1> QED
  BY <1>1, <1>2

-----------------------------------------------------------------------------
(* The list implements Dispatching *)

\* To Dispatching a registration is a connection, with an assignment or none.
LEMMA RegisterImplements ==
  ASSUME Reliable, ReliableInv, NEW c \in Conns, NEW declared \in SUBSET Problems,
         Register(c, declared, AnyWay)
  PROVE  \/ UNCHANGED Abstract!dispatchingVars
         \/ \E s \in Subs : Abstract!Take(s, c)
<1>1. life[c] = "new"
  BY DEF Register
<1>2. HandleFreeJudge(c, judges \cup {c}, declared, submission_map, working, at_judge, AnyWay)
  BY DEF Register
<1>3. \A t \in Subs : submission_map[t] # c
  BY <1>1 DEF ReliableInv, Agrees
<1>4. CASE submission_map' = submission_map /\ node_map' = node_map
  BY <1>4 DEF Abstract!dispatchingVars
<1>5. ASSUME NEW s \in node_map,
             submission_map' = [submission_map EXCEPT ![s] = c],
             node_map' = node_map \ {s}
      PROVE  s \in Subs /\ Abstract!Take(s, c)
  BY <1>3, <1>5 DEF ReliableInv, TypeOK, Abstract!Take
<1> QED
  BY <1>2, <1>4, <1>5, ReliablePass DEF ReliableInv

\* To Dispatching a report is the end of an id and the next assignment.
LEMMA OnJudgeFreeImplements ==
  ASSUME Reliable, ReliableInv, NEW c \in Conns, NEW s \in Subs, OnJudgeFree(c, s, AnyWay)
  PROVE  Abstract!Finish(s) \/ \E t \in Subs : Abstract!FinishAndTake(s, t)
<1>1. submission_map[s] = c
  BY OnJudgeFreeSettled
<1>2. NoConn \notin Conns
  BY JudgeListAssumption DEF JudgeListAssumption
<1> DEFINE map == [submission_map EXCEPT ![s] = NoConn]
<1>3. \/ submission_map' = map /\ node_map' = node_map
      \/ \E t \in node_map : /\ submission_map' = [map EXCEPT ![t] = c]
                             /\ node_map' = node_map \ {t}
  <2> HIDE DEF map
  <2>1. HandleFreeJudge(c, judges, problems[c], map, [working EXCEPT ![c] = NoSub],
                        [at_judge EXCEPT ![c] = @ \ {s}], AnyWay)
    BY OnJudgeFreeSettled DEF map
  <2> QED
    BY <2>1, ReliablePass DEF ReliableInv
<1>4. CASE submission_map' = map /\ node_map' = node_map
  BY <1>1, <1>2, <1>4 DEF Abstract!Finish
<1>5. ASSUME NEW t \in node_map,
             submission_map' = [map EXCEPT ![t] = c],
             node_map' = node_map \ {t}
      PROVE  t \in Subs /\ Abstract!FinishAndTake(s, t)
  BY <1>1, <1>2, <1>5 DEF ReliableInv, TypeOK, Abstract!FinishAndTake
<1> QED
  BY <1>3, <1>4, <1>5

\* To Dispatching a lost connection loses the id it graded.
LEMMA RemoveImplements ==
  ASSUME Reliable, ReliableInv, NEW c \in Conns, Remove(c)
  PROVE  \/ UNCHANGED Abstract!dispatchingVars
         \/ \E s \in Subs : Abstract!Finish(s)
<1>1. /\ life[c] = "on"
      /\ node_map' = node_map
      /\ submission_map' = IF working[c] = NoSub THEN submission_map
                           ELSE [submission_map EXCEPT ![working[c]] = NoConn]
  BY DEF Remove
<1>2. NoConn \notin Conns /\ NoSub \notin Subs
  BY JudgeListAssumption DEF JudgeListAssumption
<1>3. CASE working[c] = NoSub
  BY <1>1, <1>3 DEF Abstract!dispatchingVars
<1>4. CASE working[c] # NoSub
  <2>1. working[c] \in Subs /\ submission_map[working[c]] = c
    BY <1>1, <1>4 DEF ReliableInv, TypeOK, Agrees
  <2> QED
    BY <1>1, <1>2, <1>4, <2>1 DEF Abstract!Finish
<1> QED
  BY <1>3, <1>4

\* To Dispatching a request is a submission, an assignment or nothing.
LEMMA WebStepImplements ==
  ASSUME Reliable, ReliableInv, NEW s \in Subs, WebStep(s)
  PROVE  \/ UNCHANGED Abstract!dispatchingVars
         \/ \E c \in Conns : Abstract!Take(s, c)
         \/ Abstract!Accept(s)
         \/ Abstract!Withdraw(s)
<1>1. ASSUME NEW j \in Names \cup {AnyJudge}, NEW p \in Priorities, Judge(s, j, p, AnyWay)
      PROVE  \/ UNCHANGED Abstract!dispatchingVars
             \/ \E c \in Conns : Abstract!Take(s, c)
             \/ Abstract!Accept(s)
  <2>1. CASE UNCHANGED <<node_map, submission_map>>
    BY <2>1 DEF Abstract!dispatchingVars
  <2>2. ASSUME NEW c \in Conns,
               submission_map[s] = NoConn,
               s \notin node_map,
               life[c] = "on" /\ working[c] = NoSub,
               submission_map' = [submission_map EXCEPT ![s] = c],
               UNCHANGED node_map
        PROVE  Abstract!Take(s, c)
    <3>1. \A t \in Subs : submission_map[t] # c
      BY <2>2, JudgeListAssumption DEF JudgeListAssumption, ReliableInv, Agrees
    <3> QED
      BY <2>2, <3>1 DEF Abstract!Take
  <2>3. CASE /\ submission_map[s] = NoConn
             /\ s \notin node_map
             /\ node_map' = node_map \cup {s}
             /\ UNCHANGED submission_map
    BY <2>3 DEF Abstract!Accept
  <2> QED
    BY <1>1, <2>1, <2>2, <2>3, JudgeSettled
<1>2. ASSUME Abort(s)
      PROVE  Abstract!Withdraw(s)
  <2>1. PICK p \in Priorities : \E i \in 1..Len(queue[p]) :
          queue[p][i].id = s /\ RemoveNode(p, i)
    BY <1>2 DEF Abort
  <2>2. node_map' = node_map \ {s}
    BY <2>1 DEF RemoveNode
  <2> QED
    BY <1>2, <2>2 DEF Abort, Abstract!Withdraw
<1> QED
  BY <1>1, <1>2 DEF WebStep

\* Every call is a step of Dispatching or a stutter.
LEMMA NextImplements ==
  Reliable /\ ReliableInv /\ [Next]_listVars
    => [Abstract!DispatchingNext]_(Abstract!dispatchingVars)
<1> SUFFICES ASSUME Reliable, ReliableInv, [Next]_listVars
             PROVE  Abstract!DispatchingNext \/ UNCHANGED Abstract!dispatchingVars
  OBVIOUS
<1>1. ASSUME NEW c \in Conns, ConnStep(c)
      PROVE  Abstract!DispatchingNext \/ UNCHANGED Abstract!dispatchingVars
  <2>1. ~\E declared \in SUBSET Problems : DeclareProblems(c, declared)
    BY DEF DeclareProblems, Reliable
  <2>2. ~UpdateProblems(c, AnyWay)
    BY DEF UpdateProblems, ReliableInv
  <2> QED
    BY <1>1, <2>1, <2>2, RegisterImplements, OnJudgeFreeImplements, RemoveImplements
       DEF ConnStep, Abstract!DispatchingNext
<1>2. ASSUME NEW s \in Subs, WebStep(s)
      PROVE  Abstract!DispatchingNext \/ UNCHANGED Abstract!dispatchingVars
  BY <1>2, WebStepImplements DEF Abstract!DispatchingNext
<1>3. ASSUME Restart
      PROVE  Abstract!Forget
  BY <1>3 DEF Restart, Abstract!Forget
<1>4. ASSUME UNCHANGED listVars
      PROVE  UNCHANGED Abstract!dispatchingVars
  BY <1>4 DEF listVars, Abstract!dispatchingVars
<1> QED
  BY <1>1, <1>2, <1>3, <1>4 DEF Next, Abstract!DispatchingNext

\* A reliable JudgeList is an implementation of Dispatching.
THEOREM Implementation ==
  ASSUME Reliable
  PROVE  Spec => ImplementsDispatching
<1>1. Init => Abstract!Nothing
  BY DEF Init, Abstract!Nothing
<1>2. ReliableInv /\ [Next]_listVars
        => [Abstract!DispatchingNext]_(Abstract!dispatchingVars)
  BY NextImplements
<1>3. Spec => []ReliableInv
  BY ReliableInvariant
<1> QED
  BY <1>1, <1>2, <1>3, PTL DEF Spec, ImplementsDispatching, Abstract!DispatchingSpec

-----------------------------------------------------------------------------
(* What the list promises to its callers: no free judge idles while it     *)
(* could grade, and nothing is handed to a connection that left.           *)
\* A connection the list has not seen is in nobody's books: only known
\* connections are in submission_map or inside on_supported_problems.
KnownOnly ==
  /\ \A s \in Subs : submission_map[s] \in Conns => life[submission_map[s]] # "new"
  /\ \A c \in Conns : updating[c] => life[c] = "on"

\* The inductive invariant of the three promises.
ServiceInv ==
  /\ TypeOK
  /\ QueueConsistent
  /\ WorkConserving
  /\ PoolIsConnected
  /\ WaitingIsNotGraded
  /\ KnownOnly

\* the nodes of the next queue are nodes of this one
NoNewNode ==
  \A q \in Priorities : \A j \in 1..Len(queue'[q]) :
    \E k \in 1..Len(queue[q]) : queue'[q][j] = queue[q][k]

-----------------------------------------------------------------------------
(* One pass of _handle_free_judge *)

\* A judge that could take no node can take none of fewer nodes.
LEMMA LessToDo ==
  ASSUME NEW d, NEW declared, NothingFor(d, declared), NoNewNode
  PROVE  \A p \in Priorities : \A i \in 1..Len(queue'[p]) :
           ~CanJudge(d, declared, queue'[p][i])
<1> SUFFICES ASSUME NEW p \in Priorities, NEW i \in 1..Len(queue'[p])
             PROVE  ~CanJudge(d, declared, queue'[p][i])
  OBVIOUS
<1>1. PICK k \in 1..Len(queue[p]) : queue'[p][i] = queue[p][k]
  BY DEF NoNewNode
<1> QED
  BY <1>1 DEF NothingFor

\* The three ways a pass may end: with nothing to do, with a node handed over,
\* or with the judge thrown out of the pool.
LEMMA FreeJudgeOutcome ==
  ASSUME TypeOK, QueueConsistent,
         NEW c \in Conns, NEW pool, NEW declared, NEW map, NEW work, NEW held,
         HandleFreeJudge(c, pool, declared, map, work, held, AnyWay)
  PROVE  \/ /\ NothingFor(c, declared)
            /\ judges' = pool
            /\ submission_map' = map
            /\ working' = work
            /\ at_judge' = held
            /\ UNCHANGED <<queue, node_map>>
         \/ \E s \in node_map :
              /\ Dispatch(c, s, map, work, held, "sent")
              /\ judges' = pool
              /\ node_map' = node_map \ {s}
              /\ NoNewNode
         \/ \E s \in node_map, o \in Outcomes :
              /\ Dispatch(c, s, map, work, held, o)
              /\ o # "sent"
              /\ judges' = pool \ {c}
              /\ UNCHANGED <<queue, node_map>>
<1>1. CASE /\ NothingFor(c, declared)
           /\ judges' = pool
           /\ submission_map' = map
           /\ working' = work
           /\ at_judge' = held
           /\ UNCHANGED <<queue, node_map>>
  BY <1>1
<1>2. CASE \E p \in Priorities : \E i \in 1..Len(queue[p]) : \E o \in Outcomes :
             /\ Dispatch(c, queue[p][i].id, map, work, held, o)
             /\ \/ o = "sent" /\ judges' = pool /\ RemoveNode(p, i)
                \/ o # "sent" /\ judges' = pool \ {c} /\ UNCHANGED <<queue, node_map>>
  <2>1. PICK p \in Priorities : \E i \in 1..Len(queue[p]) : \E o \in Outcomes :
             /\ Dispatch(c, queue[p][i].id, map, work, held, o)
             /\ \/ o = "sent" /\ judges' = pool /\ RemoveNode(p, i)
                \/ o # "sent" /\ judges' = pool \ {c} /\ UNCHANGED <<queue, node_map>>
    BY <1>2
  <2>2. PICK i \in 1..Len(queue[p]), o \in Outcomes :
             /\ Dispatch(c, queue[p][i].id, map, work, held, o)
             /\ \/ o = "sent" /\ judges' = pool /\ RemoveNode(p, i)
                \/ o # "sent" /\ judges' = pool \ {c} /\ UNCHANGED <<queue, node_map>>
    BY <2>1
  <2> DEFINE s == queue[p][i].id
  <2>3. s \in node_map
    <3>1. queue[p] \in Seq(Entry)
      BY DEF TypeOK
    <3>2. queue[p][i] \in Entry
      BY <3>1
    <3>3. s \in Subs
      BY <3>2 DEF Entry
    <3> QED
      BY <3>3 DEF QueueConsistent, IsQueued
  <2>4. CASE o = "sent" /\ judges' = pool /\ RemoveNode(p, i)
    <3>1. NoNewNode
      BY <2>4, RemoveNodeFacts DEF NoNewNode
    <3>2. node_map' = node_map \ {s}
      BY <2>4 DEF RemoveNode
    <3> QED
      BY <2>2, <2>3, <2>4, <3>1, <3>2
  <2>5. CASE o # "sent" /\ judges' = pool \ {c} /\ UNCHANGED <<queue, node_map>>
    BY <2>2, <2>3, <2>5
  <2> QED
    BY <2>2, <2>4, <2>5
<1> QED
  BY <1>1, <1>2, OutcomesForQueued DEF HandleFreeJudge

\* The promises, and what they rest on.
Promises == WorkConserving /\ PoolIsConnected /\ WaitingIsNotGraded /\ KnownOnly

\* A pass on c is entered with nothing to do for the other judges of its pool,
\* with connected judges only, and with no waiting id in the hands of one.
WellEntered(c, pool, map, work) ==
  /\ pool \in SUBSET Conns
  /\ map \in [Subs -> Conns \cup {NoConn}]
  /\ work \in [Conns -> Subs \cup {NoSub}]
  /\ \A d \in pool \ {c} :
       /\ work[d] = NoSub /\ ~updating[d] => NothingFor(d, problems[d])
       /\ problems'[d] = problems[d]
       /\ updating'[d] = updating[d]
  /\ \A d \in pool \cup {c} : life'[d] = "on"
  /\ \A s \in Subs : map[s] \in Conns => life'[map[s]] # "new"
  /\ \A s \in node_map : map[s] \notin pool
  /\ \A d \in Conns : updating'[d] => life'[d] = "on"

\* Such a pass keeps the promises.
LEMMA FreeJudgeServes ==
  ASSUME TypeOK, QueueConsistent,
         NEW c \in Conns, NEW pool, NEW map, NEW work, NEW held,
         HandleFreeJudge(c, pool, problems'[c], map, work, held, AnyWay),
         WellEntered(c, pool, map, work)
  PROVE  Promises'
<1> USE JudgeListAssumption DEF JudgeListAssumption, TypeOK, WellEntered, Promises
<1>2. CASE /\ NothingFor(c, problems'[c])
           /\ judges' = pool
           /\ submission_map' = map
           /\ working' = work
           /\ UNCHANGED <<queue, node_map>>
  <2>1. WorkConserving'
    BY <1>2 DEF WorkConserving, NothingFor
  <2> QED
    BY <1>2, <2>1 DEF PoolIsConnected, WaitingIsNotGraded, KnownOnly
<1>3. ASSUME NEW s \in node_map,
             Dispatch(c, s, map, work, held, "sent"),
             judges' = pool,
             node_map' = node_map \ {s},
             NoNewNode
      PROVE  Promises'
  <2>1. /\ submission_map' = [map EXCEPT ![s] = c]
        /\ working' = [work EXCEPT ![c] = s]
    BY <1>3 DEF Dispatch
  <2>2. WorkConserving'
    <3> SUFFICES ASSUME NEW d \in judges', working'[d] = NoSub, ~updating'[d]
                 PROVE  \A p \in Priorities : \A i \in 1..Len(queue'[p]) :
                          ~CanJudge(d, problems'[d], queue'[p][i])
      BY DEF WorkConserving, NothingFor
    <3>1. d # c
      BY <1>3, <2>1
    <3>2. NothingFor(d, problems'[d])
      BY <1>3, <2>1, <3>1
    <3> QED
      BY <1>3, <3>2, LessToDo
  <2>3. PoolIsConnected'
    BY <1>3 DEF PoolIsConnected
  <2>4. WaitingIsNotGraded' /\ KnownOnly'
    BY <1>3, <2>1 DEF WaitingIsNotGraded, KnownOnly
  <2> QED
    BY <2>2, <2>3, <2>4
<1>4. ASSUME NEW s \in node_map, NEW o \in Outcomes,
             Dispatch(c, s, map, work, held, o),
             judges' = pool \ {c},
             UNCHANGED <<queue, node_map>>
      PROVE  Promises'
  <2>1. /\ submission_map' = [map EXCEPT ![s] = c]
        /\ \A d \in Conns \ {c} : working'[d] = work[d]
    BY <1>4 DEF Dispatch
  <2>2. WorkConserving'
    BY <1>4, <2>1 DEF WorkConserving, NothingFor
  <2>3. PoolIsConnected'
    BY <1>4 DEF PoolIsConnected
  <2>4. WaitingIsNotGraded' /\ KnownOnly'
    BY <1>4, <2>1 DEF WaitingIsNotGraded, KnownOnly
  <2> QED
    BY <2>2, <2>3, <2>4
<1> QED
  BY <1>2, <1>3, <1>4, FreeJudgeOutcome

-----------------------------------------------------------------------------
(* Every step *)

\* The empty list keeps its promises.
LEMMA InitService == Init => ServiceInv
<1> SUFFICES ASSUME Init PROVE ServiceInv
  OBVIOUS
<1>1. TypeOK /\ QueueConsistent
  BY InitType, InitQueueConsistent
<1>2. WorkConserving /\ PoolIsConnected /\ WaitingIsNotGraded /\ KnownOnly
  BY JudgeListAssumption
     DEF JudgeListAssumption, Init, WorkConserving, PoolIsConnected, WaitingIsNotGraded, KnownOnly
<1> QED
  BY <1>1, <1>2 DEF ServiceInv

\* A registration keeps them.
LEMMA RegisterServes ==
  ASSUME ServiceInv, NEW c \in Conns, NEW declared \in SUBSET Problems,
         Register(c, declared, AnyWay)
  PROVE  Promises'
<1>1. /\ life[c] = "new"
      /\ life' = [life EXCEPT ![c] = "on"]
      /\ problems' = [problems EXCEPT ![c] = declared]
      /\ updating' = updating
      /\ HandleFreeJudge(c, judges \cup {c}, declared, submission_map, working, at_judge, AnyWay)
  BY DEF Register
<1>2. problems'[c] = declared
  BY <1>1 DEF ServiceInv, TypeOK
<1>3. c \notin judges /\ \A s \in Subs : submission_map[s] # c
  BY <1>1 DEF ServiceInv, PoolIsConnected, KnownOnly
<1>4. WellEntered(c, judges \cup {c}, submission_map, working)
  BY <1>1, <1>3 DEF ServiceInv, TypeOK, WellEntered, WorkConserving, PoolIsConnected,
                    WaitingIsNotGraded, KnownOnly
<1> QED
  BY <1>1, <1>2, <1>4, FreeJudgeServes DEF ServiceInv

\* So does a new list of problems.
LEMMA UpdateProblemsServes ==
  ASSUME ServiceInv, NEW c \in Conns, UpdateProblems(c, AnyWay)
  PROVE  Promises'
<1>1. /\ updating[c]
      /\ updating' = [updating EXCEPT ![c] = FALSE]
      /\ problems' = problems
      /\ life' = life
      /\ HandleFreeJudge(c, judges, problems'[c], submission_map, working, at_judge, AnyWay)
  BY DEF UpdateProblems
<1>2. WellEntered(c, judges, submission_map, working)
  BY <1>1 DEF ServiceInv, TypeOK, WellEntered, WorkConserving, PoolIsConnected,
              WaitingIsNotGraded, KnownOnly
<1> QED
  BY <1>1, <1>2, FreeJudgeServes DEF ServiceInv

\* So does a report.
LEMMA OnJudgeFreeServes ==
  ASSUME ServiceInv, NEW c \in Conns, NEW s \in Subs, OnJudgeFree(c, s, AnyWay)
  PROVE  Promises'
<1>1. /\ life[c] = "on"
      /\ ~updating[c]
      /\ problems' = problems
      /\ life' = life
      /\ updating' = updating
  BY DEF OnJudgeFree
<1>2. CASE submission_map[s] = NoConn
  <2>1. UNCHANGED <<queue, node_map, submission_map, judges, working>>
    BY <1>2 DEF OnJudgeFree
  <2> QED
    BY <1>1, <2>1 DEF ServiceInv, Promises, WorkConserving, NothingFor, PoolIsConnected,
                      WaitingIsNotGraded, KnownOnly
<1>3. CASE submission_map[s] # NoConn
  <2> DEFINE map  == [submission_map EXCEPT ![s] = NoConn]
             work == [working EXCEPT ![c] = NoSub]
             held == [at_judge EXCEPT ![c] = @ \ {s}]
  <2>1. HandleFreeJudge(c, judges, problems'[c], map, work, held, AnyWay)
    BY <1>1, <1>3 DEF OnJudgeFree
  <2>2. WellEntered(c, judges, map, work)
    <3>1. map \in [Subs -> Conns \cup {NoConn}] /\ work \in [Conns -> Subs \cup {NoSub}]
      BY DEF ServiceInv, TypeOK
    <3>2. \A d \in judges \ {c} : work[d] = working[d]
      BY DEF ServiceInv, TypeOK
    <3>3. \A t \in Subs : map[t] \in {NoConn, submission_map[t]}
      BY DEF ServiceInv, TypeOK
    <3>4. NoConn \notin Conns
      BY JudgeListAssumption DEF JudgeListAssumption
    <3> HIDE DEF map, work
    <3> QED
      BY <1>1, <3>1, <3>2, <3>3, <3>4
         DEF ServiceInv, TypeOK, WellEntered, WorkConserving, PoolIsConnected,
             WaitingIsNotGraded, KnownOnly
  <2> HIDE DEF map, work, held
  <2> QED
    BY <2>1, <2>2, FreeJudgeServes DEF ServiceInv
<1> QED
  BY <1>2, <1>3

\* So does a request.
LEMMA JudgeServes ==
  ASSUME ServiceInv, NEW s \in Subs, NEW j \in Names \cup {AnyJudge}, NEW p \in Priorities,
         Judge(s, j, p, AnyWay)
  PROVE  Promises'
<1> DEFINE e == [id |-> s, judge_id |-> j]
<1>1. e \in Entry /\ e.id = s
  BY DEF Entry
<1> HIDE DEF e
<1>2. problems' = problems /\ life' = life /\ updating' = updating
  BY DEF Judge
<1>3. \/ UNCHANGED <<queue, node_map, submission_map, judges, working>>
      \/ \E c \in Candidates(e), o \in Outcomes :
           /\ s \notin node_map
           /\ Dispatch(c, s, submission_map, working, at_judge, o)
           /\ judges' = IF o = "sent" THEN judges ELSE judges \ {c}
           /\ UNCHANGED <<queue, node_map>>
      \/ /\ submission_map[s] = NoConn
         /\ s \notin node_map
         /\ Candidates(e) = {}
         /\ queue' = [queue EXCEPT ![p] = Append(@, e)]
         /\ node_map' = node_map \cup {s}
         /\ UNCHANGED <<submission_map, judges, working>>
  BY OutcomesForCandidates DEF Judge, ServiceInv, e
<1>4. CASE UNCHANGED <<queue, node_map, submission_map, judges, working>>
  BY <1>2, <1>4 DEF ServiceInv, Promises, WorkConserving, NothingFor, PoolIsConnected,
                    WaitingIsNotGraded, KnownOnly
<1>5. ASSUME NEW c \in Candidates(e), NEW o \in Outcomes,
             s \notin node_map,
             Dispatch(c, s, submission_map, working, at_judge, o),
             judges' = IF o = "sent" THEN judges ELSE judges \ {c},
             UNCHANGED <<queue, node_map>>
      PROVE  Promises'
  <2>1. c \in judges /\ c \in Conns
    BY DEF Candidates, ServiceInv, TypeOK
  <2>2. submission_map' = [submission_map EXCEPT ![s] = c]
    BY <1>5 DEF Dispatch
  <2>3. \A d \in judges' : working'[d] = NoSub => working[d] = NoSub
    BY <1>5, <2>1, JudgeListAssumption DEF Dispatch, ServiceInv, TypeOK, JudgeListAssumption
  <2>4. judges' \subseteq judges
    BY <1>5
  <2>5. WorkConserving'
    BY <1>2, <1>5, <2>3, <2>4 DEF ServiceInv, WorkConserving, NothingFor
  <2>6. PoolIsConnected'
    BY <1>2, <2>4 DEF ServiceInv, PoolIsConnected
  <2>7. \A t \in node_map : submission_map'[t] = submission_map[t]
    BY <1>5, <2>2 DEF ServiceInv, TypeOK
  <2>8. WaitingIsNotGraded'
    BY <1>5, <2>4, <2>7 DEF ServiceInv, WaitingIsNotGraded
  <2>9. KnownOnly'
    BY <1>2, <2>1, <2>2 DEF ServiceInv, TypeOK, PoolIsConnected, KnownOnly
  <2> QED
    BY <2>5, <2>6, <2>8, <2>9 DEF Promises
<1>6. CASE /\ submission_map[s] = NoConn
           /\ s \notin node_map
           /\ Candidates(e) = {}
           /\ queue' = [queue EXCEPT ![p] = Append(@, e)]
           /\ node_map' = node_map \cup {s}
           /\ UNCHANGED <<submission_map, judges, working>>
  <2>1. \A q \in Priorities : \A i \in 1..Len(queue'[q]) :
          queue'[q][i] = e \/ \E k \in 1..Len(queue[q]) : queue'[q][i] = queue[q][k]
    BY <1>1, <1>6, AddNodeFacts DEF ServiceInv
  <2>2. \A c \in judges : working[c] = NoSub => ~CanJudge(c, problems[c], e)
    BY <1>6 DEF Candidates
  <2>3. ASSUME NEW c \in judges, working[c] = NoSub, ~updating[c]
        PROVE  \A q \in Priorities : \A i \in 1..Len(queue'[q]) :
                 ~CanJudge(c, problems[c], queue'[q][i])
    <3>1. NothingFor(c, problems[c])
      BY <2>3 DEF ServiceInv, WorkConserving
    <3>2. ~CanJudge(c, problems[c], e)
      BY <2>2, <2>3
    <3> SUFFICES ASSUME NEW q \in Priorities, NEW i \in 1..Len(queue'[q])
                 PROVE  ~CanJudge(c, problems[c], queue'[q][i])
      OBVIOUS
    <3>3. CASE queue'[q][i] = e
      BY <3>2, <3>3
    <3>4. CASE \E k \in 1..Len(queue[q]) : queue'[q][i] = queue[q][k]
      BY <3>1, <3>4 DEF NothingFor
    <3> QED
      BY <2>1, <3>3, <3>4
  <2>4. WorkConserving'
    BY <1>2, <1>6, <2>3 DEF WorkConserving, NothingFor
  <2>5. WaitingIsNotGraded'
    BY <1>6, JudgeListAssumption
       DEF ServiceInv, TypeOK, WaitingIsNotGraded, JudgeListAssumption
  <2> QED
    BY <1>2, <1>6, <2>4, <2>5 DEF ServiceInv, Promises, PoolIsConnected, KnownOnly
<1> QED
  BY <1>3, <1>4, <1>5, <1>6

\* So does a lost connection.
LEMMA RemoveServes ==
  ASSUME ServiceInv, NEW c \in Conns, Remove(c)
  PROVE  Promises'
<1>1. /\ ~updating[c]
      /\ life' = [life EXCEPT ![c] = "gone"]
      /\ judges' = judges \ {c}
      /\ UNCHANGED <<queue, node_map, working, problems, updating>>
  BY DEF Remove
<1>2. \A s \in Subs : submission_map'[s] \in {NoConn, submission_map[s]}
  BY DEF Remove, ServiceInv, TypeOK
<1>3. NoConn \notin Conns
  BY JudgeListAssumption DEF JudgeListAssumption
<1> QED
  BY <1>1, <1>2, <1>3 DEF ServiceInv, TypeOK, Promises, WorkConserving, NothingFor,
                          PoolIsConnected, WaitingIsNotGraded, KnownOnly

\* So does an abort.
LEMMA AbortServes ==
  ASSUME ServiceInv, NEW s \in Subs, Abort(s)
  PROVE  Promises'
<1>1. PICK p \in Priorities : \E i \in 1..Len(queue[p]) : RemoveNode(p, i)
  BY DEF Abort
<1>2. PICK i \in 1..Len(queue[p]) : RemoveNode(p, i)
  BY <1>1
<1>3. NoNewNode /\ node_map' \subseteq node_map
  BY <1>2, RemoveNodeFacts DEF ServiceInv, NoNewNode, RemoveNode
<1>4. UNCHANGED <<submission_map, judges, working, problems, life, updating>>
  BY DEF Abort
<1>5. WorkConserving'
  BY <1>3, <1>4, LessToDo DEF ServiceInv, WorkConserving, NothingFor
<1> QED
  BY <1>3, <1>4, <1>5 DEF ServiceInv, Promises, PoolIsConnected, WaitingIsNotGraded, KnownOnly

\* The invariant of the promises is inductive.
LEMMA NextService == ServiceInv /\ [Next]_listVars => ServiceInv'
<1> SUFFICES ASSUME ServiceInv, [Next]_listVars PROVE ServiceInv'
  OBVIOUS
<1>1. TypeOK' /\ QueueConsistent'
  BY NextType, NextQueueConsistent DEF ServiceInv
<1>2. ASSUME NEW c \in Conns, NEW declared \in SUBSET Problems, DeclareProblems(c, declared)
      PROVE  Promises'
  BY <1>2 DEF DeclareProblems, ServiceInv, TypeOK, Promises, WorkConserving, NothingFor,
              PoolIsConnected, WaitingIsNotGraded, KnownOnly
<1>3. ASSUME Restart
      PROVE  Promises'
  BY <1>3, JudgeListAssumption
     DEF Restart, Promises, WorkConserving, PoolIsConnected, WaitingIsNotGraded, KnownOnly,
         JudgeListAssumption
<1>4. ASSUME UNCHANGED listVars
      PROVE  Promises'
  <2>1. UNCHANGED <<queue, node_map, submission_map, judges, working, problems, life, updating>>
    BY <1>4 DEF listVars
  <2>2. WorkConserving'
    BY <2>1 DEF ServiceInv, WorkConserving, NothingFor
  <2>3. PoolIsConnected' /\ WaitingIsNotGraded' /\ KnownOnly'
    BY <2>1 DEF ServiceInv, PoolIsConnected, WaitingIsNotGraded, KnownOnly
  <2> QED
    BY <2>2, <2>3 DEF Promises
<1>5. ASSUME NEW c \in Conns, ConnStep(c)
      PROVE  Promises'
  BY <1>2, <1>5, RegisterServes, UpdateProblemsServes, OnJudgeFreeServes, RemoveServes DEF ConnStep
<1>6. ASSUME NEW s \in Subs, WebStep(s)
      PROVE  Promises'
  BY <1>6, JudgeServes, AbortServes DEF WebStep
<1>7. Promises'
  BY <1>3, <1>4, <1>5, <1>6 DEF Next
<1> QED
  BY <1>1, <1>7 DEF ServiceInv, Promises

-----------------------------------------------------------------------------
(* The theorems *)

\* The invariant of the promises holds in every reachable state.
LEMMA ServiceInvariant == Spec => []ServiceInv
  BY InitService, NextService, PTL DEF Spec

\* However dispatches end and connections come and go, a judge of the pool is
\* never left idle next to a submission it could grade.
THEOREM NoIdleJudge == Spec => []WorkConserving
<1>1. ServiceInv => WorkConserving
  BY DEF ServiceInv
<1> QED
  BY <1>1, ServiceInvariant, PTL

\* Once on_disconnect has taken a connection out, nothing puts it back.
THEOREM PoolStaysConnected == Spec => []PoolIsConnected
<1>1. ServiceInv => PoolIsConnected
  BY DEF ServiceInv
<1> QED
  BY <1>1, ServiceInvariant, PTL

\* A submission never waits in the queue while a judge of the pool has it.
THEOREM NeverWaitsAndGrades == Spec => []WaitingIsNotGraded
<1>1. ServiceInv => WaitingIsNotGraded
  BY DEF ServiceInv
<1> QED
  BY <1>1, ServiceInvariant, PTL

\* Both, whatever way a dispatch fails.
THEOREM PoolStaysHonest == Spec => []PoolIsHonest
<1>1. PoolIsConnected /\ WaitingIsNotGraded => PoolIsHonest
  BY DEF PoolIsHonest
<1> QED
  BY <1>1, PoolStaysConnected, NeverWaitsAndGrades, PTL
=============================================================================
