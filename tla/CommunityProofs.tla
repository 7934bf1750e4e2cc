--------------------------- MODULE CommunityProofs ---------------------------
(***************************************************************************)
(* Proofs about the parts of the site around its submissions: who is let   *)
(* into an organization, the kept pieces of a rendered page, what a        *)
(* verdict leaves in the totals of its author, what the staff do to a      *)
(* contest, and the archive of a user's data.  The last theorem is about   *)
(* the specification of them all, with the tickets of SubmittingProofs.    *)
(***************************************************************************)
EXTENDS SubmittingProofs, Membership, PageCache, Standing, Desk, Export, MCCommunity,
        WellFoundedInduction

-----------------------------------------------------------------------------
(* Membership: requests and forms let in whom the organization chose *)

Row == [state : {"P", "A", "R"}, user : Users, org : Orgs \ Open] \cup {NotAsked}
JobType == [at : {"idle", "join", "decide", "approve", "profile"},
            user : Users \cup {Nobody}, org : Orgs \cup {Nobody},
            todo : SUBSET (Asked \X Row), add : SUBSET (Users \X Orgs), chosen : SUBSET Orgs]
RacedType == [pairs : SUBSET (Users \X Orgs), orgs : SUBSET Orgs, users : SUBSET Users]
MemberTypes ==
  /\ joined \subseteq Users \X Orgs /\ letIn \subseteq Users \X Orgs
  /\ asked \in [Asked -> Row] /\ clerk \in [Clerks -> JobType]
  /\ visits \in 0 .. MaxVisits
  /\ raced \in RacedType

\* What a request holds, by the page it is for.
JobShape(job) ==
  /\ job.at # "decide" => job.todo = {}
  /\ job.at # "profile" => job.chosen = {}
  /\ job.at \in {"idle", "profile"} => job.add = {}
  /\ job.at = "join" => job.user \in Users /\ job.add \subseteq {job.user} \X Open
  /\ job.at = "profile" => job.user \in Users /\ Cardinality(job.chosen \cap Open) <= MaxPublic
  /\ job.at \in {"decide", "approve"} =>
       job.org \in Orgs \ Open /\ job.add \subseteq Users \X {job.org}
  /\ \A t \in job.todo : t[2] = NotAsked \/ t[2].org = job.org
JobShapes == \A c \in Clerks : JobShape(clerk[c])

\* Who is decided upon and has not left meanwhile was let in.
LetInHolds == (joined \cup Coming) \ raced.pairs \subseteq letIn

\* A profile keeps a closed organization only for a member of it.
ChosenWereMembers ==
  \A c \in Clerks : clerk[c].at = "profile" /\ clerk[c].user \notin EditAll =>
    \A o \in clerk[c].chosen \ Open : <<clerk[c].user, o>> \in joined \cup raced.pairs

\* Members of o, and those that requests under way will make members.
Admits(job, u, o) ==
  <<u, o>> \in job.add \/ \E t \in job.todo : t[2].state = "A" /\ t[2].user = u /\ t[2].org = o
Potential(o) ==
  {u \in Users \ EditAll : <<u, o>> \notin raced.pairs /\
     (<<u, o>> \in joined \/ \E c \in Clerks : Admits(clerk[c], u, o))}
PotentialHolds ==
  \A o \in DOMAIN Slots \ (Open \cup raced.orgs) : Cardinality(Potential(o)) <= Slots[o]

Wanted(u) ==
  {o \in Open : <<u, o>> \notin raced.pairs /\
     (<<u, o>> \in joined \/ \E c \in Clerks : <<u, o>> \in clerk[c].add)}
WantedHolds == \A u \in Users \ raced.users : Cardinality(Wanted(u)) <= MaxPublic

\* Of the requests that count the open organizations of a user there is one.
OneCounts ==
  \A c, d \in Clerks :
    c # d /\ {clerk[c].at, clerk[d].at} \subseteq {"join", "profile"} /\ clerk[c].user = clerk[d].user
      => clerk[c].user \in raced.users

MemberInv == MemberTypes /\ JobShapes /\ LetInHolds /\ ChosenWereMembers /\ PotentialHolds
             /\ WantedHolds /\ OneCounts
-----------------------------------------------------------------------------
\* The parts of a job, and of the record of races.
LEMMA JobParts ==
  ASSUME NEW at, NEW user, NEW org, NEW todo, NEW add, NEW chosen
  PROVE  LET job == Job(at, user, org, todo, add, chosen)
         IN  job.at = at /\ job.user = user /\ job.org = org /\ job.todo = todo
             /\ job.add = add /\ job.chosen = chosen
BY DEF Job

\* A job of well-typed parts is well typed.
LEMMA JobTyped ==
  ASSUME NEW at \in {"idle", "join", "decide", "approve", "profile"}, NEW user \in Users \cup {Nobody},
         NEW org \in Orgs \cup {Nobody}, NEW todo \in SUBSET (Asked \X Row),
         NEW add \in SUBSET (Users \X Orgs), NEW chosen \in SUBSET Orgs
  PROVE  Job(at, user, org, todo, add, chosen) \in JobType
BY DEF Job, JobType

\* What a clerk has in hand is of users, organizations and requests.
LEMMA JobFields ==
  ASSUME MemberTypes, NEW c \in Clerks
  PROVE  /\ clerk[c] \in JobType /\ clerk[c].at \in {"idle", "join", "decide", "approve", "profile"}
         /\ clerk[c].user \in Users \cup {Nobody} /\ clerk[c].org \in Orgs \cup {Nobody}
         /\ clerk[c].todo \in SUBSET (Asked \X Row) /\ clerk[c].add \in SUBSET (Users \X Orgs)
         /\ clerk[c].chosen \in SUBSET Orgs
BY DEF MemberTypes, JobType

\* So are the races.
LEMMA RacedFields ==
  ASSUME MemberTypes
  PROVE  raced.pairs \subseteq Users \X Orgs /\ raced.orgs \subseteq Orgs /\ raced.users \subseteq Users
BY DEF MemberTypes, RacedType

\* A departure races with those who are about to let the same user in.
LEMMA DepartsRaced ==
  ASSUME MemberTypes, NEW pairs \in SUBSET (Users \X Orgs), Departs(pairs)
  PROVE  /\ raced' \in RacedType /\ raced'.pairs = raced.pairs \cup (pairs \cap Coming)
         /\ raced'.orgs = raced.orgs /\ raced'.users = raced.users
BY DEF Departs, MemberTypes, RacedType

\* A count of open memberships races with the user's other joins.
LEMMA CountsOpenRaced ==
  ASSUME MemberTypes, NEW u \in Users, CountsOpen(u)
  PROVE  /\ raced' \in RacedType /\ raced'.pairs = raced.pairs /\ raced'.orgs = raced.orgs
         /\ raced.users \subseteq raced'.users
         /\ (\E c \in Clerks : clerk[c].at \in {"join", "profile"} /\ clerk[c].user = u) => u \in raced'.users
<1>1. CASE \E c \in Clerks : clerk[c].at \in {"join", "profile"} /\ clerk[c].user = u
  BY <1>1 DEF CountsOpen, MemberTypes, RacedType
<1>2. CASE ~\E c \in Clerks : clerk[c].at \in {"join", "profile"} /\ clerk[c].user = u
  BY <1>2 DEF CountsOpen, MemberTypes, RacedType
<1> QED
  BY <1>1, <1>2

\* A count of members races with the organization's other approvals.
LEMMA CountsMembersRaced ==
  ASSUME MemberTypes, NEW o \in Orgs, CountsMembers(o)
  PROVE  /\ raced' \in RacedType /\ raced'.pairs = raced.pairs /\ raced'.users = raced.users
         /\ raced.orgs \subseteq raced'.orgs
         /\ (\E c \in Clerks : clerk[c].at \in {"decide", "approve"} /\ clerk[c].org = o) => o \in raced'.orgs
<1>1. CASE \E c \in Clerks : clerk[c].at \in {"decide", "approve"} /\ clerk[c].org = o
  BY <1>1 DEF CountsMembers, MemberTypes, RacedType
<1>2. CASE ~\E c \in Clerks : clerk[c].at \in {"decide", "approve"} /\ clerk[c].org = o
  BY <1>2 DEF CountsMembers, MemberTypes, RacedType
<1> QED
  BY <1>1, <1>2

\* A request takes a new job, or goes on with its own.
LEMMA JobWorks ==
  ASSUME MemberTypes, JobShapes, NEW c \in Clerks, NEW job \in JobType, JobShape(job), Works(c, job)
  PROVE  /\ clerk' \in [Clerks -> JobType] /\ JobShapes'
         /\ clerk'[c] = job /\ \A d \in Clerks \ {c} : clerk'[d] = clerk[d]
<1>1. /\ clerk' \in [Clerks -> JobType]
      /\ clerk'[c] = job /\ \A d \in Clerks \ {c} : clerk'[d] = clerk[d]
  BY DEF Works, MemberTypes
<1>2. \A d \in Clerks : JobShape(clerk'[d])
  BY <1>1 DEF JobShapes
<1> QED
  BY <1>1, <1>2 DEF JobShapes, JobShape

\* Who is coming is in the hands of a clerk.
LEMMA ComingPairs ==
  \A p : p \in Coming <=> \E c \in Clerks :
           p \in clerk[c].add \/ p \in {clerk[c].user} \X clerk[c].chosen
BY DEF Coming
-----------------------------------------------------------------------------
\* A set of users, or of organizations, that does not grow keeps its bound.
LEMMA SmallerSets ==
  ASSUME NEW S, NEW T, IsFiniteSet(T), S \subseteq T, NEW n \in Nat, Cardinality(T) <= n
  PROVE  Cardinality(S) <= n
BY FS_Subset, FS_CardinalityType

\* Below a bound there is room for one more.
LEMMA OneMore ==
  ASSUME NEW S, IsFiniteSet(S), NEW x, NEW n \in Nat, Cardinality(S) < n
  PROVE  IsFiniteSet(S \cup {x}) /\ Cardinality(S \cup {x}) <= n
<1>1. Cardinality(S) \in Nat
  BY FS_CardinalityType
<1>2. IsFiniteSet(S \cup {x})
      /\ (Cardinality(S \cup {x}) = Cardinality(S) \/ Cardinality(S \cup {x}) = Cardinality(S) + 1)
  BY FS_AddElement
<1> QED
  BY <1>1, <1>2

\* Members and those to come can be counted.
LEMMA PotentialFinite == \A o : IsFiniteSet(Potential(o)) /\ Potential(o) \subseteq Users
BY RowsAssumption, FS_Subset DEF Potential

\* So can the organizations of a user.
LEMMA WantedFinite == \A u : IsFiniteSet(Wanted(u)) /\ Wanted(u) \subseteq Orgs
BY RowsAssumption, OrgsAssumption, FS_Subset DEF Wanted

\* Slots hold while no organization outside a race grows beyond them.
LEMMA PotentialStays ==
  ASSUME PotentialHolds, raced.orgs \subseteq raced'.orgs,
         \A o \in DOMAIN Slots \ (Open \cup raced'.orgs) :
           Potential(o)' \subseteq Potential(o) \/ Cardinality(Potential(o)') <= Slots[o]
  PROVE  PotentialHolds'
<1> SUFFICES ASSUME NEW o \in DOMAIN Slots \ (Open \cup raced'.orgs)
             PROVE  Cardinality(Potential(o)') <= Slots[o]
  BY DEF PotentialHolds
<1>1. CASE Potential(o)' \subseteq Potential(o)
  BY <1>1, PotentialFinite, SmallerSets, SlotsAssumption DEF PotentialHolds
<1> QED
  BY <1>1

\* So does the bound on open memberships.
LEMMA WantedStays ==
  ASSUME WantedHolds, raced.users \subseteq raced'.users,
         \A u \in Users \ raced'.users :
           Wanted(u)' \subseteq Wanted(u) \/ Cardinality(Wanted(u)') <= MaxPublic
  PROVE  WantedHolds'
<1> SUFFICES ASSUME NEW u \in Users \ raced'.users
             PROVE  Cardinality(Wanted(u)') <= MaxPublic
  BY DEF WantedHolds
<1>1. CASE Wanted(u)' \subseteq Wanted(u)
  BY <1>1, WantedFinite, SmallerSets, SlotsAssumption DEF WantedHolds
<1> QED
  BY <1>1

\* A step at which nobody departs: job is what the request does now, new are the
\* pairs that its checks let in.
LEMMA NobodyDeparts ==
  ASSUME MemberInv, NEW c \in Clerks, NEW job \in JobType, JobShape(job), Works(c, job),
         NEW new \in SUBSET (Users \X Orgs), letIn' = letIn \cup new,
         asked' \in [Asked -> Row], visits' \in 0 .. MaxVisits,
         raced' \in RacedType, raced'.pairs = raced.pairs,
         raced.orgs \subseteq raced'.orgs, raced.users \subseteq raced'.users,
         joined \subseteq joined', joined' \subseteq joined \cup clerk[c].add,
         job.add \subseteq clerk[c].add \cup new,
         job.at = "profile" =>
           /\ {job.user} \X job.chosen \subseteq joined \cup new
           /\ job.user \notin EditAll => \A o \in job.chosen \ Open : <<job.user, o>> \in joined,
         \A o \in DOMAIN Slots \ (Open \cup raced'.orgs) :
           \/ \A u \in Users : Admits(job, u, o) => Admits(clerk[c], u, o)
           \/ Cardinality(Potential(o)') <= Slots[o],
         \A u \in Users \ raced'.users :
           \/ \A o \in Open : <<u, o>> \in job.add => <<u, o>> \in clerk[c].add
           \/ Cardinality(Wanted(u)') <= MaxPublic,
         \A d \in Clerks \ {c} :
           {job.at, clerk[d].at} \subseteq {"join", "profile"} /\ clerk[d].user = job.user
             => job.user \in raced'.users
  PROVE  MemberInv'
<1> USE DEF MemberInv
<1>1. /\ clerk' \in [Clerks -> JobType] /\ JobShapes'
      /\ clerk'[c] = job /\ \A d \in Clerks \ {c} : clerk'[d] = clerk[d]
  BY JobWorks
<1>2. MemberTypes'
  <2>1. joined' \subseteq Users \X Orgs
    BY JobFields DEF MemberTypes
  <2> QED
    BY <1>1, <2>1 DEF MemberTypes
<1>3. LetInHolds'
  <2> SUFFICES ASSUME NEW p \in (joined' \cup Coming') \ raced.pairs PROVE p \in letIn \cup new
    BY DEF LetInHolds
  <2>1. p \in Coming' => \E d \in Clerks : p \in clerk'[d].add \/ p \in {clerk'[d].user} \X clerk'[d].chosen
    BY DEF Coming
  <2>2. p \in joined' => p \in joined \cup Coming
    BY ComingPairs
  <2>3. ASSUME NEW d \in Clerks, p \in clerk'[d].add \/ p \in {clerk'[d].user} \X clerk'[d].chosen
        PROVE  p \in joined \cup Coming \cup new
    <3>1. CASE d # c
      BY <1>1, <2>3, <3>1, ComingPairs
    <3>2. CASE d = c
      <4>1. job.at # "profile" => job.chosen = {}
        BY DEF JobShape
      <4> QED
        BY <1>1, <2>3, <3>2, <4>1, ComingPairs
    <3> QED
      BY <3>1, <3>2
  <2> QED
    BY <2>1, <2>2, <2>3 DEF LetInHolds
<1>4. ChosenWereMembers'
  BY <1>1 DEF ChosenWereMembers
<1>5. PotentialHolds'
  <2> SUFFICES ASSUME NEW o \in DOMAIN Slots \ (Open \cup raced'.orgs),
                      \A u \in Users : Admits(job, u, o) => Admits(clerk[c], u, o)
               PROVE  Potential(o)' \subseteq Potential(o)
    BY PotentialStays
  <2> SUFFICES ASSUME NEW u \in Potential(o)' PROVE u \in Potential(o)
    OBVIOUS
  <2>1. /\ u \in Users \ EditAll /\ <<u, o>> \notin raced.pairs
        /\ <<u, o>> \in joined' \/ \E d \in Clerks : Admits(clerk'[d], u, o)
    BY DEF Potential, Admits
  <2>2. <<u, o>> \in clerk[c].add => Admits(clerk[c], u, o)
    BY DEF Admits
  <2>3. <<u, o>> \in joined \/ \E d \in Clerks : Admits(clerk[d], u, o)
    BY <1>1, <2>1, <2>2
  <2> QED
    BY <2>1, <2>3 DEF Potential
<1>6. WantedHolds'
  <2> SUFFICES ASSUME NEW u \in Users \ raced'.users,
                      \A o \in Open : <<u, o>> \in job.add => <<u, o>> \in clerk[c].add
               PROVE  Wanted(u)' \subseteq Wanted(u)
    BY WantedStays
  <2> QED
    BY <1>1 DEF Wanted
<1>7. OneCounts'
  BY <1>1 DEF OneCounts
<1> QED
  BY <1>1, <1>2, <1>3, <1>4, <1>5, <1>6, <1>7
-----------------------------------------------------------------------------
\* A clerk at rest lets nobody in.
LEMMA IdleJob ==
  /\ Unoccupied \in JobType /\ JobShape(Unoccupied)
  /\ Unoccupied.at = "idle" /\ Unoccupied.add = {} /\ Unoccupied.todo = {} /\ Unoccupied.chosen = {}
  /\ \A u, o : ~Admits(Unoccupied, u, o)
<1>1. Unoccupied \in JobType
  BY JobTyped DEF Unoccupied
<1>2. Unoccupied.at = "idle" /\ Unoccupied.add = {} /\ Unoccupied.todo = {} /\ Unoccupied.chosen = {}
  BY DEF Unoccupied, Job
<1> QED
  BY <1>1, <1>2 DEF JobShape, Admits

\* A pair of an open organization is only written for a user who joins it.
LEMMA OpenAdds ==
  ASSUME NEW job \in JobType, JobShape(job), NEW u, NEW o \in Open, <<u, o>> \in job.add
  PROVE  job.at = "join" /\ job.user = u
<1>1. job.at \in {"idle", "join", "decide", "approve", "profile"}
  BY DEF JobType
<1> QED
  BY <1>1 DEF JobShape

\* Approvals let users into their own organization, which is not open.
LEMMA ClosedAdmits ==
  ASSUME NEW job \in JobType, JobShape(job), NEW u, NEW o, o \notin Open, o \in Orgs, Admits(job, u, o)
  PROVE  job.at \in {"decide", "approve"} /\ job.org = o
<1>1. job.at \in {"idle", "join", "decide", "approve", "profile"}
  BY DEF JobType
<1>2. NotAsked.state # "A"
  BY DEF NotAsked
<1> QED
  BY <1>1, <1>2 DEF JobShape, Admits

\* A join of an open organization is counted first.
LEMMA JoinOpenKeeps ==
  ASSUME MemberInv, NEW c \in Clerks, NEW u \in Users, NEW o \in Orgs, JoinOpen(c, u, o) PROVE MemberInv'
<1> DEFINE job == Job("join", u, Nobody, {}, {<<u, o>>}, {})
<1> USE DEF MemberInv
<1>1. /\ clerk[c] = Unoccupied /\ visits < MaxVisits /\ visits' = visits + 1
      /\ <<u, o>> \notin joined /\ o \in Open /\ Cardinality(OrgsOf(u) \cap Open) < MaxPublic
      /\ Works(c, job) /\ letIn' = letIn \cup {<<u, o>>}
      /\ CountsOpen(u) /\ UNCHANGED <<joined, asked>>
  BY Zenon DEF JoinOpen, Free, Visit
<1>2. /\ job \in JobType /\ job.at = "join" /\ job.user = u /\ job.add = {<<u, o>>}
      /\ job.todo = {} /\ job.chosen = {}
  BY JobTyped DEF Job
<1>3. JobShape(job)
  <2>1. job.add \subseteq {job.user} \X Open /\ job.user \in Users
    BY <1>1, <1>2
  <2> HIDE DEF job
  <2> QED
    BY <1>2, <2>1 DEF JobShape
<1>4. /\ raced' \in RacedType /\ raced'.pairs = raced.pairs /\ raced'.orgs = raced.orgs
      /\ raced.users \subseteq raced'.users
      /\ (\E d \in Clerks : clerk[d].at \in {"join", "profile"} /\ clerk[d].user = u) => u \in raced'.users
  BY <1>1, CountsOpenRaced
<1>5. asked' \in [Asked -> Row] /\ visits' \in 0 .. MaxVisits
  BY <1>1, SlotsAssumption DEF MemberTypes
<1>6. ASSUME u \notin raced'.users PROVE Cardinality(Wanted(u)') <= MaxPublic
  <2>1. Wanted(u)' \subseteq (OrgsOf(u) \cap Open) \cup {o}
    <3> SUFFICES ASSUME NEW x \in Wanted(u)', x # o PROVE x \in OrgsOf(u)
      BY DEF Wanted
    <3>1. x \in Open /\ x \in Orgs /\ (<<u, x>> \in joined \/ \E d \in Clerks : <<u, x>> \in clerk'[d].add)
      BY <1>1, OrgsAssumption DEF Wanted
    <3>2. ASSUME NEW d \in Clerks, <<u, x>> \in clerk'[d].add PROVE FALSE
      <4>1. clerk'[c] = job /\ \A e \in Clerks \ {c} : clerk'[e] = clerk[e]
        BY <1>1, <1>2, <1>3, JobWorks
      <4>2. d # c /\ <<u, x>> \in clerk[d].add
        BY <1>2, <3>2, <4>1
      <4>3. clerk[d].at = "join" /\ clerk[d].user = u
        BY <3>1, <4>2, OpenAdds, JobFields DEF JobShapes
      <4> QED
        BY <1>4, <1>6, <4>3
    <3> QED
      BY <3>1, <3>2 DEF OrgsOf
  <2>2. IsFiniteSet(OrgsOf(u) \cap Open)
    BY RowsAssumption, FS_Subset DEF OrgsOf
  <2>3. IsFiniteSet((OrgsOf(u) \cap Open) \cup {o})
        /\ Cardinality((OrgsOf(u) \cap Open) \cup {o}) <= MaxPublic
    BY <1>1, <2>2, OneMore, SlotsAssumption
  <2> HIDE DEF job
  <2> QED
    BY <2>1, <2>3, SmallerSets, SlotsAssumption
<1>7. \A v \in Users \ raced'.users :
        \/ \A x \in Open : <<v, x>> \in job.add => <<v, x>> \in clerk[c].add
        \/ Cardinality(Wanted(v)') <= MaxPublic
  <2> SUFFICES ASSUME NEW v \in Users \ raced'.users, v # u
               PROVE  \A x : <<v, x>> \notin job.add
    BY <1>6
  <2> QED
    BY <1>2
<1>8. \A x \in DOMAIN Slots \ (Open \cup raced'.orgs) :
        \A v \in Users : Admits(job, v, x) => Admits(clerk[c], v, x)
  BY <1>1, <1>2 DEF Admits
<1>9. \A d \in Clerks \ {c} :
        {job.at, clerk[d].at} \subseteq {"join", "profile"} /\ clerk[d].user = job.user
          => job.user \in raced'.users
  BY <1>2, <1>4
<1> HIDE DEF job
<1>10. {<<u, o>>} \in SUBSET (Users \X Orgs)
  OBVIOUS
<1> QED
  BY <1>1, <1>2, <1>3, <1>4, <1>5, <1>7, <1>8, <1>9, <1>10, NobodyDeparts

\* ... and then added.
LEMMA AddJoinedKeeps ==
  ASSUME MemberInv, NEW c \in Clerks, AddJoined(c) PROVE MemberInv'
<1>1. /\ Works(c, Unoccupied) /\ joined' = joined \cup clerk[c].add
      /\ UNCHANGED <<asked, visits, letIn, raced>>
  BY DEF AddJoined, Ends
<1>2. asked' \in [Asked -> Row] /\ visits' \in 0 .. MaxVisits /\ raced' \in RacedType
  BY <1>1 DEF MemberInv, MemberTypes
<1>3. letIn' = letIn \cup {}
  BY <1>1
<1> QED
  BY <1>1, <1>2, <1>3, IdleJob, NobodyDeparts

\* No more values than arguments; as many members of two sets as the sets have.
LEMMA ImageBound ==
  ASSUME NEW A, IsFiniteSet(A), NEW f
  PROVE  LET image == {f[a] : a \in A}
         IN  /\ IsFiniteSet(image) /\ Cardinality(image) \in Nat
             /\ Cardinality(A) \in Nat /\ Cardinality(image) <= Cardinality(A)
<1> DEFINE image == {f[a] : a \in A}
<1> DEFINE g == [a \in A |-> f[a]]
<1>1. g \in Surjection(A, image)
  BY DEF Surjection
<1>2. IsFiniteSet(image) /\ Cardinality(image) <= Cardinality(A)
  BY <1>1, FS_Surjection
<1> QED
  BY <1>2, FS_CardinalityType

\* Two sets within two bounds.
LEMMA UnionBound ==
  ASSUME NEW S, NEW T, IsFiniteSet(S), IsFiniteSet(T), NEW n \in Nat, Cardinality(S) + Cardinality(T) <= n
  PROVE  IsFiniteSet(S \cup T) /\ Cardinality(S \cup T) <= n
<1>1. IsFiniteSet(S \cup T) /\ IsFiniteSet(S \cap T)
      /\ Cardinality(S \cup T) = Cardinality(S) + Cardinality(T) - Cardinality(S \cap T)
  BY FS_Union, FS_Intersection
<1>2. Cardinality(S) \in Nat /\ Cardinality(T) \in Nat /\ Cardinality(S \cap T) \in Nat
      /\ Cardinality(S \cup T) \in Nat
  BY <1>1, FS_CardinalityType
<1> QED
  BY <1>1, <1>2

\* A request is nobody's, or by a user for an organization that is not open.
LEMMA RowFields ==
  ASSUME MemberTypes, NEW r \in Asked, asked[r].org \in Orgs
  PROVE  asked[r].user \in Users /\ asked[r].org \in Orgs \ Open
<1>1. asked[r] \in Row /\ NotAsked.org \notin Orgs
  BY OrgsAssumption DEF MemberTypes, NotAsked
<1>2. asked[r] \in [state : {"P", "A", "R"}, user : Users, org : Orgs \ Open]
  BY <1>1 DEF Row
<1> QED
  BY <1>2

\* A decision changes the state of a request only.
LEMMA DecidedRow ==
  ASSUME MemberTypes, NEW r \in Asked, asked[r].org \in Orgs, NEW d \in {"P", "A", "R", "none"}
  PROVE  /\ Decided(r, d) \in Row
         /\ Decided(r, d) = NotAsked \/ Decided(r, d).org = asked[r].org
         /\ Decided(r, d).state = "A" => d = "A" /\ Decided(r, d).user = asked[r].user
<1>1. asked[r].user \in Users /\ asked[r].org \in Orgs \ Open
  BY RowFields
<1>2. CASE d = "none"
  BY <1>2 DEF Decided, Row, NotAsked
<1>3. CASE d # "none"
  <2>1. Decided(r, d) = [state |-> d, user |-> asked[r].user, org |-> asked[r].org]
    BY <1>3 DEF Decided
  <2> QED
    BY <1>1, <1>3, <2>1 DEF Row
<1> QED
  BY <1>2, <1>3

\* The form that decides counts whom it lets in against the slots.
LEMMA DecideKeeps ==
  ASSUME MemberInv, NEW c \in Clerks, NEW o \in Orgs, NEW about \in SUBSET Asked,
         NEW decisions \in [about -> {"P", "A", "R", "none"}], Decide(c, o, decisions)
  PROVE  MemberInv'
<1> USE DEF MemberInv
<1> DEFINE differing == {r \in about : decisions[r] # asked[r].state}
           todo == {<<r, Decided(r, decisions[r])>> : r \in differing}
           job == Job("decide", Nobody, o, todo, {}, {})
           approved == {r \in about : decisions[r] = "A"}
           users == {asked[r].user : r \in approved}
<1>1. /\ clerk[c] = Unoccupied /\ visits < MaxVisits /\ visits' = visits + 1
      /\ about # {} /\ \A r \in about : asked[r].org = o
      /\ o \in DOMAIN Slots => Cardinality(approved) + Cardinality(Members(o)) <= Slots[o]
      /\ Works(c, job) /\ CountsMembers(o) /\ UNCHANGED <<joined, asked, letIn>>
  BY Zenon DEF Decide, Free, Visit
<1>2. \A r \in about : /\ asked[r].user \in Users /\ o \in Orgs \ Open
                       /\ Decided(r, decisions[r]) \in Row
                       /\ Decided(r, decisions[r]) = NotAsked \/ Decided(r, decisions[r]).org = o
                       /\ Decided(r, decisions[r]).state = "A" =>
                            r \in approved /\ Decided(r, decisions[r]).user = asked[r].user
  BY <1>1, RowFields, DecidedRow
<1>3. todo \in SUBSET (Asked \X Row)
  BY <1>2
<1>4. \A t \in todo : /\ t[2] = NotAsked \/ t[2].org = o
                      /\ t[2].state = "A" => t[2].user \in users
  BY <1>2
<1>5. o \in Orgs \ Open
  BY <1>1, <1>2
<1> HIDE DEF todo
<1>6. /\ job \in JobType /\ job.at = "decide" /\ job.org = o /\ job.add = {}
      /\ job.todo = todo /\ job.chosen = {}
  BY <1>3, JobTyped DEF Job
<1> HIDE DEF job
<1>7. JobShape(job)
  BY <1>4, <1>5, <1>6 DEF JobShape
<1>8. /\ raced' \in RacedType /\ raced'.pairs = raced.pairs /\ raced'.users = raced.users
      /\ raced.orgs \subseteq raced'.orgs
      /\ (\E d \in Clerks : clerk[d].at \in {"decide", "approve"} /\ clerk[d].org = o) => o \in raced'.orgs
  BY <1>1, CountsMembersRaced
<1>9. asked' \in [Asked -> Row] /\ visits' \in 0 .. MaxVisits /\ letIn' = letIn \cup {}
  BY <1>1, SlotsAssumption DEF MemberTypes
<1>10. ASSUME o \notin raced'.orgs, o \in DOMAIN Slots PROVE Cardinality(Potential(o)') <= Slots[o]
  <2>1. Potential(o)' \subseteq Members(o) \cup users
    <3> SUFFICES ASSUME NEW u \in Potential(o)', <<u, o>> \notin joined PROVE u \in users
      BY <1>1 DEF Potential, Members
    <3>1. PICK d \in Clerks : Admits(clerk'[d], u, o)
      BY <1>1 DEF Potential, Admits
    <3>2. clerk'[c] = job /\ \A e \in Clerks \ {c} : clerk'[e] = clerk[e]
      BY <1>1, <1>6, <1>7, JobWorks
    <3>3. d = c
      BY <1>5, <1>8, <1>10, <3>1, <3>2, ClosedAdmits, JobFields DEF JobShapes
    <3> QED
      BY <1>4, <1>6, <3>1, <3>2, <3>3 DEF Admits
  <2>2. IsFiniteSet(Members(o)) /\ IsFiniteSet(approved)
    BY RowsAssumption, FS_Subset DEF Members
  <2>3. IsFiniteSet(users) /\ Cardinality(users) \in Nat /\ Cardinality(approved) \in Nat
        /\ Cardinality(users) <= Cardinality(approved) /\ Cardinality(Members(o)) \in Nat
    <3> DEFINE f == [r \in Asked |-> asked[r].user]
               image == {f[r] : r \in approved}
    <3>1. image = users
      OBVIOUS
    <3>2. IsFiniteSet(image) /\ Cardinality(image) \in Nat /\ Cardinality(approved) \in Nat
          /\ Cardinality(image) <= Cardinality(approved)
      <4> HIDE DEF f, approved
      <4> QED
        BY <2>2, ImageBound
    <3> QED
      BY <2>2, <3>1, <3>2, FS_CardinalityType
  <2>4. Cardinality(Members(o)) + Cardinality(users) <= Slots[o] /\ Slots[o] \in Nat
    BY <1>1, <1>10, <2>3, SlotsAssumption
  <2> HIDE DEF users
  <2> QED
    BY <2>1, <2>2, <2>3, <2>4, UnionBound, SmallerSets
<1>11. \A x \in DOMAIN Slots \ (Open \cup raced'.orgs) :
        \/ \A v \in Users : Admits(job, v, x) => Admits(clerk[c], v, x)
        \/ Cardinality(Potential(x)') <= Slots[x]
  <2> SUFFICES ASSUME NEW x \in DOMAIN Slots \ (Open \cup raced'.orgs), x # o, NEW v \in Users
               PROVE  ~Admits(job, v, x)
    BY <1>10
  <2> QED
    BY <1>6, <1>7, ClosedAdmits, SlotsAssumption
<1>12. \A v \in Users \ raced'.users : \A x \in Open : <<v, x>> \in job.add => <<v, x>> \in clerk[c].add
  BY <1>6
<1>13. {} \in SUBSET (Users \X Orgs) /\ joined \subseteq joined' /\ joined' \subseteq joined \cup clerk[c].add
  BY <1>1
<1> QED
  <2>1. job.at \notin {"profile", "join"} /\ job.add \subseteq clerk[c].add \cup {} /\ Works(c, job)
        /\ raced.users \subseteq raced'.users
    BY <1>1, <1>6, <1>8
  <2> HIDE DEF approved, differing, users, MemberInv
  <2> QED
    BY <1>6, <1>7, <1>8, <1>9, <1>11, <1>12, <1>13, <2>1, NobodyDeparts

\* It saves one request after the other.
LEMMA SaveDecisionKeeps ==
  ASSUME MemberInv, NEW c \in Clerks, NEW t \in clerk[c].todo, SaveDecision(c, t[1], t[2])
  PROVE  MemberInv'
<1> USE DEF MemberInv
<1> DEFINE answer == t[2]
           admitted == IF answer.state = "A" THEN {<<answer.user, answer.org>>} ELSE {}
           job == Job("decide", Nobody, clerk[c].org, clerk[c].todo \ {<<t[1], answer>>},
                      clerk[c].add \cup admitted, {})
<1>1. /\ clerk[c].at = "decide" /\ asked' = [asked EXCEPT ![t[1]] = answer]
      /\ Works(c, job) /\ letIn' = letIn \cup admitted /\ UNCHANGED <<joined, visits, raced>>
  BY Zenon DEF SaveDecision
<1>2. t[1] \in Asked /\ answer \in Row /\ (answer = NotAsked \/ answer.org = clerk[c].org)
      /\ clerk[c].org \in Orgs \ Open /\ clerk[c].add \subseteq Users \X {clerk[c].org}
  BY <1>1, JobFields DEF JobShapes, JobShape
<1>3. admitted \subseteq Users \X {clerk[c].org}
  <2>1. NotAsked.state # "A"
    BY DEF NotAsked
  <2>2. answer.state = "A" => answer.user \in Users /\ answer.org = clerk[c].org
    BY <1>2, <2>1 DEF Row
  <2> QED
    BY <2>2
<1>4. /\ job \in JobType /\ job.at = "decide" /\ job.org = clerk[c].org
      /\ job.todo \subseteq clerk[c].todo
      /\ job.add = clerk[c].add \cup admitted /\ job.chosen = {}
  <2>1. /\ (clerk[c].todo \ {<<t[1], answer>>}) \in SUBSET (Asked \X Row)
        /\ (clerk[c].add \cup admitted) \in SUBSET (Users \X Orgs)
    BY <1>2, <1>3, JobFields
  <2> HIDE DEF admitted, answer
  <2> QED
    BY <1>2, <2>1, JobTyped DEF Job
<1>5. \A u, o : Admits(job, u, o) => Admits(clerk[c], u, o)
  BY <1>4 DEF Admits
<1> HIDE DEF job, admitted, answer
<1>6. JobShape(job)
  <2>1. \A s \in job.todo : s[2] = NotAsked \/ s[2].org = job.org
    BY <1>4 DEF JobShapes, JobShape
  <2>2. job.add \subseteq Users \X {job.org}
    BY <1>2, <1>3, <1>4
  <2> QED
    BY <1>2, <1>4, <2>1, <2>2 DEF JobShape
<1>7. asked' \in [Asked -> Row] /\ visits' \in 0 .. MaxVisits /\ raced' \in RacedType
  BY <1>1, <1>2 DEF MemberTypes
<1>8. admitted \in SUBSET (Users \X Orgs)
  BY <1>2, <1>3
<1>9. \A u \in Users, o \in Open : <<u, o>> \notin job.add
  BY <1>4, <1>6, OpenAdds
<1> QED
  BY <1>1, <1>4, <1>5, <1>6, <1>7, <1>8, <1>9, NobodyDeparts

\* ... and goes on to the users it let in,
LEMMA StartApprovingKeeps ==
  ASSUME MemberInv, NEW c \in Clerks, StartApproving(c) PROVE MemberInv'
<1> USE DEF MemberInv
<1> DEFINE job == Job("approve", Nobody, clerk[c].org, {}, clerk[c].add, {})
<1>1. clerk[c].at = "decide" /\ Works(c, job) /\ UNCHANGED <<joined, asked, visits, letIn, raced>>
  BY DEF StartApproving
<1>2. /\ job \in JobType /\ job.at = "approve" /\ job.org = clerk[c].org /\ job.todo = {}
      /\ job.add = clerk[c].add /\ job.chosen = {}
  BY JobTyped, JobFields DEF Job
<1> HIDE DEF job
<1>3. JobShape(job)
  BY <1>1, <1>2 DEF JobShapes, JobShape
<1>4. \A u, o : Admits(job, u, o) => Admits(clerk[c], u, o)
  BY <1>2 DEF Admits
<1>5. asked' \in [Asked -> Row] /\ visits' \in 0 .. MaxVisits /\ raced' \in RacedType
      /\ letIn' = letIn \cup {}
  BY <1>1 DEF MemberTypes
<1> QED
  BY <1>1, <1>2, <1>3, <1>4, <1>5, NobodyDeparts

\* ... who are added one by one.
LEMMA AddApprovedKeeps ==
  ASSUME MemberInv, NEW c \in Clerks, AddApproved(c) PROVE MemberInv'
<1> USE DEF MemberInv
<1>1. clerk[c].at = "approve" /\ UNCHANGED <<asked, visits, letIn, raced>>
  BY DEF AddApproved
<1>2. asked' \in [Asked -> Row] /\ visits' \in 0 .. MaxVisits /\ raced' \in RacedType
      /\ letIn' = letIn \cup {}
  BY <1>1 DEF MemberTypes
<1>3. ASSUME NEW pair \in clerk[c].add, joined' = joined \cup {pair},
             Works(c, Job("approve", Nobody, clerk[c].org, {}, clerk[c].add \ {pair}, {}))
      PROVE  MemberInv'
  <2> DEFINE job == Job("approve", Nobody, clerk[c].org, {}, clerk[c].add \ {pair}, {})
  <2>1. /\ job \in JobType /\ job.at = "approve" /\ job.org = clerk[c].org /\ job.todo = {}
        /\ job.add \subseteq clerk[c].add /\ job.chosen = {}
    <3>1. clerk[c].add \ {pair} \in SUBSET (Users \X Orgs)
      BY JobFields
    <3> QED
      BY <3>1, JobTyped, JobFields DEF Job
  <2>2. Works(c, job)
    BY <1>3
  <2> HIDE DEF job
  <2>3. JobShape(job)
    BY <1>1, <2>1 DEF JobShapes, JobShape
  <2>4. \A u, o : Admits(job, u, o) => Admits(clerk[c], u, o)
    BY <2>1 DEF Admits
  <2> QED
    BY <1>1, <1>2, <1>3, <2>1, <2>2, <2>3, <2>4, NobodyDeparts
<1>4. CASE Works(c, Unoccupied) /\ UNCHANGED joined
  BY <1>1, <1>2, <1>4, IdleJob, NobodyDeparts
<1> QED
  BY <1>3, <1>4 DEF AddApproved, Ends

\* A profile form is checked against the user's memberships.
LEMMA PostProfileKeeps ==
  ASSUME MemberInv, NEW c \in Clerks, NEW u \in Users, NEW chosen \in SUBSET Orgs, PostProfile(c, u, chosen)
  PROVE  MemberInv'
<1> USE DEF MemberInv
<1> DEFINE job == Job("profile", u, Nobody, {}, {}, chosen)
           new == {u} \X (chosen \cap (IF u \in EditAll THEN Orgs ELSE Open))
<1>1. /\ clerk[c] = Unoccupied /\ visits < MaxVisits /\ visits' = visits + 1
      /\ chosen \subseteq Choice(u) /\ Cardinality(chosen \cap Open) <= MaxPublic
      /\ Works(c, job) /\ letIn' = letIn \cup new /\ CountsOpen(u) /\ UNCHANGED <<joined, asked>>
  BY Zenon DEF PostProfile, Free, Visit
<1>2. /\ job \in JobType /\ job.at = "profile" /\ job.user = u /\ job.todo = {}
      /\ job.add = {} /\ job.chosen = chosen
  BY JobTyped DEF Job
<1>3. new \in SUBSET (Users \X Orgs)
  BY OrgsAssumption
<1>4. /\ {u} \X chosen \subseteq joined \cup new
      /\ u \notin EditAll => \A o \in chosen \ Open : <<u, o>> \in joined
  BY <1>1 DEF Choice, OrgsOf
<1> HIDE DEF job, new
<1>5. JobShape(job)
  BY <1>1, <1>2 DEF JobShape
<1>6. /\ raced' \in RacedType /\ raced'.pairs = raced.pairs /\ raced'.orgs = raced.orgs
      /\ raced.users \subseteq raced'.users
      /\ (\E d \in Clerks : clerk[d].at \in {"join", "profile"} /\ clerk[d].user = u) => u \in raced'.users
  BY <1>1, CountsOpenRaced
<1>7. asked' \in [Asked -> Row] /\ visits' \in 0 .. MaxVisits
  BY <1>1, SlotsAssumption DEF MemberTypes
<1>8. \A v, o : ~Admits(job, v, o)
  BY <1>2 DEF Admits
<1>9. /\ \A o : \A v \in Users : Admits(job, v, o) => Admits(clerk[c], v, o)
      /\ \A v, o : <<v, o>> \in job.add => <<v, o>> \in clerk[c].add
      /\ \A d \in Clerks \ {c} :
           {job.at, clerk[d].at} \subseteq {"join", "profile"} /\ clerk[d].user = job.user
             => job.user \in raced'.users
  BY <1>2, <1>6, <1>8
<1>10. job.at = "profile" =>
         /\ {job.user} \X job.chosen \subseteq joined \cup new
         /\ job.user \notin EditAll => \A o \in job.chosen \ Open : <<job.user, o>> \in joined
  BY <1>2, <1>4
<1> QED
  BY <1>1, <1>2, <1>3, <1>5, <1>6, <1>7, <1>9, <1>10, NobodyDeparts

\* A step at which somebody may depart, and nobody's checks are passed.
LEMMA SomebodyDeparts ==
  ASSUME MemberInv, NEW pairs \in SUBSET (Users \X Orgs), Departs(pairs),
         clerk' \in [Clerks -> JobType],
         \A d \in Clerks : clerk'[d] = clerk[d] \/ clerk'[d] = Unoccupied,
         asked' = asked, visits' \in 0 .. MaxVisits, joined' \in SUBSET (Users \X Orgs),
         joined \ pairs \subseteq joined', joined' \subseteq (joined \cup Coming) \ pairs,
         \A u \in Users \ EditAll, o \in Orgs \ Open :
           <<u, o>> \in joined' => <<u, o>> \in joined \cup raced.pairs,
         \A u \in Users \ raced.users :
           (\A o \in Open : <<u, o>> \in joined' => <<u, o>> \in joined) \/ Cardinality(Wanted(u)') <= MaxPublic
  PROVE  MemberInv'
<1> USE DEF MemberInv
<1>1. /\ raced' \in RacedType /\ raced'.pairs = raced.pairs \cup (pairs \cap Coming)
      /\ raced'.orgs = raced.orgs /\ raced'.users = raced.users
  BY DepartsRaced
<1>2. letIn' = letIn \ pairs
  BY DEF Departs
<1>3. MemberTypes'
  BY <1>1, <1>2 DEF MemberTypes
<1>4. JobShapes'
  <2>1. \A d \in Clerks : JobShape(clerk'[d])
    BY IdleJob DEF JobShapes
  <2> QED
    BY <2>1 DEF JobShapes, JobShape
<1>5. LetInHolds'
  <2>1. Coming' \subseteq Coming
    BY IdleJob, ComingPairs DEF Coming
  <2> QED
    BY <1>1, <1>2, <2>1 DEF LetInHolds
<1>6. ChosenWereMembers'
  <2> SUFFICES ASSUME NEW d \in Clerks, clerk'[d].at = "profile", clerk'[d].user \notin EditAll,
                      NEW o \in clerk'[d].chosen \ Open
               PROVE  <<clerk'[d].user, o>> \in joined' \cup raced'.pairs
    BY DEF ChosenWereMembers
  <2>1. clerk'[d] = clerk[d]
    BY IdleJob
  <2>2. <<clerk[d].user, o>> \in joined \cup raced.pairs
    BY <2>1 DEF ChosenWereMembers
  <2>3. <<clerk[d].user, o>> \in Coming
    BY <2>1, ComingPairs
  <2> QED
    BY <1>1, <2>1, <2>2, <2>3
<1>7. PotentialHolds'
  <2> SUFFICES ASSUME NEW o \in DOMAIN Slots \ (Open \cup raced'.orgs), NEW u \in Potential(o)'
               PROVE  u \in Potential(o)
    BY <1>1, PotentialStays
  <2>1. /\ u \in Users \ EditAll /\ <<u, o>> \notin raced'.pairs
        /\ <<u, o>> \in joined' \/ \E d \in Clerks : Admits(clerk'[d], u, o)
    BY DEF Potential, Admits
  <2>2. <<u, o>> \in joined \/ \E d \in Clerks : Admits(clerk[d], u, o)
    BY <1>1, <2>1, IdleJob, SlotsAssumption
  <2> QED
    BY <1>1, <2>1, <2>2 DEF Potential
<1>8. WantedHolds'
  <2> SUFFICES ASSUME NEW u \in Users \ raced'.users,
                      \A o \in Open : <<u, o>> \in joined' => <<u, o>> \in joined
               PROVE  Wanted(u)' \subseteq Wanted(u)
    BY <1>1, WantedStays
  <2> QED
    BY <1>1, IdleJob DEF Wanted
<1>9. OneCounts'
  BY <1>1, IdleJob DEF OneCounts
<1> QED
  BY <1>3, <1>4, <1>5, <1>6, <1>7, <1>8, <1>9

\* Whoever leaves is a member no more.
LEMMA LeaveKeeps ==
  ASSUME MemberInv, NEW u \in Users, NEW o \in Orgs, LeaveOrganization(u, o) PROVE MemberInv'
<1>1. /\ visits < MaxVisits /\ visits' = visits + 1 /\ joined' = joined \ {<<u, o>>}
      /\ Departs({<<u, o>>}) /\ UNCHANGED <<asked, clerk>>
  BY DEF LeaveOrganization, Visit
<1>2. visits' \in 0 .. MaxVisits /\ joined' \in SUBSET (Users \X Orgs) /\ clerk' \in [Clerks -> JobType]
      /\ {<<u, o>>} \in SUBSET (Users \X Orgs)
  BY <1>1, SlotsAssumption DEF MemberInv, MemberTypes
<1> QED
  BY <1>1, <1>2, SomebodyDeparts

\* A profile form that is saved replaces the memberships.
LEMMA SaveProfileKeeps ==
  ASSUME MemberInv, NEW c \in Clerks, SaveProfile(c),
         NEW u, u = clerk[c].user, NEW chosen, chosen = clerk[c].chosen
  PROVE  MemberInv'
<1> USE DEF MemberInv
<1> DEFINE pairs == {u} \X (OrgsOf(u) \ chosen)
<1>1. /\ clerk[c].at = "profile" /\ joined' = (joined \ ({u} \X Orgs)) \cup ({u} \X chosen)
      /\ Departs(pairs) /\ Works(c, Unoccupied) /\ UNCHANGED <<asked, visits>>
  BY DEF SaveProfile, Ends
<1>2. /\ u \in Users /\ chosen \in SUBSET Orgs /\ Cardinality(chosen \cap Open) <= MaxPublic
      /\ {u} \X chosen \subseteq Coming
  BY <1>1, JobFields, ComingPairs DEF JobShapes, JobShape
<1>3. /\ clerk' \in [Clerks -> JobType] /\ clerk'[c] = Unoccupied
      /\ \A d \in Clerks \ {c} : clerk'[d] = clerk[d]
  BY <1>1, IdleJob, JobWorks
<1>4. u \notin EditAll => \A o \in chosen \ Open : <<u, o>> \in joined \cup raced.pairs
  BY <1>1 DEF ChosenWereMembers
<1>5. raced'.users = raced.users
  <2>1. pairs \in SUBSET (Users \X Orgs)
    BY <1>2 DEF OrgsOf
  <2> QED
    BY <1>1, <2>1, DepartsRaced
<1>6. ASSUME u \notin raced.users PROVE Cardinality(Wanted(u)') <= MaxPublic
  <2>1. Wanted(u)' \subseteq chosen \cap Open
    <3> SUFFICES ASSUME NEW o \in Wanted(u)' PROVE o \in chosen \cap Open
      OBVIOUS
    <3>1. o \in Open /\ o \in Orgs /\ (<<u, o>> \in joined' \/ \E d \in Clerks : <<u, o>> \in clerk'[d].add)
      BY OrgsAssumption DEF Wanted
    <3>2. ASSUME NEW d \in Clerks, <<u, o>> \in clerk'[d].add PROVE FALSE
      <4>1. d # c /\ <<u, o>> \in clerk[d].add
        BY <1>3, <3>2, IdleJob
      <4>2. clerk[d].at = "join" /\ clerk[d].user = u
        BY <3>1, <4>1, OpenAdds, JobFields DEF JobShapes
      <4> QED
        BY <1>1, <1>6, <4>1, <4>2 DEF OneCounts
    <3> QED
      BY <1>1, <3>1, <3>2
  <2>2. IsFiniteSet(chosen \cap Open)
    BY <1>2, RowsAssumption, FS_Subset
  <2> QED
    BY <1>2, <2>1, <2>2, SmallerSets, SlotsAssumption
<1>7. /\ pairs \in SUBSET (Users \X Orgs) /\ joined' \in SUBSET (Users \X Orgs)
      /\ joined \ pairs \subseteq joined' /\ joined' \subseteq (joined \cup Coming) \ pairs
  <2>1. joined \subseteq Users \X Orgs
    BY DEF MemberTypes
  <2> QED
    BY <1>1, <1>2, <2>1 DEF OrgsOf
<1>8. \A v \in Users \ EditAll, o \in Orgs \ Open :
        <<v, o>> \in joined' => <<v, o>> \in joined \cup raced.pairs
  BY <1>1, <1>4
<1>9. \A v \in Users \ raced.users :
        (\A o \in Open : <<v, o>> \in joined' => <<v, o>> \in joined) \/ Cardinality(Wanted(v)') <= MaxPublic
  <2> SUFFICES ASSUME NEW v \in Users \ raced.users, v # u
               PROVE  \A o \in Open : <<v, o>> \in joined' => <<v, o>> \in joined
    BY <1>6
  <2> QED
    BY <1>1
<1>10. visits' \in 0 .. MaxVisits /\ \A d \in Clerks : clerk'[d] = clerk[d] \/ clerk'[d] = Unoccupied
  BY <1>1, <1>3 DEF MemberTypes
<1> QED
  BY <1>1, <1>3, <1>7, <1>8, <1>9, <1>10, SomebodyDeparts

\* At first nobody is let in.
LEMMA MemberStarts == ASSUME MembershipInit PROVE MemberInv
<1>1. /\ joined = {} /\ letIn = {} /\ asked \in [Asked -> Row] /\ visits = 0
      /\ clerk = [c \in Clerks |-> Unoccupied] /\ raced = Calm
  BY DEF MembershipInit, Row
<1>2. raced \in RacedType /\ \A c \in Clerks : clerk[c] = Unoccupied
  BY <1>1 DEF Calm, RacedType
<1>3. MemberTypes /\ JobShapes
  BY <1>1, <1>2, IdleJob, SlotsAssumption DEF MemberTypes, JobShapes
<1>4. LetInHolds /\ ChosenWereMembers /\ OneCounts
  BY <1>1, <1>2, IdleJob DEF LetInHolds, Coming, ChosenWereMembers, OneCounts
<1>5. (\A o : Potential(o) = {}) /\ (\A u : Wanted(u) = {})
  BY <1>1, <1>2, IdleJob DEF Potential, Wanted
<1>6. PotentialHolds /\ WantedHolds
  BY <1>5, FS_EmptySet, SlotsAssumption DEF PotentialHolds, WantedHolds
<1> QED
  BY <1>3, <1>4, <1>6 DEF MemberInv

\* What leaves members, requests and clerks alone keeps the invariant.
LEMMA NobodyMoves ==
  ASSUME MemberInv, MemberTypes', UNCHANGED <<joined, clerk, letIn, raced>> PROVE MemberInv'
<1>1. JobShapes' /\ LetInHolds' /\ ChosenWereMembers' /\ OneCounts'
  <2>1. Coming' = Coming
    BY DEF Coming
  <2>2. JobShapes'
    BY DEF MemberInv, JobShapes, JobShape
  <2>3. LetInHolds' /\ ChosenWereMembers' /\ OneCounts'
    BY <2>1 DEF MemberInv, LetInHolds, ChosenWereMembers, OneCounts
  <2> QED
    BY <2>2, <2>3
<1>2. (\A o : Potential(o)' = Potential(o)) /\ (\A u : Wanted(u)' = Wanted(u))
  BY DEF Potential, Admits, Wanted
<1>3. PotentialHolds' /\ WantedHolds'
  BY <1>2 DEF MemberInv, PotentialHolds, WantedHolds
<1> QED
  BY <1>1, <1>3 DEF MemberInv

\* Every step keeps the invariant.
LEMMA MemberStep == ASSUME MemberInv, [MembershipNext]_mvars PROVE MemberInv'
<1>1. ASSUME NEW r \in Asked, NEW u \in Users, NEW o \in Orgs, AskToJoin(r, u, o) PROVE MemberInv'
  <2>1. /\ o \notin Open /\ visits < MaxVisits /\ visits' = visits + 1
        /\ asked' = [asked EXCEPT ![r] = [state |-> "P", user |-> u, org |-> o]]
        /\ UNCHANGED <<joined, clerk, letIn, raced>>
    BY <1>1 DEF AskToJoin, Visit
  <2>2. [state |-> "P", user |-> u, org |-> o] \in Row
    BY <2>1 DEF Row
  <2>3. MemberTypes'
    BY <2>1, <2>2, SlotsAssumption DEF MemberInv, MemberTypes
  <2> QED
    BY <2>1, <2>3, NobodyMoves
<1>2. CASE UNCHANGED mvars
  <2>1. MemberTypes'
    BY <1>2 DEF mvars, MemberInv, MemberTypes
  <2> QED
    BY <1>2, <2>1, NobodyMoves DEF mvars
<1> QED
  BY <1>1, <1>2, AddJoinedKeeps, StartApprovingKeeps, AddApprovedKeeps, SaveProfileKeeps, JoinOpenKeeps,
     LeaveKeeps, DecideKeeps, SaveDecisionKeeps, PostProfileKeeps DEF MembershipNext

\* The invariant holds in every reachable state.
LEMMA MemberHolds == MembershipSpec => []MemberInv
BY MemberStarts, MemberStep, PTL DEF MembershipSpec

\* Nobody is in an organization without having been let in, a closed organization
\* has no more members than slots, and nobody is in too many open ones.
THEOREM MembershipStays == MembershipSpec => []MembershipHolds
<1>1. MemberInv => MembershipHolds
  <2> SUFFICES ASSUME MemberInv PROVE MembershipHolds
    OBVIOUS
  <2> USE DEF MemberInv
  <2>1. MembersWereLetIn
    BY DEF LetInHolds, MembersWereLetIn
  <2>2. SlotsHold
    <3> SUFFICES ASSUME NEW o \in DOMAIN Slots \ (Open \cup raced.orgs)
                 PROVE  Cardinality({u \in Members(o) \ EditAll : <<u, o>> \notin raced.pairs}) <= Slots[o]
      BY DEF SlotsHold
    <3>1. {u \in Members(o) \ EditAll : <<u, o>> \notin raced.pairs} \subseteq Potential(o)
      BY DEF Members, Potential
    <3> QED
      BY <3>1, PotentialFinite, SmallerSets, SlotsAssumption DEF PotentialHolds
  <2>3. OpenLimitHolds
    <3> SUFFICES ASSUME NEW u \in Users \ raced.users
                 PROVE  Cardinality({o \in OrgsOf(u) \cap Open : <<u, o>> \notin raced.pairs}) <= MaxPublic
      BY DEF OpenLimitHolds
    <3>1. {o \in OrgsOf(u) \cap Open : <<u, o>> \notin raced.pairs} \subseteq Wanted(u)
      BY DEF OrgsOf, Wanted
    <3> QED
      BY <3>1, WantedFinite, SmallerSets, SlotsAssumption DEF WantedHolds
  <2> QED
    BY <2>1, <2>2, <2>3 DEF MembershipHolds
<1> QED
  BY <1>1, MemberHolds, PTL

-----------------------------------------------------------------------------
(* PageCache: the kept pieces of a page *)

\* Only pieces of the row's kind are kept or read.
PiecesOfRow ==
  /\ \A p \in AllPieces \ PiecesOf[row] : kept[p] = NoPiece
  /\ \A v \in Readers : reader[v] = NotReading \/ reader[v].piece \in PiecesOf[row]

\* While a form is being saved, what it dropped is gone or was kept since.
DroppedIsGone ==
  saving => /\ ~reverted /\ text < MaxEdits
            /\ \A p \in Dropped : p \in meanwhile \/ kept[p] = NoPiece

DroppedIsFresh ==
  ~saving /\ ~reverted => \A p \in Dropped \ outrun : kept[p] = NoPiece \/ kept[p] = text

CacheInv == PageCacheTypeOK /\ PiecesOfRow /\ DroppedIsGone /\ DroppedIsFresh

\* The pieces of every kind of row.
LEMMA PieceNames ==
  /\ Kinds = {"problem", "post"} /\ PiecesOf["problem"] = {"html", "feed", "pdf"}
  /\ PiecesOf["post"] = {"content", "feed"}
  /\ AllPieces = {"html", "feed", "pdf", "content"}
  /\ row \in Kinds => PiecesOf[row] \subseteq AllPieces
<1>1. Kinds = {"problem", "post"} /\ PiecesOf["problem"] = {"html", "feed", "pdf"}
      /\ PiecesOf["post"] = {"content", "feed"}
  BY DEF Kinds, PiecesOf
<1>2. AllPieces = PiecesOf["problem"] \cup PiecesOf["post"]
  BY <1>1 DEF AllPieces
<1> QED
  BY <1>1, <1>2

\* What a signal drops is a piece.
LEMMA DroppedNames == row \in Kinds => Dropped \subseteq AllPieces
BY PieceNames DEF Dropped

\* At first nothing is kept.
LEMMA CacheInit == ASSUME PageCacheInit PROVE CacheInv
<1> USE PieceNames
<1>1. PageCacheTypeOK
  <2>1. 0 \in 0 .. MaxEdits
    BY MaxEditsAssumption
  <2>2. reader \in [Readers -> [piece : AllPieces \cup {"none"}, seen : 0 .. MaxEdits]]
    <3>1. NotReading \in [piece : AllPieces \cup {"none"}, seen : 0 .. MaxEdits]
      BY <2>1 DEF NotReading
    <3> QED
      BY <3>1 DEF PageCacheInit
  <2>3. kept \in [AllPieces -> {NoPiece} \cup (0 .. MaxEdits)]
    BY DEF PageCacheInit
  <2> QED
    BY <2>1, <2>2, <2>3 DEF PageCacheInit, PageCacheTypeOK
<1>2. PiecesOfRow /\ DroppedIsGone /\ DroppedIsFresh
  BY DroppedNames DEF PageCacheInit, PiecesOfRow, DroppedIsGone, DroppedIsFresh, NotReading
<1> QED
  BY <1>1, <1>2 DEF CacheInv

\* Every step keeps the invariant.
LEMMA CacheStep == ASSUME CacheInv, [PageCacheNext]_pvars PROVE CacheInv'
<1> USE DEF CacheInv
<1>1. PageCacheTypeOK /\ row \in Kinds /\ Dropped \subseteq AllPieces /\ PiecesOf[row] \subseteq AllPieces
  BY PieceNames, DroppedNames DEF PageCacheTypeOK
<1>2. ASSUME NEW v \in Readers, NEW p \in PiecesOf[row], MissPiece(v, p) PROVE CacheInv'
  <2>1. PageCacheTypeOK'
    <3>1. [piece |-> p, seen |-> text] \in [piece : AllPieces \cup {"none"}, seen : 0 .. MaxEdits]
      BY <1>1, <1>2 DEF PageCacheTypeOK
    <3>2. reader' \in [Readers -> [piece : AllPieces \cup {"none"}, seen : 0 .. MaxEdits]]
      BY <1>1, <1>2, <3>1 DEF MissPiece, PageCacheTypeOK
    <3> QED
      BY <1>1, <1>2, <3>2 DEF MissPiece, PageCacheTypeOK
  <2>2. PiecesOfRow' /\ DroppedIsGone' /\ DroppedIsFresh'
    BY <1>1, <1>2 DEF MissPiece, PageCacheTypeOK, PiecesOfRow, DroppedIsGone, DroppedIsFresh, Dropped
  <2> QED
    BY <2>1, <2>2
<1>3. ASSUME NEW v \in Readers, KeepPiece(v) PROVE CacheInv'
  <2> DEFINE p == reader[v].piece
  <2>1. p \in PiecesOf[row] /\ p \in AllPieces /\ reader[v].seen \in 0 .. MaxEdits
    BY <1>1, <1>3 DEF KeepPiece, PageCacheTypeOK, PiecesOfRow
  <2>2. kept' = [kept EXCEPT ![p] = reader[v].seen] /\ UNCHANGED <<row, text, saving, stats, reverted>>
        /\ reader' = [reader EXCEPT ![v] = NotReading]
        /\ outrun' = (IF reader[v].seen # text THEN outrun \cup {p} ELSE outrun \ {p})
        /\ meanwhile' = (IF saving THEN meanwhile \cup {p} ELSE meanwhile)
    BY <1>3 DEF KeepPiece
  <2>3. PageCacheTypeOK'
    <3>1. NotReading \in [piece : AllPieces \cup {"none"}, seen : 0 .. MaxEdits]
      BY MaxEditsAssumption DEF NotReading
    <3>2. reader' \in [Readers -> [piece : AllPieces \cup {"none"}, seen : 0 .. MaxEdits]]
      BY <1>1, <2>2, <3>1 DEF PageCacheTypeOK
    <3>3. kept' \in [AllPieces -> {NoPiece} \cup (0 .. MaxEdits)]
      BY <1>1, <2>1, <2>2 DEF PageCacheTypeOK
    <3>4. outrun' \cup meanwhile' \subseteq PiecesOf[row]
      BY <1>1, <2>1, <2>2 DEF PageCacheTypeOK
    <3> QED
      BY <1>1, <2>2, <3>2, <3>3, <3>4 DEF PageCacheTypeOK
  <2>4. PiecesOfRow'
    BY <1>1, <2>1, <2>2 DEF PageCacheTypeOK, PiecesOfRow, NotReading
  <2>5. DroppedIsGone' /\ DroppedIsFresh'
    BY <1>1, <2>1, <2>2 DEF PageCacheTypeOK, DroppedIsGone, DroppedIsFresh, Dropped
  <2> QED
    BY <2>3, <2>4, <2>5
<1>4. ASSUME NEW v \in Readers, RenderingFails(v) PROVE CacheInv'
  <2>1. NotReading \in [piece : AllPieces \cup {"none"}, seen : 0 .. MaxEdits] /\ NotReading.piece = "none"
    BY MaxEditsAssumption DEF NotReading
  <2>2. reader' = [reader EXCEPT ![v] = NotReading]
        /\ UNCHANGED <<row, text, kept, saving, meanwhile, stats, outrun, reverted>>
    BY <1>4 DEF RenderingFails
  <2>3. reader' \in [Readers -> [piece : AllPieces \cup {"none"}, seen : 0 .. MaxEdits]]
    BY <1>1, <2>1, <2>2 DEF PageCacheTypeOK
  <2>4. PageCacheTypeOK'
    BY <1>1, <2>2, <2>3 DEF PageCacheTypeOK
  <2>5. PiecesOfRow'
    BY <1>1, <2>1, <2>2 DEF PageCacheTypeOK, PiecesOfRow
  <2>6. DroppedIsGone' /\ DroppedIsFresh'
    BY <2>2 DEF DroppedIsGone, DroppedIsFresh, Dropped
  <2> QED
    BY <2>4, <2>5, <2>6
<1>5. ASSUME NEW p \in PiecesOf[row], Expire(p) PROVE CacheInv'
  BY <1>1, <1>5 DEF Expire, PageCacheTypeOK, PiecesOfRow, DroppedIsGone, DroppedIsFresh, Dropped
<1>6. CASE SaveForm
  BY <1>1, <1>6 DEF SaveForm, PageCacheTypeOK, PiecesOfRow, DroppedIsGone, DroppedIsFresh, Dropped
<1>7. CASE CommitForm
  <2>2. \A p \in Dropped \ (outrun \cup meanwhile) : kept[p] = NoPiece
    BY <1>7 DEF CommitForm, DroppedIsGone
  <2>3. PageCacheTypeOK'
    <3>1. text + 1 \in 0 .. MaxEdits
      BY <1>1, <1>7, MaxEditsAssumption DEF CommitForm, PageCacheTypeOK, DroppedIsGone
    <3> QED
      BY <1>1, <1>7, <3>1 DEF CommitForm, PageCacheTypeOK
  <2> QED
    BY <1>1, <1>7, <2>2, <2>3 DEF CommitForm, PiecesOfRow, DroppedIsGone, DroppedIsFresh, Dropped
<1>8. CASE LoadProblem
  BY <1>1, <1>8 DEF LoadProblem, PageCacheTypeOK, PiecesOfRow, DroppedIsGone, DroppedIsFresh, Dropped
<1>9. CASE UpdateStats
  BY <1>1, <1>9 DEF UpdateStats, PageCacheTypeOK, PiecesOfRow, DroppedIsGone, DroppedIsFresh, Dropped
<1>10. CASE UNCHANGED pvars
  BY <1>1, <1>10 DEF pvars, PageCacheTypeOK, PiecesOfRow, DroppedIsGone, DroppedIsFresh, Dropped
<1> QED
  BY <1>2, <1>3, <1>4, <1>5, <1>6, <1>7, <1>8, <1>9, <1>10 DEF PageCacheNext

\* The invariant holds in every reachable state.
LEMMA CacheHolds == PageCacheSpec => []CacheInv
BY CacheInit, CacheStep, PTL DEF PageCacheSpec

\* Every kept piece that a signal drops shows the row, the excused ones apart.
THEOREM PiecesStayFresh == PageCacheSpec => []PiecesAreFresh
<1>1. CacheInv => PiecesAreFresh
  <2> SUFFICES ASSUME CacheInv, ~saving, ~reverted,
                      NEW p \in ({"html", "pdf"} \cup (IF row = "post" THEN {"feed"} ELSE {})) \ outrun
               PROVE  kept[p] \in {NoPiece, text}
    BY DEF PiecesAreFresh
  <2>1. row \in {"problem", "post"}
    BY PieceNames DEF CacheInv, PageCacheTypeOK
  <2>2. CASE p \in Dropped
    BY <2>2 DEF CacheInv, DroppedIsFresh
  <2>3. CASE p \notin Dropped
    BY <2>1, <2>3, PieceNames DEF CacheInv, PiecesOfRow, Dropped
  <2> QED
    BY <2>2, <2>3
<1> QED
  BY <1>1, CacheHolds, PTL

-----------------------------------------------------------------------------
(* Standing: the totals of a user and the solved problems *)

\* What may be left of the work that follows a verdict, a deletion or a rescore.
NothingLeft == <<>>
SaveDrop == <<"save", "drop">>
AddSave == <<"add", "save">>
JustSave == <<"save">>
JustDrop == <<"drop">>
Leftovers == {NothingLeft, AfterVerdict, AfterDelete, SaveDrop, AddSave, JustSave, JustDrop}
DeriverType == [todo : Leftovers, copy : SUBSET Verdicts, sum : SUBSET Verdicts, late : BOOLEAN]
LookerType == [at : {"idle", "keep"}, seen : SUBSET Verdicts, late : BOOLEAN]
Owes(plan, task) == \E i \in DOMAIN plan : plan[i] = task
First(plan, task) == plan # <<>> /\ Head(plan) = task

StandingTypes ==
  /\ deriver \in [Derivers -> DeriverType] /\ looker \in [Lookers -> LookerType]
  /\ result \in [Verdicts -> {"none", "AC", "other"}]
  /\ performance_points \subseteq Verdicts /\ (user_complete = NoSet \/ user_complete \subseteq Verdicts)
  /\ changes \in 0 .. MaxChanges /\ reopened \subseteq Verdicts
  /\ wrong \in BOOLEAN /\ overtaken \in BOOLEAN

\* A sum and a set that nothing has overtaken are of the rows as they are.
SumsAreRight ==
  \A w \in Derivers : First(deriver[w].todo, "save") /\ ~deriver[w].late => deriver[w].sum = Earning
SeenIsRight ==
  \A v \in Lookers : looker[v].at = "keep" /\ ~looker[v].late => looker[v].seen = Earning
PointsAreRight ==
  reopened = {} /\ (\A w \in Derivers : ~Owes(deriver[w].todo, "save")) /\ ~wrong
    => performance_points = Earning
SolvedIsRight ==
  reopened = {} /\ (\A w \in Derivers : ~Owes(deriver[w].todo, "drop")) /\ ~overtaken
    => user_complete = NoSet \/ user_complete = Earning
StandingInv == StandingTypes /\ SumsAreRight /\ SeenIsRight /\ PointsAreRight /\ SolvedIsRight
-----------------------------------------------------------------------------
\* The tasks each plan owes.
LEMMA PlanOwes ==
  /\ \A task : ~Owes(NothingLeft, task)
  /\ \A task : Owes(AfterVerdict, task) <=> task = "add" \/ task = "save" \/ task = "drop"
  /\ \A task : Owes(AfterDelete, task) <=> task = "drop" \/ task = "add" \/ task = "save"
  /\ \A task : Owes(SaveDrop, task) <=> task = "save" \/ task = "drop"
  /\ \A task : Owes(AddSave, task) <=> task = "add" \/ task = "save"
  /\ \A task : Owes(JustSave, task) <=> task = "save"
  /\ \A task : Owes(JustDrop, task) <=> task = "drop"
<1>1. \A task : Owes(AfterVerdict, task) <=> task = "add" \/ task = "save" \/ task = "drop"
  BY DEF Owes, AfterVerdict
<1>2. \A task : Owes(AfterDelete, task) <=> task = "drop" \/ task = "add" \/ task = "save"
  BY DEF Owes, AfterDelete
<1>3. \A task : Owes(SaveDrop, task) <=> task = "save" \/ task = "drop"
  BY DEF Owes, SaveDrop
<1>4. \A task : Owes(AddSave, task) <=> task = "add" \/ task = "save"
  BY DEF Owes, AddSave
<1>5. \A task : Owes(JustSave, task) <=> task = "save"
  BY DEF Owes, JustSave
<1>6. \A task : Owes(JustDrop, task) <=> task = "drop"
  BY DEF Owes, JustDrop
<1>7. \A task : ~Owes(NothingLeft, task)
  BY DEF Owes, NothingLeft
<1> QED
  BY <1>1, <1>2, <1>3, <1>4, <1>5, <1>6, <1>7

\* What is left of a plan after its first task.
LEMMA PlanTails ==
  /\ NothingLeft = <<>>
  /\ AfterVerdict # <<>> /\ Head(AfterVerdict) = "add" /\ Tail(AfterVerdict) = SaveDrop
  /\ AfterDelete # <<>> /\ Head(AfterDelete) = "drop" /\ Tail(AfterDelete) = AddSave
  /\ SaveDrop # <<>> /\ Head(SaveDrop) = "save" /\ Tail(SaveDrop) = JustDrop
  /\ AddSave # <<>> /\ Head(AddSave) = "add" /\ Tail(AddSave) = JustSave
  /\ JustSave # <<>> /\ Head(JustSave) = "save" /\ Tail(JustSave) = NothingLeft
  /\ JustDrop # <<>> /\ Head(JustDrop) = "drop" /\ Tail(JustDrop) = NothingLeft
<1>1. AfterVerdict # <<>> /\ Head(AfterVerdict) = "add" /\ Tail(AfterVerdict) = SaveDrop
  BY DEF AfterVerdict, SaveDrop
<1>2. AfterDelete # <<>> /\ Head(AfterDelete) = "drop" /\ Tail(AfterDelete) = AddSave
  BY DEF AfterDelete, AddSave
<1>3. SaveDrop # <<>> /\ Head(SaveDrop) = "save" /\ Tail(SaveDrop) = JustDrop
  BY DEF SaveDrop, JustDrop
<1>4. AddSave # <<>> /\ Head(AddSave) = "add" /\ Tail(AddSave) = JustSave
  BY DEF AddSave, JustSave
<1>5. JustSave # <<>> /\ Head(JustSave) = "save" /\ Tail(JustSave) = NothingLeft
  BY DEF JustSave, NothingLeft
<1>6. JustDrop # <<>> /\ Head(JustDrop) = "drop" /\ Tail(JustDrop) = NothingLeft
  BY DEF JustDrop, NothingLeft
<1> QED
  BY <1>1, <1>2, <1>3, <1>4, <1>5, <1>6 DEF NothingLeft

\* A piece of work is the rest of a plan, and doing it leaves the rest of that.
LEMMA PlanSteps ==
  ASSUME NEW t \in Leftovers, NEW task, First(t, task)
  PROVE  /\ Tail(t) \in Leftovers /\ Owes(t, task)
         /\ \A other : Owes(t, other) <=> other = task \/ Owes(Tail(t), other)
         /\ task = "add" => Owes(Tail(t), "save")
         /\ task # "add" => ~First(Tail(t), "save")
         /\ task \in {"save", "drop"} => ~Owes(Tail(t), task)
<1>1. t # <<>> /\ Head(t) = task
  BY DEF First
<1>2. t \in {AfterVerdict, AfterDelete, SaveDrop, AddSave, JustSave, JustDrop}
  BY <1>1, PlanTails DEF Leftovers
<1>3. Tail(t) \in Leftovers /\ Owes(t, task)
  BY <1>1, <1>2, PlanTails, PlanOwes DEF Leftovers
<1>4. \A other : Owes(t, other) <=> other = task \/ Owes(Tail(t), other)
  BY <1>1, <1>2, PlanTails, PlanOwes
<1>5. task = "add" => Owes(Tail(t), "save")
  BY <1>1, <1>2, PlanTails, PlanOwes
<1>6. task # "add" => ~First(Tail(t), "save")
  BY <1>1, <1>2, PlanTails DEF First
<1>7. task \in {"save", "drop"} => ~Owes(Tail(t), task)
  BY <1>1, <1>2, PlanTails, PlanOwes
<1> QED
  BY <1>3, <1>4, <1>5, <1>6, <1>7

\* A plan that starts owes all its tasks.
LEMMA PlanStarts ==
  /\ NothingLeft = <<>> /\ NothingLeft \in Leftovers /\ AfterVerdict \in Leftovers /\ AfterDelete \in Leftovers
  /\ \A task : ~First(NothingLeft, task)
  /\ ~First(AfterVerdict, "save") /\ ~First(AfterDelete, "save")
  /\ Owes(AfterVerdict, "save") /\ Owes(AfterVerdict, "drop")
  /\ Owes(AfterDelete, "save") /\ Owes(AfterDelete, "drop")
BY PlanTails, PlanOwes DEF Leftovers, First
-----------------------------------------------------------------------------
\* The same conditions, of what a step leaves of each thread and request.
LEMMA IsFirst == \A w, task : IsNext(w, task) <=> First(deriver[w].todo, task)
BY DEF IsNext, First

\* What earns points are verdicts.
LEMMA EarningTyped == Earning \subseteq Verdicts
BY DEF Earning

\* At first nobody has solved anything.
LEMMA StandingStarts == ASSUME StandingInit PROVE StandingInv
<1>1. AtRest \in DeriverType /\ AtRest.todo = NothingLeft /\ NotLooking \in LookerType /\ NotLooking.at = "idle"
  BY PlanStarts DEF AtRest, NotLooking, DeriverType, LookerType
<1>2. StandingTypes
  <2>1. deriver \in [Derivers -> DeriverType] /\ looker \in [Lookers -> LookerType]
    BY <1>1 DEF StandingInit
  <2>2. result \in [Verdicts -> {"none", "AC", "other"}] /\ changes \in 0 .. MaxChanges
    BY MaxChangesAssumption DEF StandingInit
  <2> QED
    BY <2>1, <2>2 DEF StandingInit, StandingTypes
<1>3. SumsAreRight /\ SeenIsRight
  BY <1>1, PlanStarts DEF StandingInit, SumsAreRight, SeenIsRight
<1>4. PointsAreRight /\ SolvedIsRight
  BY DEF StandingInit, PointsAreRight, SolvedIsRight, Earning
<1> QED
  BY <1>2, <1>3, <1>4 DEF StandingInv

\* A change of a row makes late whoever has added up or looked up.
LEMMA ChangeKeeps ==
  ASSUME StandingInv, NEW s \in Verdicts, NEW r \in {"none", "AC", "other"},
         NEW w, NEW plan \in Leftovers, Change(s, r, w, plan), ~First(plan, "save"),
         reopened' \subseteq Verdicts,
         (w \in Derivers /\ Owes(plan, "save") /\ Owes(plan, "drop")) \/ reopened' # {}
  PROVE  StandingInv'
<1> USE DEF StandingInv
<1>1. /\ result' = [result EXCEPT ![s] = r] /\ changes' = changes + 1 /\ changes < MaxChanges
      /\ UNCHANGED <<performance_points, user_complete, wrong, overtaken>>
  BY DEF Change
<1>2. \A d \in Derivers :
        deriver'[d] = IF d = w THEN Starts(plan)
                      ELSE [deriver[d] EXCEPT !.late = deriver[d].late \/ First(deriver[d].todo, "save")]
  BY IsFirst DEF Change, StandingTypes
<1>3. \A v \in Lookers : looker'[v] = [looker[v] EXCEPT !.late = looker[v].late \/ looker[v].at = "keep"]
  BY DEF Change
<1>4. DOMAIN deriver' = Derivers /\ DOMAIN looker' = Lookers
      /\ deriver' = [d \in Derivers |-> deriver'[d]] /\ looker' = [v \in Lookers |-> looker'[v]]
  BY DEF Change
<1>5. ASSUME NEW d \in Derivers
      PROVE  /\ deriver'[d] \in DeriverType
             /\ d = w => deriver'[d].todo = plan
             /\ d # w => deriver'[d].todo = deriver[d].todo
                         /\ (First(deriver[d].todo, "save") => deriver'[d].late)
  <2>1. deriver[d] \in DeriverType
    BY DEF StandingTypes
  <2>2. CASE d = w
    <3>1. Starts(plan) \in DeriverType /\ Starts(plan).todo = plan
      BY DEF DeriverType, StandingTypes, Starts
    <3>2. deriver'[d] = Starts(plan)
      BY <1>2, <2>2
    <3> QED
      BY <2>2, <3>1, <3>2
  <2>3. CASE d # w
    <3>1. (deriver[d].late \/ First(deriver[d].todo, "save")) \in BOOLEAN
      BY <2>1 DEF First, DeriverType
    <3>2. deriver'[d] = [deriver[d] EXCEPT !.late = deriver[d].late \/ First(deriver[d].todo, "save")]
      BY <1>2, <2>3
    <3>3. CASE deriver[d].late \/ First(deriver[d].todo, "save")
      <4>1. deriver'[d] = [deriver[d] EXCEPT !.late = TRUE]
        BY <3>1, <3>2, <3>3
      <4> QED
        BY <2>1, <2>3, <4>1 DEF DeriverType
    <3>4. CASE ~(deriver[d].late \/ First(deriver[d].todo, "save"))
      <4>1. deriver'[d] = [deriver[d] EXCEPT !.late = FALSE]
        BY <3>1, <3>2, <3>4
      <4> QED
        BY <2>1, <2>3, <3>4, <4>1 DEF DeriverType
    <3> QED
      BY <3>3, <3>4
  <2> QED
    BY <2>2, <2>3
<1>6. ASSUME NEW v \in Lookers
      PROVE  looker'[v] \in LookerType /\ (looker'[v].at = "keep" => looker'[v].late)
  <2>1. looker[v] \in LookerType
    BY DEF StandingTypes
  <2> QED
    <3>1. looker'[v] = [looker[v] EXCEPT !.late = looker[v].late \/ looker[v].at = "keep"]
      BY <1>3
    <3>2. (looker[v].late \/ looker[v].at = "keep") \in BOOLEAN
      BY <2>1 DEF LookerType
    <3> QED
      BY <2>1, <3>1, <3>2 DEF LookerType
<1>7. StandingTypes'
  <2>1. deriver' \in [Derivers -> DeriverType] /\ looker' \in [Lookers -> LookerType]
    BY <1>4, <1>5, <1>6
  <2>2. result' \in [Verdicts -> {"none", "AC", "other"}] /\ changes' \in 0 .. MaxChanges
    BY <1>1, MaxChangesAssumption DEF StandingTypes
  <2> QED
    BY <1>1, <2>1, <2>2 DEF StandingTypes
<1>8. SumsAreRight' /\ SeenIsRight'
  BY <1>5, <1>6 DEF SumsAreRight, SeenIsRight
<1>9. PointsAreRight' /\ SolvedIsRight'
  BY <1>5 DEF PointsAreRight, SolvedIsRight
<1> QED
  BY <1>7, <1>8, <1>9

\* Work on the plan of one thread: what else it changes, its caller says.
LEMMA WorkTypes ==
  ASSUME StandingInv, NEW w \in Derivers, NEW task, IsNext(w, task),
         NEW sum \in SUBSET Verdicts, NEW late \in BOOLEAN,
         deriver' = [deriver EXCEPT ![w] = [todo |-> Tail(deriver[w].todo), copy |-> deriver[w].copy,
                                            sum |-> sum, late |-> late]]
  PROVE  /\ deriver' \in [Derivers -> DeriverType]
         /\ \A d \in Derivers \ {w} : deriver'[d] = deriver[d]
         /\ deriver'[w].todo = Tail(deriver[w].todo)
         /\ deriver'[w].sum = sum /\ deriver'[w].late = late
<1>1. deriver \in [Derivers -> DeriverType] /\ Tail(deriver[w].todo) \in Leftovers
  <2>1. deriver \in [Derivers -> DeriverType] /\ First(deriver[w].todo, task)
    BY IsFirst DEF StandingInv, StandingTypes
  <2>2. deriver[w].todo \in Leftovers
    BY <2>1 DEF DeriverType
  <2> QED
    BY <2>1, <2>2, PlanSteps
<1>2. [todo |-> Tail(deriver[w].todo), copy |-> deriver[w].copy, sum |-> sum, late |-> late] \in DeriverType
  BY <1>1 DEF DeriverType
<1> QED
  BY <1>1, <1>2

\* Doing a task leaves the other tasks of all plans, and the save is next only
\* after the points were added up.
LEMMA WorkPlans ==
  ASSUME StandingInv, NEW w \in Derivers, NEW task, IsNext(w, task),
         \A d \in Derivers \ {w} : deriver'[d] = deriver[d],
         deriver'[w].todo = Tail(deriver[w].todo)
  PROVE  /\ \A d \in Derivers : \A other : other # task =>
              (Owes(deriver'[d].todo, other) <=> Owes(deriver[d].todo, other))
         /\ \E d \in Derivers : Owes(deriver[d].todo, task)
         /\ task = "add" => Owes(deriver'[w].todo, "save")
         /\ task # "add" => ~First(deriver'[w].todo, "save")
<1>1. deriver[w].todo \in Leftovers /\ First(deriver[w].todo, task)
  BY IsFirst DEF StandingInv, StandingTypes, DeriverType
<1>2. /\ Owes(deriver[w].todo, task)
      /\ \A other : Owes(deriver[w].todo, other) <=> other = task \/ Owes(deriver'[w].todo, other)
      /\ task = "add" => Owes(deriver'[w].todo, "save")
      /\ task # "add" => ~First(deriver'[w].todo, "save")
  BY <1>1, PlanSteps
<1> QED
  BY <1>2

\* Every step keeps the invariant.
LEMMA StandingStep == ASSUME StandingInv, [StandingNext]_stvars PROVE StandingInv'
<1> USE DEF StandingInv
<1>1. ASSUME NEW w \in Derivers, AddUp(w) PROVE StandingInv'
  <2>1. IsNext(w, "add")
        /\ UNCHANGED <<result, performance_points, user_complete, looker, changes, reopened, wrong, overtaken>>
    BY <1>1 DEF AddUp, Does
  <2>2. deriver[w] \in DeriverType /\ Earning \in SUBSET Verdicts
    BY EarningTyped DEF StandingTypes
  <2>3. deriver' = [deriver EXCEPT ![w] = [todo |-> Tail(deriver[w].todo), copy |-> deriver[w].copy,
                                           sum |-> Earning, late |-> FALSE]]
    BY <1>1 DEF AddUp, Does
  <2>4. /\ deriver' \in [Derivers -> DeriverType] /\ \A d \in Derivers \ {w} : deriver'[d] = deriver[d]
        /\ deriver'[w].todo = Tail(deriver[w].todo) /\ deriver'[w].sum = Earning
    BY <2>1, <2>2, <2>3, WorkTypes
  <2>5. \A d \in Derivers : \A other : other # "add" =>
          (Owes(deriver'[d].todo, other) <=> Owes(deriver[d].todo, other))
    BY <2>1, <2>4, WorkPlans
  <2>6. Earning' = Earning
    BY <2>1 DEF Earning
  <2>7. StandingTypes'
    BY <2>1, <2>4 DEF StandingTypes
  <2>8. SumsAreRight' /\ SeenIsRight'
    BY <2>1, <2>4, <2>6 DEF SumsAreRight, SeenIsRight
  <2>9. PointsAreRight' /\ SolvedIsRight'
    BY <2>1, <2>5, <2>6 DEF PointsAreRight, SolvedIsRight
  <2> QED
    BY <2>7, <2>8, <2>9
<1>2. ASSUME NEW w \in Derivers, SavePoints(w) PROVE StandingInv'
  <2>1. IsNext(w, "save")
        /\ UNCHANGED <<result, user_complete, looker, changes, reopened, overtaken>>
    BY <1>2 DEF SavePoints, Does
  <2>2. deriver[w] \in DeriverType /\ deriver[w].sum \in SUBSET Verdicts /\ deriver[w].late \in BOOLEAN
    BY DEF StandingTypes, DeriverType
  <2>3. deriver' = [deriver EXCEPT ![w] = [todo |-> Tail(deriver[w].todo), copy |-> deriver[w].copy,
                                           sum |-> deriver[w].sum, late |-> deriver[w].late]]
    BY <1>2 DEF SavePoints, Does
  <2>4. /\ deriver' \in [Derivers -> DeriverType] /\ \A d \in Derivers \ {w} : deriver'[d] = deriver[d]
        /\ deriver'[w].todo = Tail(deriver[w].todo)
    BY <2>1, <2>2, <2>3, WorkTypes
  <2>5. /\ \A d \in Derivers : \A other : other # "save" =>
             (Owes(deriver'[d].todo, other) <=> Owes(deriver[d].todo, other))
        /\ ~First(deriver'[w].todo, "save")
    BY <2>1, <2>4, WorkPlans
  <2>6. Earning' = Earning
    BY <2>1 DEF Earning
  <2>7. deriver[w].late \/ deriver[w].sum = Earning
    BY <2>1, IsFirst DEF SumsAreRight
  <2>8. /\ performance_points' = IF deriver[w].copy # deriver[w].sum THEN deriver[w].sum ELSE performance_points
        /\ wrong' = (deriver[w].late \/ (deriver[w].copy = deriver[w].sum /\ performance_points # deriver[w].copy))
    BY <1>2 DEF SavePoints, Does
  <2>9. StandingTypes'
    <3>1. wrong' \in BOOLEAN
      BY <2>2, <2>8
    <3>2. performance_points' \subseteq Verdicts
      BY <2>2, <2>8 DEF StandingTypes
    <3> QED
      BY <2>1, <2>4, <3>1, <3>2 DEF StandingTypes
  <2>10. SumsAreRight' /\ SeenIsRight'
    BY <2>1, <2>4, <2>5, <2>6 DEF SumsAreRight, SeenIsRight
  <2>11. PointsAreRight'
    BY <2>6, <2>7, <2>8 DEF PointsAreRight
  <2>12. SolvedIsRight'
    BY <2>1, <2>5, <2>6 DEF SolvedIsRight
  <2> QED
    BY <2>9, <2>10, <2>11, <2>12
<1>3. ASSUME NEW w \in Derivers, DropSolved(w) PROVE StandingInv'
  <2>1. IsNext(w, "drop") /\ user_complete' = NoSet /\ overtaken' = FALSE
        /\ UNCHANGED <<result, performance_points, looker, changes, reopened, wrong>>
    BY <1>3 DEF DropSolved, Does
  <2>2. deriver[w] \in DeriverType /\ deriver[w].sum \in SUBSET Verdicts /\ deriver[w].late \in BOOLEAN
    BY DEF StandingTypes, DeriverType
  <2>3. deriver' = [deriver EXCEPT ![w] = [todo |-> Tail(deriver[w].todo), copy |-> deriver[w].copy,
                                           sum |-> deriver[w].sum, late |-> deriver[w].late]]
    BY <1>3 DEF DropSolved, Does
  <2>4. /\ deriver' \in [Derivers -> DeriverType] /\ \A d \in Derivers \ {w} : deriver'[d] = deriver[d]
        /\ deriver'[w].todo = Tail(deriver[w].todo)
    BY <2>1, <2>2, <2>3, WorkTypes
  <2>5. /\ \A d \in Derivers : \A other : other # "drop" =>
             (Owes(deriver'[d].todo, other) <=> Owes(deriver[d].todo, other))
        /\ ~First(deriver'[w].todo, "save")
    BY <2>1, <2>4, WorkPlans
  <2>6. Earning' = Earning
    BY <2>1 DEF Earning
  <2>7. StandingTypes'
    BY <2>1, <2>4 DEF StandingTypes
  <2>8. SumsAreRight' /\ SeenIsRight'
    BY <2>1, <2>4, <2>5, <2>6 DEF SumsAreRight, SeenIsRight
  <2>9. PointsAreRight' /\ SolvedIsRight'
    BY <2>1, <2>5, <2>6 DEF PointsAreRight, SolvedIsRight
  <2> QED
    BY <2>7, <2>8, <2>9
<1>4. ASSUME NEW w \in Derivers, Rescore(w) PROVE StandingInv'
  <2>1. deriver' = [deriver EXCEPT ![w] = Starts(AfterVerdict)] /\ changes' = changes + 1 /\ changes < MaxChanges
        /\ UNCHANGED <<result, performance_points, user_complete, looker, reopened, wrong, overtaken>>
    BY <1>4 DEF Rescore
  <2>2. Starts(AfterVerdict) \in DeriverType /\ Starts(AfterVerdict).todo = AfterVerdict
    BY PlanStarts DEF Starts, DeriverType, StandingTypes
  <2>3. /\ deriver' \in [Derivers -> DeriverType] /\ \A d \in Derivers \ {w} : deriver'[d] = deriver[d]
        /\ deriver'[w].todo = AfterVerdict
    BY <2>1, <2>2 DEF StandingTypes
  <2>4. Earning' = Earning
    BY <2>1 DEF Earning
  <2>5. StandingTypes'
    BY <2>1, <2>3, MaxChangesAssumption DEF StandingTypes
  <2>6. SumsAreRight' /\ SeenIsRight'
    BY <2>1, <2>3, <2>4, PlanStarts DEF SumsAreRight, SeenIsRight
  <2>7. PointsAreRight' /\ SolvedIsRight'
    BY <2>3, PlanStarts DEF PointsAreRight, SolvedIsRight
  <2> QED
    BY <2>5, <2>6, <2>7
<1>5. ASSUME NEW w \in Derivers, NEW s \in Verdicts, NEW r \in {"AC", "other"}, EndGrading(w, s, r)
      PROVE StandingInv'
  <2>1. Change(s, r, w, AfterVerdict) /\ reopened' \subseteq Verdicts
    BY <1>5 DEF EndGrading, StandingTypes
  <2> QED
    BY <2>1, ChangeKeeps, PlanStarts
<1>6. ASSUME NEW w \in Derivers, NEW s \in Verdicts, DeleteSubmission(w, s) PROVE StandingInv'
  <2>1. Change(s, "none", w, AfterDelete) /\ reopened' \subseteq Verdicts
    BY <1>6 DEF DeleteSubmission, StandingTypes
  <2> QED
    BY <2>1, ChangeKeeps, PlanStarts
<1>7. ASSUME NEW s \in Verdicts, Reopen(s) PROVE StandingInv'
  <2>1. Change(s, "none", NoSet, NothingLeft) /\ reopened' \subseteq Verdicts /\ reopened' # {}
    BY <1>7 DEF Reopen, StandingTypes, NothingLeft
  <2> QED
    BY <2>1, ChangeKeeps, PlanStarts
<1>8. ASSUME NEW v \in Lookers, LookUp(v) PROVE StandingInv'
  <2>1. looker' = [looker EXCEPT ![v] = [at |-> "keep", seen |-> Earning, late |-> FALSE]]
        /\ UNCHANGED <<result, performance_points, user_complete, deriver, changes, reopened, wrong, overtaken>>
    BY <1>8 DEF LookUp
  <2>2. [at |-> "keep", seen |-> Earning, late |-> FALSE] \in LookerType
    BY EarningTyped DEF LookerType
  <2>3. /\ looker' \in [Lookers -> LookerType] /\ \A u \in Lookers \ {v} : looker'[u] = looker[u]
        /\ looker'[v].seen = Earning
    BY <2>1, <2>2 DEF StandingTypes
  <2>4. Earning' = Earning
    BY <2>1 DEF Earning
  <2>5. StandingTypes'
    BY <2>1, <2>3 DEF StandingTypes
  <2>6. SumsAreRight' /\ SeenIsRight'
    BY <2>1, <2>3, <2>4 DEF SumsAreRight, SeenIsRight
  <2>7. PointsAreRight' /\ SolvedIsRight'
    BY <2>1, <2>4 DEF PointsAreRight, SolvedIsRight
  <2> QED
    BY <2>5, <2>6, <2>7
<1>9. ASSUME NEW v \in Lookers, KeepSolved(v) PROVE StandingInv'
  <2>1. /\ looker[v].at = "keep" /\ user_complete' = looker[v].seen /\ overtaken' = looker[v].late
        /\ looker' = [looker EXCEPT ![v] = NotLooking]
        /\ UNCHANGED <<result, performance_points, deriver, changes, reopened, wrong>>
    BY <1>9 DEF KeepSolved
  <2>2. NotLooking \in LookerType /\ NotLooking.at = "idle"
    BY DEF NotLooking, LookerType
  <2>3. /\ looker' \in [Lookers -> LookerType] /\ \A u \in Lookers \ {v} : looker'[u] = looker[u]
        /\ looker'[v].at = "idle"
    BY <2>1, <2>2 DEF StandingTypes
  <2>4. Earning' = Earning
    BY <2>1 DEF Earning
  <2>5. looker[v].late \in BOOLEAN /\ looker[v].seen \subseteq Verdicts
        /\ (looker[v].late \/ looker[v].seen = Earning)
    BY <2>1 DEF StandingTypes, LookerType, SeenIsRight
  <2>6. StandingTypes'
    BY <2>1, <2>3, <2>5 DEF StandingTypes
  <2>7. SumsAreRight' /\ SeenIsRight'
    BY <2>1, <2>3, <2>4 DEF SumsAreRight, SeenIsRight
  <2>8. PointsAreRight' /\ SolvedIsRight'
    BY <2>1, <2>4, <2>5 DEF PointsAreRight, SolvedIsRight
  <2> QED
    BY <2>6, <2>7, <2>8
<1>10. CASE ExpireSolved
  BY <1>10 DEF ExpireSolved, StandingTypes, SumsAreRight, SeenIsRight, PointsAreRight, SolvedIsRight, Earning
<1>11. CASE UNCHANGED stvars
  BY <1>11 DEF stvars, StandingTypes, SumsAreRight, SeenIsRight, PointsAreRight, SolvedIsRight, Earning
<1> QED
  BY <1>1, <1>2, <1>3, <1>4, <1>5, <1>6, <1>7, <1>8, <1>9, <1>10, <1>11 DEF StandingNext

\* The invariant holds in every reachable state.
LEMMA StandingHolds == StandingSpec => []StandingInv
BY StandingStarts, StandingStep, PTL DEF StandingSpec

\* What is derived from a user's submissions is right once every change has been
\* worked through, the marked races apart.
THEOREM StandingStaysRight == StandingSpec => []StandingIsRight
<1>1. StandingInv => StandingIsRight
  <2> SUFFICES ASSUME StandingInv PROVE StandingIsRight
    OBVIOUS
  <2>1. \A task : Todo(task) = {} <=> \A w \in Derivers : ~Owes(deriver[w].todo, task)
    BY DEF Todo, Owes
  <2> QED
    BY <2>1 DEF StandingIsRight, StandingInv, PointsAreRight, SolvedIsRight
<1> QED
  BY <1>1, StandingHolds, PTL

-----------------------------------------------------------------------------
(* Desk: contests are shown and locked only as somebody decided who may *)

RunRow == [live : BOOLEAN, is_locked : BOOLEAN, graded : BOOLEAN]
\* What a request of the staff holds, by what it does.
DutyShape(d, rows) ==
  /\ d.doing \in {"form", "post"} => d.who \in Staff /\ d.fields \in ContestRow
  /\ d.doing \in {"post", "lock", "join"} => d.loaded \in ContestRow /\ d.vetted \in BOOLEAN
  /\ d.doing = "lock" => d.to \in BOOLEAN
  /\ d.doing = "verdict" => d.run \in DOMAIN rows /\ d.row \in RunRow /\ d.row.live = rows[d.run].live
OfficeTypes ==
  /\ contest \in ContestRow /\ vetted \in BOOLEAN /\ split \in BOOLEAN /\ runs \in Seq(RunRow)
  /\ desk = [c \in Desks |-> desk[c]] /\ \A c \in Desks : DutyShape(desk[c], runs)

\* An old row in somebody's hands was allowed when it was read, too.
HeldIsAllowed ==
  \A c \in Desks : desk[c].doing \in {"post", "lock", "join"} /\ Public(desk[c].loaded) => desk[c].vetted
OfficeInv == OfficeTypes /\ VisibleIsAllowed /\ HeldIsAllowed /\ LocksHold

\* Runs are only added, and none changes between live and virtual.
RunsStay == DOMAIN runs \subseteq DOMAIN runs' /\ \A i \in DOMAIN runs : runs'[i].live = runs[i].live

\* The other requests keep what they hold.
LEMMA OthersKeep ==
  ASSUME OfficeTypes, NEW c \in Desks, NEW d, desk' = [desk EXCEPT ![c] = d],
         RunsStay, DutyShape(d, runs')
  PROVE  desk' = [e \in Desks |-> desk'[e]] /\ \A e \in Desks : DutyShape(desk'[e], runs')
<1>1. desk' = [e \in Desks |-> IF e = c THEN d ELSE desk[e]]
  BY DEF OfficeTypes
<1>2. ASSUME NEW e \in Desks PROVE DutyShape(desk'[e], runs')
  <2>1. CASE e = c
    <3>1. desk'[e] = d
      BY <1>1, <2>1
    <3> QED
      BY <3>1 DEF DutyShape
  <2>2. CASE e # c
    <3>1. desk'[e] = desk[e] /\ DutyShape(desk[e], runs)
      BY <1>1, <2>2 DEF OfficeTypes
    <3> QED
      BY <3>1 DEF DutyShape, RunsStay
  <2> QED
    BY <2>1, <2>2
<1> QED
  BY <1>1, <1>2

\* A request that begins to hold d, or to hold nothing, and saves no contest.
LEMMA HeldKeeps ==
  ASSUME OfficeTypes, HeldIsAllowed, NEW c \in Desks, NEW d, desk' = [desk EXCEPT ![c] = d],
         d.doing \in {"post", "lock", "join"} /\ Public(d.loaded) => d.vetted
  PROVE  HeldIsAllowed'
<1>1. desk' = [e \in Desks |-> IF e = c THEN d ELSE desk[e]]
  BY DEF OfficeTypes
<1> QED
  BY <1>1 DEF HeldIsAllowed, Public

LEMMA OfficeStarts == ASSUME OfficeInit PROVE OfficeInv
<1>1. contest \in ContestRow /\ ~Public(contest) /\ runs = <<>> /\ vetted = FALSE /\ split = FALSE
  BY DEF OfficeInit, ContestRow, Flags, Public
<1>2. /\ desk = [c \in Desks |-> OffDuty] /\ OffDuty.doing = "nothing"
      /\ DutyShape(OffDuty, runs)
  BY DEF OfficeInit, OffDuty, DutyShape
<1>3. OfficeTypes
  <2>1. runs \in Seq(RunRow)
    BY <1>1
  <2>2. desk = [c \in Desks |-> desk[c]] /\ \A c \in Desks : DutyShape(desk[c], runs)
    BY <1>2
  <2> QED
    BY <1>1, <2>1, <2>2 DEF OfficeTypes
<1>4. HeldIsAllowed /\ VisibleIsAllowed
  BY <1>1, <1>2 DEF HeldIsAllowed, VisibleIsAllowed
<1>5. LocksHold
  BY <1>1 DEF LocksHold, LiveRuns
<1> QED
  BY <1>3, <1>4, <1>5 DEF OfficeInv

\* Locking, of a row that was read.
LEMMA LockingKeeps ==
  ASSUME OfficeTypes, NEW saved \in ContestRow, NEW locked \in BOOLEAN, set_is_locked(saved, locked)
  PROVE  /\ contest' \in ContestRow /\ split' \in BOOLEAN /\ runs' \in Seq(RunRow) /\ RunsStay /\ LocksHold'
         /\ Public(contest') = Public(saved)
<1>1. contest' = [saved EXCEPT !["is_locked"] = locked] /\ runs' = LockAll(locked) /\ split' = FALSE
      /\ loose' = loose \ LiveRuns
  BY DEF set_is_locked
<1>2. contest' \in ContestRow /\ contest'["is_locked"] = locked /\ Public(contest') = Public(saved)
  BY <1>1 DEF ContestRow, Flags, Public
<1>3. runs' = [i \in DOMAIN runs |-> IF runs[i].live THEN [runs[i] EXCEPT !.is_locked = locked] ELSE runs[i]]
  BY <1>1 DEF LockAll
<1>4. runs' \in Seq(RunRow) /\ DOMAIN runs' = DOMAIN runs
  <2>1. runs \in [1 .. Len(runs) -> RunRow] /\ Len(runs) \in Nat /\ DOMAIN runs = 1 .. Len(runs)
    BY DEF OfficeTypes
  <2>2. runs' \in [1 .. Len(runs) -> RunRow]
    BY <1>3, <2>1 DEF RunRow
  <2> QED
    BY <2>1, <2>2, <1>3
<1>5. ASSUME NEW i \in DOMAIN runs
      PROVE  runs[i] \in RunRow /\ runs'[i].live = runs[i].live /\ (runs[i].live => runs'[i].is_locked = locked)
  <2>1. runs[i] \in RunRow /\ runs'[i] = IF runs[i].live THEN [runs[i] EXCEPT !.is_locked = locked] ELSE runs[i]
    BY <1>3 DEF OfficeTypes
  <2> QED
    BY <2>1 DEF RunRow
<1>6. LocksHold'
  BY <1>2, <1>4, <1>5 DEF LocksHold, LiveRuns
<1> QED
  BY <1>1, <1>2, <1>4, <1>5, <1>6 DEF RunsStay

\* Saving an old row that keeps its lock.
LEMMA KeepingKeeps ==
  ASSUME OfficeTypes, LocksHold, NEW saved \in ContestRow, NEW loaded \in ContestRow,
         saved["is_locked"] = loaded["is_locked"], KeepsLock(saved, loaded)
  PROVE  contest' = saved /\ split' \in BOOLEAN /\ runs' = runs /\ RunsStay /\ LocksHold'
BY DEF KeepsLock, OfficeTypes, LocksHold, LiveRuns, RunsStay, ContestRow, Flags

\* A form that is saved by who may not change who sees contests shows it to nobody
\* but those it was shown to before.
LEMMA SavedIsAllowed ==
  ASSUME NEW who \in Staff, NEW loaded \in ContestRow, NEW fields \in ContestRow, NEW before \in BOOLEAN,
         Public(loaded) => before, ~is_refused(who, loaded, fields), NEW saved,
         saved = [f \in Flags |-> IF f \in get_readonly_fields(who) THEN loaded[f] ELSE fields[f]]
  PROVE  saved \in ContestRow /\ (Public(saved) => Allows(who, saved, before))
<1>1. saved \in ContestRow
  BY DEF ContestRow
<1>2. /\ saved["is_visible"] = IF "is_visible" \in get_readonly_fields(who) THEN loaded["is_visible"] ELSE fields["is_visible"]
      /\ saved["is_private"] = IF "is_private" \in get_readonly_fields(who) THEN loaded["is_private"] ELSE fields["is_private"]
  BY DEF Flags
<1>3. /\ "is_private" \in get_readonly_fields(who) <=> ~may(who, "create_private_contest")
      /\ "is_visible" \in get_readonly_fields(who) <=>
           ~may(who, "create_private_contest") /\ ~may(who, "change_contest_visibility")
  BY DEF get_readonly_fields, Flags
<1>4. ASSUME Public(saved), ~may(who, "change_contest_visibility") PROVE Public(loaded)
  BY <1>2, <1>3, <1>4 DEF Public, is_refused
<1> QED
  BY <1>1, <1>4 DEF Allows

LEMMA OfficeStep == ASSUME OfficeInv, [OfficeNext]_ovars PROVE OfficeInv'
<1> USE DEF OfficeInv
<1>0. ASSUME UNCHANGED <<contest, vetted, runs, split>> 
      PROVE  RunsStay /\ VisibleIsAllowed'
  BY <1>0 DEF RunsStay, VisibleIsAllowed
<1>1. ASSUME NEW c \in Desks, NEW who \in Staff, OpenForm(c, who) PROVE OfficeInv'
  <2> DEFINE d == [doing |-> "form", who |-> who, fields |-> contest]
  <2>1. desk' = [desk EXCEPT ![c] = d] /\ UNCHANGED <<contest, vetted, runs, split, loose>>
    BY <1>1 DEF OpenForm
  <2>2. DutyShape(d, runs') /\ d.doing = "form"
    BY <2>1 DEF DutyShape, OfficeTypes
  <2>3. LocksHold'
    BY <2>1 DEF LocksHold, LiveRuns
  <2> HIDE DEF d
  <2>4. HeldIsAllowed'
    BY <2>1, <2>2, HeldKeeps
  <2>5. OfficeTypes'
    BY <2>1, <2>2, <1>0, OthersKeep DEF OfficeTypes
  <2> QED
    BY <2>1, <2>3, <2>4, <2>5, <1>0
<1>2. ASSUME NEW c \in Desks, PostForm(c) PROVE OfficeInv'
  <2>0. PICK f \in Flags, value \in BOOLEAN :
          desk' = [desk EXCEPT ![c] = [doing |-> "post", who |-> @.who, fields |-> [@.fields EXCEPT ![f] = value],
                                       loaded |-> contest, vetted |-> vetted]]
    BY <1>2 DEF PostForm
  <2> DEFINE d == [doing |-> "post", who |-> desk[c].who, fields |-> [desk[c].fields EXCEPT ![f] = value],
                   loaded |-> contest, vetted |-> vetted]
  <2>1. desk' = [desk EXCEPT ![c] = d] /\ UNCHANGED <<contest, vetted, runs, split, loose>>
    BY <1>2, <2>0 DEF PostForm, OfficeTypes
  <2>2. desk[c].who \in Staff /\ desk[c].fields \in ContestRow
    BY <1>2 DEF PostForm, Doing, OfficeTypes, DutyShape
  <2>3. [desk[c].fields EXCEPT ![f] = value] \in ContestRow
    BY <2>2 DEF ContestRow
  <2>4. DutyShape(d, runs') /\ (Public(d.loaded) => d.vetted)
    BY <2>2, <2>3 DEF DutyShape, OfficeTypes, VisibleIsAllowed
  <2>5. LocksHold'
    BY <2>1 DEF LocksHold, LiveRuns
  <2> HIDE DEF d
  <2>6. HeldIsAllowed'
    BY <2>1, <2>4, HeldKeeps
  <2>7. OfficeTypes'
    BY <2>1, <2>4, <1>0, OthersKeep DEF OfficeTypes
  <2> QED
    BY <2>1, <2>5, <2>6, <2>7, <1>0
<1>4. DutyShape(OffDuty, runs') /\ OffDuty.doing = "nothing"
  BY DEF DutyShape, OffDuty
<1>5. ASSUME NEW c \in Desks, SavePost(c) PROVE OfficeInv'
  <2> DEFINE d == desk[c]
             saved == [f \in Flags |-> IF f \in get_readonly_fields(d.who) THEN d.loaded[f] ELSE d.fields[f]]
  <2>1. /\ d.doing = "post" /\ desk' = [desk EXCEPT ![c] = OffDuty]
        /\ d.who \in Staff /\ d.fields \in ContestRow /\ d.loaded \in ContestRow /\ d.vetted \in BOOLEAN
        /\ Public(d.loaded) => d.vetted
    BY <1>5 DEF SavePost, Doing, OfficeTypes, DutyShape, HeldIsAllowed
  <2>2. HeldIsAllowed'
    BY <2>1, <1>4, HeldKeeps
  <2>3. CASE is_refused(d.who, d.loaded, d.fields)
    <3>1. UNCHANGED <<contest, vetted, runs, split, loose>>
      BY <1>5, <2>3 DEF SavePost
    <3>2. OfficeTypes'
      BY <3>1, <2>1, <1>4, <1>0, OthersKeep DEF OfficeTypes
    <3>3. LocksHold'
      BY <3>1 DEF LocksHold, LiveRuns
    <3> QED
      BY <3>1, <3>2, <3>3, <2>2, <1>0
  <2>4. CASE ~is_refused(d.who, d.loaded, d.fields)
    <3>1. /\ IF saved["is_locked"] # d.loaded["is_locked"] THEN set_is_locked(saved, saved["is_locked"]) ELSE KeepsLock(saved, d.loaded)
          /\ vetted' = Allows(d.who, saved, d.vetted)
      BY <1>5, <2>4 DEF SavePost
    <3>2. saved \in ContestRow /\ (Public(saved) => Allows(d.who, saved, d.vetted))
      BY <2>1, <2>4, SavedIsAllowed
    <3>3. vetted' \in BOOLEAN /\ saved["is_locked"] \in BOOLEAN
      BY <3>1, <3>2, <2>1 DEF Allows, Public, ContestRow, Flags
    <3> HIDE DEF saved
    <3>4. /\ contest' \in ContestRow /\ split' \in BOOLEAN /\ runs' \in Seq(RunRow) /\ RunsStay /\ LocksHold'
          /\ Public(contest') = Public(saved)
      <4>1. CASE saved["is_locked"] # d.loaded["is_locked"]
        BY <4>1, <3>1, <3>2, <3>3, LockingKeeps
      <4>2. CASE saved["is_locked"] = d.loaded["is_locked"]
        BY <4>2, <3>1, <3>2, <2>1, KeepingKeeps DEF OfficeTypes
      <4> QED
        BY <4>1, <4>2
    <3>5. OfficeTypes'
      BY <3>3, <3>4, <2>1, <1>4, OthersKeep DEF OfficeTypes
    <3>6. VisibleIsAllowed'
      BY <3>1, <3>2, <3>4 DEF VisibleIsAllowed, Public
    <3> QED
      BY <3>4, <3>5, <3>6, <2>2
  <2> QED
    BY <2>3, <2>4
<1>6. ASSUME NEW who \in Staff, make_visible(who) PROVE OfficeInv'
  <2>1. /\ contest' = [contest EXCEPT !["is_visible"] = TRUE] /\ UNCHANGED <<runs, desk, split, loose>>
        /\ vetted' = Allows(who, contest', vetted)
        /\ may(who, "change_contest_visibility") \/ contest["is_private"]
    BY <1>6 DEF make_visible, mark_visible
  <2>2. contest' \in ContestRow /\ contest'["is_private"] = contest["is_private"] /\ contest'["is_locked"] = contest["is_locked"]
    BY <2>1 DEF OfficeTypes, ContestRow, Flags
  <2>3. vetted' \in BOOLEAN
    BY <2>1, <2>2 DEF Allows, Public, ContestRow, Flags, OfficeTypes
  <2>4. OfficeTypes'
    BY <2>1, <2>2, <2>3 DEF OfficeTypes
  <2>5. VisibleIsAllowed'
    BY <2>1, <2>2 DEF VisibleIsAllowed, Allows, Public
  <2>6. HeldIsAllowed' /\ LocksHold'
    BY <2>1, <2>2 DEF HeldIsAllowed, Public, LocksHold, LiveRuns
  <2> QED
    BY <2>4, <2>5, <2>6
<1>7. ASSUME NEW c \in Desks, NEW who \in Staff, NEW locked \in BOOLEAN, ReadRows(c, who, locked) PROVE OfficeInv'
  <2> DEFINE d == [doing |-> "lock", loaded |-> contest, vetted |-> vetted, to |-> locked]
  <2>1. desk' = [desk EXCEPT ![c] = d] /\ UNCHANGED <<contest, vetted, runs, split, loose>>
    BY <1>7 DEF ReadRows
  <2>2. DutyShape(d, runs') /\ (Public(d.loaded) => d.vetted)
    BY DEF DutyShape, OfficeTypes, VisibleIsAllowed
  <2>3. LocksHold'
    BY <2>1 DEF LocksHold, LiveRuns
  <2> HIDE DEF d
  <2>4. HeldIsAllowed'
    BY <2>1, <2>2, HeldKeeps
  <2>5. OfficeTypes'
    BY <2>1, <2>2, <1>0, OthersKeep DEF OfficeTypes
  <2> QED
    BY <2>1, <2>3, <2>4, <2>5, <1>0
<1>8. ASSUME NEW c \in Desks, set_locked(c) PROVE OfficeInv'
  <2>1. /\ desk' = [desk EXCEPT ![c] = OffDuty] /\ vetted' = desk[c].vetted
        /\ set_is_locked(desk[c].loaded, desk[c].to)
        /\ desk[c].loaded \in ContestRow /\ desk[c].to \in BOOLEAN /\ desk[c].vetted \in BOOLEAN
        /\ Public(desk[c].loaded) => desk[c].vetted
    BY <1>8 DEF set_locked, Doing, OfficeTypes, DutyShape, HeldIsAllowed
  <2>2. /\ contest' \in ContestRow /\ split' \in BOOLEAN /\ runs' \in Seq(RunRow) /\ RunsStay /\ LocksHold'
        /\ Public(contest') = Public(desk[c].loaded)
    BY <2>1, LockingKeeps
  <2>3. OfficeTypes'
    BY <2>1, <2>2, <1>4, OthersKeep DEF OfficeTypes
  <2>4. HeldIsAllowed'
    BY <2>1, <1>4, HeldKeeps
  <2>5. VisibleIsAllowed'
    BY <2>1, <2>2 DEF VisibleIsAllowed, Public
  <2> QED
    BY <2>2, <2>3, <2>4, <2>5
<1>9. ASSUME NEW c \in Desks, BeginJoin(c) PROVE OfficeInv'
  <2> DEFINE d == [doing |-> "join", loaded |-> contest, vetted |-> vetted]
  <2>1. desk' = [desk EXCEPT ![c] = d] /\ UNCHANGED <<contest, vetted, runs, split, loose>>
    BY <1>9 DEF BeginJoin
  <2>2. DutyShape(d, runs') /\ (Public(d.loaded) => d.vetted)
    BY DEF DutyShape, OfficeTypes, VisibleIsAllowed
  <2>3. LocksHold'
    BY <2>1 DEF LocksHold, LiveRuns
  <2> HIDE DEF d
  <2>4. HeldIsAllowed'
    BY <2>1, <2>2, HeldKeeps
  <2>5. OfficeTypes'
    BY <2>1, <2>2, <1>0, OthersKeep DEF OfficeTypes
  <2> QED
    BY <2>1, <2>3, <2>4, <2>5, <1>0
<1>10. ASSUME NEW c \in Desks, update_user_count(c) PROVE OfficeInv'
  <2>1. /\ desk' = [desk EXCEPT ![c] = OffDuty] /\ vetted' = desk[c].vetted
        /\ KeepsLock(desk[c].loaded, desk[c].loaded)
        /\ desk[c].loaded \in ContestRow /\ desk[c].vetted \in BOOLEAN
        /\ Public(desk[c].loaded) => desk[c].vetted
    BY <1>10 DEF update_user_count, Doing, OfficeTypes, DutyShape, HeldIsAllowed
  <2>2. contest' = desk[c].loaded /\ split' \in BOOLEAN /\ runs' = runs /\ RunsStay /\ LocksHold'
    BY <2>1, KeepingKeeps
  <2>3. OfficeTypes'
    BY <2>1, <2>2, <1>4, OthersKeep DEF OfficeTypes
  <2>4. HeldIsAllowed'
    BY <2>1, <1>4, HeldKeeps
  <2>5. VisibleIsAllowed'
    BY <2>1, <2>2 DEF VisibleIsAllowed, Public
  <2> QED
    BY <2>2, <2>3, <2>4, <2>5
<1>11. ASSUME NEW live \in BOOLEAN, SendRun(live) PROVE OfficeInv'
  <2>1. /\ runs' = Append(runs, [live |-> live, is_locked |-> FALSE, graded |-> FALSE])
        /\ loose' = IF contest["is_locked"] THEN loose \cup {Len(runs) + 1} ELSE loose
        /\ UNCHANGED <<contest, vetted, desk, split>>
    BY <1>11 DEF SendRun
  <2>2. runs \in Seq(RunRow) /\ [live |-> live, is_locked |-> FALSE, graded |-> FALSE] \in RunRow
    BY DEF OfficeTypes, RunRow
  <2>3. /\ runs' \in Seq(RunRow) /\ DOMAIN runs = 1 .. Len(runs) /\ DOMAIN runs' = 1 .. Len(runs) + 1 /\ Len(runs) \in Nat
        /\ \A i \in DOMAIN runs : runs'[i] = runs[i]
        /\ runs'[Len(runs) + 1].is_locked = FALSE
    BY <2>1, <2>2
  <2>4. RunsStay
    BY <2>3 DEF RunsStay
  <2>5. OfficeTypes'
    <3>1. ASSUME NEW c \in Desks PROVE DutyShape(desk'[c], runs')
      <4>1. DutyShape(desk[c], runs) /\ desk'[c] = desk[c]
        BY <2>1 DEF OfficeTypes
      <4> QED
        BY <4>1, <2>4 DEF DutyShape, RunsStay
    <3> QED
      BY <3>1, <2>1, <2>3 DEF OfficeTypes
  <2>6. LocksHold'
    <3> SUFFICES ASSUME ~split, NEW i \in LiveRuns' \ loose' PROVE runs'[i].is_locked = contest["is_locked"]
      BY <2>1 DEF LocksHold
    <3>1. i \in DOMAIN runs' /\ runs'[i].live /\ i \notin loose'
      BY DEF LiveRuns
    <3>2. CASE i = Len(runs) + 1
      BY <2>1, <2>3, <3>1, <3>2 DEF OfficeTypes, ContestRow, Flags
    <3>3. CASE i # Len(runs) + 1
      <4>1. i \in DOMAIN runs /\ runs'[i] = runs[i]
        BY <2>3, <3>1, <3>3
      <4> QED
        BY <2>1, <3>1, <4>1 DEF LocksHold, LiveRuns
    <3> QED
      BY <3>2, <3>3
  <2> QED
    BY <2>1, <2>5, <2>6 DEF VisibleIsAllowed, HeldIsAllowed, Public
<1>12. ASSUME NEW c \in Desks, NEW i \in DOMAIN runs, BeginVerdict(c, i) PROVE OfficeInv'
  <2> DEFINE d == [doing |-> "verdict", run |-> i, row |-> runs[i]]
  <2>1. desk' = [desk EXCEPT ![c] = d] /\ UNCHANGED <<contest, vetted, runs, split, loose>>
    BY <1>12 DEF BeginVerdict
  <2>2. DutyShape(d, runs') /\ d.doing = "verdict"
    BY <2>1 DEF DutyShape, OfficeTypes
  <2>3. LocksHold'
    BY <2>1 DEF LocksHold, LiveRuns
  <2> HIDE DEF d
  <2>4. HeldIsAllowed'
    BY <2>1, <2>2, HeldKeeps
  <2>5. OfficeTypes'
    BY <2>1, <2>2, <1>0, OthersKeep DEF OfficeTypes
  <2> QED
    BY <2>1, <2>3, <2>4, <2>5, <1>0
<1>13. ASSUME NEW c \in Desks, NEW i \in DOMAIN runs, BeginRejudge(c, i) PROVE OfficeInv'
  <2> DEFINE d == [doing |-> "judge", run |-> i, row |-> runs[i]]
  <2>1. desk' = [desk EXCEPT ![c] = d] /\ UNCHANGED <<contest, vetted, runs, split, loose>>
    BY <1>13 DEF BeginRejudge
  <2>2. DutyShape(d, runs') /\ d.doing = "judge"
    BY DEF DutyShape
  <2>3. LocksHold'
    BY <2>1 DEF LocksHold, LiveRuns
  <2> HIDE DEF d
  <2>4. HeldIsAllowed'
    BY <2>1, <2>2, HeldKeeps
  <2>5. OfficeTypes'
    BY <2>1, <2>2, <1>0, OthersKeep DEF OfficeTypes
  <2> QED
    BY <2>1, <2>3, <2>4, <2>5, <1>0
\* A request that changes no contest, and one run at most.
<1>14. ASSUME NEW c \in Desks, SaveVerdict(c) PROVE OfficeInv'
  <2> DEFINE d == desk[c]
  <2>1. /\ desk' = [desk EXCEPT ![c] = OffDuty] /\ UNCHANGED <<contest, vetted, split>>
        /\ runs' = [runs EXCEPT ![d.run] = [d.row EXCEPT !.graded = TRUE]]
        /\ loose' = IF d.row.is_locked # runs[d.run].is_locked THEN loose \cup {d.run} ELSE loose
        /\ d.run \in DOMAIN runs /\ d.row \in RunRow /\ d.row.live = runs[d.run].live
    BY <1>14 DEF SaveVerdict, Doing, OfficeTypes, DutyShape
  <2>2. /\ [d.row EXCEPT !.graded = TRUE] \in RunRow
        /\ [d.row EXCEPT !.graded = TRUE].live = d.row.live /\ [d.row EXCEPT !.graded = TRUE].is_locked = d.row.is_locked
    BY <2>1 DEF RunRow
  <2>3. /\ runs' \in Seq(RunRow) /\ DOMAIN runs' = DOMAIN runs
        /\ \A i \in DOMAIN runs : runs'[i] = IF i = d.run THEN [d.row EXCEPT !.graded = TRUE] ELSE runs[i]
    BY <2>1, <2>2 DEF OfficeTypes
  <2>4. RunsStay
    BY <2>1, <2>2, <2>3 DEF RunsStay
  <2>5. OfficeTypes'
    BY <2>1, <2>3, <2>4, <1>4, OthersKeep DEF OfficeTypes
  <2>6. HeldIsAllowed' /\ VisibleIsAllowed'
    BY <2>1, <1>4, HeldKeeps DEF VisibleIsAllowed
  <2>7. LocksHold'
    BY <2>1, <2>2, <2>3 DEF LocksHold, LiveRuns
  <2> QED
    BY <2>5, <2>6, <2>7
<1>15. ASSUME NEW c \in Desks, judge(c) PROVE OfficeInv'
  <2> DEFINE d == desk[c]
  <2>1. /\ desk' = [desk EXCEPT ![c] = OffDuty] /\ UNCHANGED <<contest, vetted, split, loose>>
        /\ runs' = IF d.row.is_locked THEN runs ELSE [runs EXCEPT ![d.run].graded = FALSE]
    BY <1>15 DEF judge
  <2>2. runs \in [1 .. Len(runs) -> RunRow] /\ Len(runs) \in Nat /\ DOMAIN runs = 1 .. Len(runs)
    BY DEF OfficeTypes
  <2>3. /\ runs' \in [1 .. Len(runs) -> RunRow]
        /\ \A i \in DOMAIN runs : runs'[i].live = runs[i].live /\ runs'[i].is_locked = runs[i].is_locked
    BY <2>1, <2>2 DEF RunRow
  <2>4. runs' \in Seq(RunRow) /\ DOMAIN runs' = DOMAIN runs /\ RunsStay
    BY <2>2, <2>3 DEF RunsStay
  <2>5. OfficeTypes'
    BY <2>1, <2>4, <1>4, OthersKeep DEF OfficeTypes
  <2>6. HeldIsAllowed' /\ VisibleIsAllowed'
    BY <2>1, <1>4, HeldKeeps DEF VisibleIsAllowed
  <2>7. LocksHold'
    BY <2>1, <2>3, <2>4 DEF LocksHold, LiveRuns
  <2> QED
    BY <2>5, <2>6, <2>7
<1>16. ASSUME NEW i \in DOMAIN runs, LockOne(i) PROVE OfficeInv'
  <2>1. runs' = [runs EXCEPT ![i].is_locked = ~@] /\ loose' = loose \cup {i} /\ UNCHANGED <<contest, vetted, desk, split>>
    BY <1>16 DEF LockOne
  <2>2. runs \in [1 .. Len(runs) -> RunRow] /\ Len(runs) \in Nat /\ DOMAIN runs = 1 .. Len(runs)
    BY DEF OfficeTypes
  <2>3. [runs[i] EXCEPT !.is_locked = ~@] \in RunRow /\ [runs[i] EXCEPT !.is_locked = ~@].live = runs[i].live
    BY <2>2 DEF RunRow
  <2>4. /\ runs' \in [1 .. Len(runs) -> RunRow]
        /\ \A k \in DOMAIN runs : runs'[k].live = runs[k].live /\ (k # i => runs'[k] = runs[k])
    BY <2>1, <2>2, <2>3
  <2>5. runs' \in Seq(RunRow) /\ DOMAIN runs' = DOMAIN runs /\ RunsStay
    BY <2>2, <2>4 DEF RunsStay
  <2>6. OfficeTypes'
    BY <2>1, <2>5 DEF OfficeTypes, DutyShape, RunsStay
  <2>7. LocksHold'
    BY <2>1, <2>4, <2>5 DEF LocksHold, LiveRuns
  <2> QED
    BY <2>1, <2>6, <2>7 DEF VisibleIsAllowed, HeldIsAllowed, Public
<1>17. CASE UNCHANGED ovars
  BY <1>17 DEF ovars, OfficeTypes, DutyShape, VisibleIsAllowed, HeldIsAllowed, LocksHold, LiveRuns, Public
<1> QED
  BY <1>1, <1>2, <1>5, <1>6, <1>7, <1>8, <1>9, <1>10, <1>11, <1>12, <1>13, <1>14, <1>15, <1>16, <1>17 DEF OfficeNext

\* The invariant of the office holds in every reachable state.
LEMMA OfficeHolds == DeskSpec => []OfficeInv
<1>1. DeskInit => OfficeInv
  BY OfficeStarts DEF DeskInit
<1>2. [DeskNext]_dvars => [OfficeNext]_ovars
  BY DEF DeskNext, dvars, ovars, AgendaNext, Later, Join
<1> QED
  BY <1>1, <1>2, OfficeStep, PTL DEF DeskSpec

\* A contest that everybody sees was made so by somebody who may, for any staff,
\* permissions and number of requests.
THEOREM VisibleStaysAllowed == DeskSpec => []VisibleIsAllowed
BY OfficeHolds, PTL DEF OfficeInv

\* Live submissions are locked as their contest is, the marked races apart.
THEOREM LocksStayTogether == DeskSpec => []LocksHold
BY OfficeHolds, PTL DEF OfficeInv

-----------------------------------------------------------------------------
(* Desk: the sections of the list of contests *)

\* Who takes part has begun, in a contest that is shown, between its start and now.
AgendaInv ==
  /\ now \in Nat
  /\ agenda \in [Meets -> [start_time : Nat, end_time : Nat, time_limit : Nat \cup {NoLimit}, is_visible : BOOLEAN]]
  /\ began = [k \in Meets |-> began[k]]
  /\ \A k \in Meets : agenda[k].start_time < agenda[k].end_time
  /\ \A k \in Meets : \/ began[k] = Never
                      \/ /\ began[k] \in Nat /\ began[k] <= now /\ agenda[k].start_time <= began[k]
                         /\ agenda[k].is_visible

LEMMA AgendaHoldsAlways == DeskSpec => []AgendaInv
<1>1. ASSUME DeskInit PROVE AgendaInv
  <2>1. agenda \in [Meets -> {[start_time |-> t[1], end_time |-> t[2], time_limit |-> limit, is_visible |-> shown] :
                             t \in Terms, limit \in Limits, shown \in BOOLEAN}]
        /\ began = [k \in Meets |-> Never] /\ now = 0
    BY <1>1 DEF DeskInit, AgendaInit
  <2>2. ASSUME NEW t \in Terms, NEW limit \in Limits, NEW shown \in BOOLEAN
        PROVE  [start_time |-> t[1], end_time |-> t[2], time_limit |-> limit, is_visible |-> shown]
                 \in [start_time : Nat, end_time : Nat, time_limit : Nat \cup {NoLimit}, is_visible : BOOLEAN]
    BY DeskAssumption
  <2>3. ASSUME NEW k \in Meets PROVE agenda[k].start_time < agenda[k].end_time
    <3>1. PICK t \in Terms, limit \in Limits, shown \in BOOLEAN :
            agenda[k] = [start_time |-> t[1], end_time |-> t[2], time_limit |-> limit, is_visible |-> shown]
      BY <2>1
    <3> QED
      BY <3>1, DeskAssumption
  <2> QED
    BY <2>1, <2>2, <2>3 DEF AgendaInv
<1>2. ASSUME AgendaInv, [DeskNext]_dvars PROVE AgendaInv'
  <2>1. CASE UNCHANGED avars
    BY <1>2, <2>1 DEF avars, AgendaInv
  <2>2. CASE Later
    BY <1>2, <2>2 DEF Later, AgendaInv
  <2>3. ASSUME NEW k \in Meets, Join(k) PROVE AgendaInv'
    BY <1>2, <2>3 DEF Join, AgendaInv, can_join
  <2>4. OfficeNext => UNCHANGED avars
    BY DEF OfficeNext, OpenForm, PostForm, SavePost, make_visible, ReadRows, set_locked, BeginJoin, update_user_count,
           SendRun, BeginVerdict, SaveVerdict, BeginRejudge, judge, LockOne, avars
  <2> QED
    BY <1>2, <2>1, <2>2, <2>3, <2>4 DEF DeskNext, AgendaNext, dvars, avars
<1> QED
  BY <1>1, <1>2, PTL DEF DeskSpec

\* A participation ends with its contest at the latest.
LEMMA StartedBefore ==
  ASSUME AgendaInv, NEW k \in Meets, began[k] # Never
  PROVE  /\ participation_end(k) \in Nat /\ participation_end(k) <= agenda[k].end_time
         /\ agenda[k].is_visible /\ agenda[k].start_time <= now
         /\ now <= participation_end(k) => ~(agenda[k].end_time < now)
<1>1. /\ now \in Nat /\ agenda[k].start_time \in Nat /\ agenda[k].end_time \in Nat
      /\ agenda[k].time_limit \in Nat \cup {NoLimit}
      /\ began[k] \in Nat /\ began[k] <= now /\ agenda[k].start_time <= began[k] /\ agenda[k].is_visible
  BY DEF AgendaInv
<1>2. participation_end(k) \in Nat /\ participation_end(k) <= agenda[k].end_time
  BY <1>1, DeskAssumption DEF participation_end
<1> QED
  BY <1>1, <1>2

\* What is in each section.
LEMMA Sections ==
  ASSUME AgendaInv, NEW k \in Meets
  PROVE  /\ k \in ContestList.past_contests <=> agenda[k].is_visible /\ agenda[k].end_time < now
         /\ k \in ContestList.future_contests <=>
              agenda[k].is_visible /\ ~(agenda[k].end_time < now) /\ ~(agenda[k].start_time <= now)
         /\ k \in ContestList.active_participations <=> began[k] # Never /\ now <= participation_end(k)
         /\ k \in ContestList.current_contests <=>
              /\ agenda[k].is_visible /\ ~(agenda[k].end_time < now) /\ agenda[k].start_time <= now
              /\ ~(began[k] # Never /\ now <= participation_end(k))
<1>1. ASSUME began[k] # Never, now <= participation_end(k)
      PROVE  agenda[k].is_visible /\ ~(agenda[k].end_time < now) /\ agenda[k].start_time <= now
  BY <1>1, StartedBefore
<1> QED
  BY <1>1 DEF ContestList, Shown, has_ended

\* Every contest is in one section of the list, the one where it belongs, for any
\* contests, times and participations.
THEOREM ListStaysWhole == DeskSpec => []ListIsWhole
<1>1. ASSUME AgendaInv PROVE ListIsWhole
  <2> DEFINE sections(k) == {s \in DOMAIN ContestList : k \in ContestList[s]}
  <2>1. DOMAIN ContestList = {"past_contests", "future_contests", "active_participations", "current_contests"}
    BY DEF ContestList
  <2>2. ASSUME NEW k \in Meets PROVE Cardinality(sections(k)) = IF agenda[k].is_visible THEN 1 ELSE 0
    <3>1. now \in Nat /\ agenda[k].start_time \in Nat /\ agenda[k].end_time \in Nat
      BY <1>1 DEF AgendaInv
    <3>2. agenda[k].is_visible => \E s : sections(k) = {s}
      <4>1. CASE agenda[k].is_visible /\ agenda[k].end_time < now /\ ~(began[k] # Never /\ now <= participation_end(k))
        <5>1. sections(k) = {"past_contests"}
          BY <1>1, <2>1, <4>1, Sections
        <5> QED
          BY <5>1
      <4>2. CASE agenda[k].is_visible /\ ~(agenda[k].end_time < now) /\ ~(agenda[k].start_time <= now)
                 /\ ~(began[k] # Never /\ now <= participation_end(k))
        <5>1. sections(k) = {"future_contests"}
          BY <1>1, <2>1, <4>2, Sections
        <5> QED
          BY <5>1
      <4>3. CASE agenda[k].is_visible /\ ~(agenda[k].end_time < now) /\ agenda[k].start_time <= now
                 /\ ~(began[k] # Never /\ now <= participation_end(k))
        <5>1. sections(k) = {"current_contests"}
          BY <1>1, <2>1, <4>3, Sections
        <5> QED
          BY <5>1
      <4>4. CASE began[k] # Never /\ now <= participation_end(k)
        <5>1. ~(agenda[k].end_time < now) /\ agenda[k].start_time <= now
          BY <1>1, <4>4, StartedBefore
        <5>2. sections(k) = {"active_participations"}
          BY <1>1, <2>1, <4>4, <5>1, Sections
        <5> QED
          BY <5>2
      <4> QED
        BY <4>1, <4>2, <4>3, <4>4
    <3>3. ~agenda[k].is_visible => sections(k) = {}
      <4>1. ~agenda[k].is_visible => ~(began[k] # Never /\ now <= participation_end(k))
        BY <1>1 DEF AgendaInv
      <4> QED
        BY <1>1, <2>1, <4>1, Sections
    <3> QED
      BY <3>2, <3>3, FS_Singleton, FS_EmptySet
  <2>3. ASSUME NEW k \in Meets
        PROVE  /\ k \in ContestList.active_participations <=> began[k] # Never /\ now <= participation_end(k)
               /\ k \in ContestList.current_contests => /\ can_join(k) /\ ~has_ended(k)
                                                        /\ began[k] # Never => participation_end(k) < now
    <3>1. now \in Nat /\ (began[k] # Never => participation_end(k) \in Nat)
      BY <1>1, StartedBefore DEF AgendaInv
    <3> QED
      BY <1>1, <3>1, Sections DEF can_join, has_ended
  <2> QED
    BY <2>2, <2>3 DEF ListIsWhole
<1> QED
  BY <1>1, AgendaHoldsAlways, PTL

-----------------------------------------------------------------------------
(* Desk: the calendar *)

\* A quotient is the greatest number of times the divisor goes in.
LEMMA DivIs ==
  ASSUME NEW d \in Nat \ {0}, NEW x \in Nat
  PROVE  /\ x \div d \in Nat
         /\ d * (x \div d) <= x /\ x < d * (x \div d) + d
OBVIOUS

\* Multiplying by a positive number keeps the order.
LEMMA LessTimes ==
  ASSUME NEW d \in Nat \ {0}, NEW m \in Int, NEW n \in Int
  PROVE  m <= n <=> d * m <= d * n
OBVIOUS

\* A number of times the divisor goes in is at most the quotient.
LEMMA DivBounds ==
  ASSUME NEW d \in Nat \ {0}, NEW x \in Nat, NEW n \in Int
  PROVE  n <= x \div d <=> d * n <= x
<1> DEFINE q == x \div d
<1>1. q \in Nat /\ d * q <= x /\ x < d * q + d
  BY DivIs
<1>2. d * n \in Int /\ d * q \in Int /\ d * (q + 1) = d * q + d
  BY <1>1
<1> HIDE DEF q
<1>3. CASE n <= q
  <2>1. d * n <= d * q
    BY <1>1, <1>3, LessTimes
  <2> QED
    BY <1>1, <1>2, <1>3, <2>1 DEF q
<1>4. CASE q + 1 <= n
  <2>1. d * (q + 1) <= d * n
    BY <1>1, <1>4, LessTimes
  <2> QED
    BY <1>1, <1>2, <1>4, <2>1 DEF q
<1> QED
  BY <1>1, <1>3, <1>4

\* Later instants are of later days and months.
LEMMA MonthsGrow ==
  ASSUME NEW x \in Nat, NEW y \in Nat, x <= y
  PROVE  DayOf(x) \in Nat /\ MonthOf(x) \in Nat /\ MonthOf(x) <= MonthOf(y)
<1>1. DayLength \in Nat \ {0} /\ MonthLength \in Nat \ {0}
  BY DeskAssumption
<1>2. DayOf(x) \in Nat /\ DayOf(y) \in Nat /\ DayOf(x) <= DayOf(y)
  <2>1. x \div DayLength \in Nat /\ y \div DayLength \in Nat /\ DayLength * (x \div DayLength) <= x
    BY <1>1, DivIs
  <2>2. DayLength * (x \div DayLength) \in Int
    BY <1>1, <2>1
  <2>3. DayLength * (x \div DayLength) <= y
    BY <2>1, <2>2
  <2>4. x \div DayLength <= y \div DayLength
    BY <1>1, <2>1, <2>3, DivBounds
  <2> QED
    BY <2>1, <2>4 DEF DayOf
<1>3. MonthOf(x) \in Nat /\ MonthOf(x) <= MonthOf(y)
  <2> DEFINE a == DayOf(x)
             b == DayOf(y)
  <2>1. a \div MonthLength \in Nat /\ b \div MonthLength \in Nat /\ MonthLength * (a \div MonthLength) <= a
    BY <1>1, <1>2, DivIs
  <2>2. MonthLength * (a \div MonthLength) \in Int
    BY <1>1, <2>1
  <2>3. MonthLength * (a \div MonthLength) <= b
    BY <1>2, <2>1, <2>2
  <2>4. a \div MonthLength <= b \div MonthLength
    BY <1>1, <1>2, <2>1, <2>3, DivBounds
  <2> QED
    BY <2>1, <2>4 DEF MonthOf
<1> QED
  BY <1>2, <1>3

\* A finite set of numbers that is not empty has a least and a greatest.
LEMMA EndsOf ==
  ASSUME NEW S, S \subseteq Nat, S # {}, IsFiniteSet(S)
  PROVE  /\ \E x \in S : \A y \in S : x <= y
         /\ \E x \in S : \A y \in S : y <= x
<1> DEFINE HasEnds(T) == (\E x \in T : \A y \in T : x <= y) /\ (\E x \in T : \A y \in T : y <= x)
           R == OpToRel(<, Nat)
           Sizes == {Cardinality(T) : T \in {U \in SUBSET S : U # {} /\ ~HasEnds(U)}}
<1>1. ASSUME NEW T \in SUBSET S PROVE IsFiniteSet(T) /\ Cardinality(T) \in Nat
  BY <1>1, FS_Subset, FS_CardinalityType
<1>2. Sizes \subseteq Nat
  BY <1>1
<1>3. Sizes = {}
  <2> SUFFICES ASSUME Sizes # {} PROVE FALSE
    OBVIOUS
  <2>1. PICK n \in Sizes : \A m \in Sizes : ~(<<m, n>> \in R)
    <3>1. IsWellFoundedOn(R, Nat)
      BY NatLessThanWellFounded
    <3> HIDE DEF R, Sizes
    <3> QED
      BY <1>2, <3>1, WFMin
  <2>2. \A m \in Sizes : ~(m < n)
    BY <1>2, <2>1 DEF OpToRel
  <2>3. PICK T \in SUBSET S : T # {} /\ ~HasEnds(T) /\ n = Cardinality(T)
    OBVIOUS
  <2>4. PICK x : x \in T
    BY <2>3
  <2> DEFINE U == T \ {x}
  <2>5. U \in SUBSET S /\ Cardinality(U) = n - 1 /\ Cardinality(U) \in Nat /\ n \in Nat
    BY <1>1, <2>3, <2>4, FS_RemoveElement
  <2>6. U # {} => HasEnds(U)
    <3> SUFFICES ASSUME U # {}, ~HasEnds(U) PROVE FALSE
      OBVIOUS
    <3>1. Cardinality(U) \in Sizes
      BY <2>5
    <3> QED
      BY <2>2, <2>5, <3>1
  <2>7. x \in Nat /\ T \subseteq Nat /\ T = U \cup {x}
    BY <2>4
  <2> HIDE DEF U
  <2>8. HasEnds(T)
    <3>1. CASE U = {}
      BY <2>7, <3>1
    <3>2. CASE U # {}
      <4>1. PICK a \in U, b \in U : \A y \in U : a <= y /\ y <= b
        BY <2>6, <3>2
      <4>2. \E v \in T : \A y \in T : v <= y
        <5>1. CASE a <= x
          BY <2>7, <4>1, <5>1
        <5>2. CASE x <= a
          BY <2>7, <4>1, <5>2
        <5> QED
          BY <2>7, <4>1, <5>1, <5>2
      <4>3. \E v \in T : \A y \in T : y <= v
        <5>1. CASE b <= x
          BY <2>7, <4>1, <5>1
        <5>2. CASE x <= b
          BY <2>7, <4>1, <5>2
        <5> QED
          BY <2>7, <4>1, <5>1, <5>2
      <4> QED
        BY <4>2, <4>3
    <3> QED
      BY <3>1, <3>2
  <2> QED
    BY <2>3, <2>8
<1>4. HasEnds(S)
  BY <1>3
<1> QED
  BY <1>4

\* The calendar opens from the month of the first contest to that of the last, or to
\* the present one.
LEMMA MonthsOpen ==
  ASSUME AgendaInv
  PROVE  /\ min_month \in Nat /\ max_month \in Nat
         /\ \A k \in Meets : min_month <= MonthOf(agenda[k].start_time) /\ MonthOf(agenda[k].end_time) <= max_month
         /\ MonthOf(now) <= max_month
<1> DEFINE begins == {agenda[k].start_time : k \in Meets}
           months == {MonthOf(agenda[k].end_time) : k \in Meets}
           all == months \cup {MonthOf(now)}
<1>1. /\ \A k \in Meets : agenda[k].start_time \in Nat /\ agenda[k].end_time \in Nat
      /\ now \in Nat
  BY DEF AgendaInv
<1>2. \A x \in Nat : MonthOf(x) \in Nat
  BY MonthsGrow
<1>3. begins \subseteq Nat /\ begins # {} /\ all \subseteq Nat /\ all # {}
  BY <1>1, <1>2, MeetsAssumption
<1>4. IsFiniteSet(begins) /\ IsFiniteSet(months) /\ IsFiniteSet({MonthOf(now)})
  <2>1. begins = {agenda[k].start_time : k \in Meets} /\ months = {MonthOf(agenda[k].end_time) : k \in Meets}
    OBVIOUS
  <2>2. IsFiniteSet(begins)
    <3> DEFINE f == [k \in Meets |-> agenda[k].start_time]
    <3>1. f \in Surjection(Meets, begins)
      BY DEF Surjection
    <3> HIDE DEF f, begins
    <3> QED
      BY <3>1, MeetsAssumption, FS_Surjection
  <2>3. IsFiniteSet(months)
    <3> DEFINE f == [k \in Meets |-> MonthOf(agenda[k].end_time)]
    <3>1. f \in Surjection(Meets, months)
      BY DEF Surjection
    <3> HIDE DEF f, months
    <3> QED
      BY <3>1, MeetsAssumption, FS_Surjection
  <2> QED
    BY <2>2, <2>3, FS_Singleton
<1>5. IsFiniteSet(all)
  <2> HIDE DEF months
  <2> QED
    BY <1>4, FS_Union
<1>6. min_month = MonthOf(least_in(begins)) /\ max_month = greatest_in(all)
  BY DEF min_month, max_month
<1>7. \A k \in Meets : agenda[k].start_time \in begins /\ MonthOf(agenda[k].end_time) \in all /\ MonthOf(now) \in all
  OBVIOUS
<1>8. MonthOf(now) \in all
  OBVIOUS
<1> HIDE DEF begins, all, months
<1>9. least_in(begins) \in begins /\ \A y \in begins : least_in(begins) <= y
  BY <1>3, <1>4, EndsOf DEF least_in
<1>10. greatest_in(all) \in all /\ \A y \in all : y <= greatest_in(all)
  BY <1>3, <1>5, EndsOf DEF greatest_in
<1>11. \A k \in Meets : min_month <= MonthOf(agenda[k].start_time)
  BY <1>1, <1>3, <1>6, <1>7, <1>9, MonthsGrow
<1> QED
  BY <1>2, <1>3, <1>6, <1>7, <1>8, <1>9, <1>10, <1>11

\* From every month that opens the links lead to every contest and to the present
\* month, for any finite set of contests and lengths of days, weeks and months.
THEOREM MonthsStayLinked == DeskSpec => []MonthsAreLinked
<1>1. ASSUME AgendaInv
      PROVE  MonthsAreLinked
  <2> DEFINE open == {m \in 0 .. max_month : MonthOpens(m)}
             wanted == {MonthOf(agenda[k].start_time) : k \in Meets} \cup {MonthOf(agenda[k].end_time - 1) : k \in Meets}
                       \cup {m \in {MonthOf(now)} : \E k \in Meets : MonthOf(agenda[k].start_time) <= m}
  <2>1. /\ min_month \in Nat /\ max_month \in Nat
        /\ \A k \in Meets : min_month <= MonthOf(agenda[k].start_time) /\ MonthOf(agenda[k].end_time) <= max_month
        /\ MonthOf(now) <= max_month
    BY <1>1, MonthsOpen
  <2>2. \A m : m \in open <=> m \in Nat /\ min_month <= m /\ m <= max_month
    BY <2>1 DEF MonthOpens
  <2>3. wanted \subseteq open
    <3>1. ASSUME NEW k \in Meets
          PROVE  /\ MonthOf(agenda[k].start_time) \in open /\ MonthOf(agenda[k].end_time - 1) \in open
                 /\ MonthOf(agenda[k].start_time) <= MonthOf(now) => MonthOf(now) \in open
      <4> DEFINE s == agenda[k].start_time
                 e == agenda[k].end_time
                 p == e - 1
      <4>1. s \in Nat /\ e \in Nat /\ s < e /\ now \in Nat
        BY <1>1 DEF AgendaInv
      <4>2. p \in Nat /\ s <= p /\ p <= e
        BY <4>1
      <4>3. min_month <= MonthOf(s) /\ MonthOf(e) <= max_month
        BY <2>1
      <4> HIDE DEF s, e, p
      <4>4. /\ MonthOf(s) \in Nat /\ MonthOf(e) \in Nat /\ MonthOf(p) \in Nat /\ MonthOf(now) \in Nat
            /\ MonthOf(s) <= MonthOf(p) /\ MonthOf(p) <= MonthOf(e)
        BY <4>1, <4>2, MonthsGrow
      <4>5. MonthOf(s) \in open /\ MonthOf(p) \in open /\ (MonthOf(s) <= MonthOf(now) => MonthOf(now) \in open)
        BY <2>1, <2>2, <4>3, <4>4
      <4> QED
        BY <4>5 DEF s, e, p
    <3> HIDE DEF open
    <3> QED
      BY <3>1
  <2> HIDE DEF open, wanted
  <2>4. \A m \in open : /\ prev_months(m) \cup next_months(m) \subseteq open
                        /\ (\E n \in wanted : n < m) => prev_months(m) # {}
                        /\ (\E n \in wanted : n > m) => next_months(m) # {}
    BY <2>1, <2>2, <2>3 DEF prev_months, next_months
  <2> QED
    BY <2>3, <2>4 DEF MonthsAreLinked, open, wanted
<1> QED
  BY <1>1, AgendaHoldsAlways, PTL

\* The days of the calendar's cells, for the instants of its contests.
LEMMA DaysOf ==
  ASSUME NEW first \in Nat, NEW last \in Int, NEW x \in Nat
  PROVE  /\ DayLength * first <= x <=> first <= DayOf(x)
         /\ x < DayLength * (last + 1) <=> DayOf(x) <= last
<1>1. DayLength \in Nat \ {0} /\ last + 1 \in Int
  BY DeskAssumption
<1>2. x \div DayLength \in Nat /\ DayLength * first \in Int /\ DayLength * (last + 1) \in Int
  BY <1>1, DivIs
<1>3. first <= x \div DayLength <=> DayLength * first <= x
  BY <1>1, DivBounds
<1>4. last + 1 <= x \div DayLength <=> DayLength * (last + 1) <= x
  BY <1>1, DivBounds
<1> QED
  BY <1>2, <1>3, <1>4 DEF DayOf

\* A contest is found if its first day is in the weeks of the month, or its last day is
\* and it has begun in them or does not end with them.
LEMMA FoundIs ==
  ASSUME AgendaInv, NEW k \in Meets, NEW first \in Nat, NEW last \in Int
  PROVE  LET s == agenda[k].start_time
             e == agenda[k].end_time
             end == DayLength * (last + 1)
             found == \/ DayLength * first <= s /\ s < end
                      \/ DayLength * first <= e /\ e < end
         IN  /\ first <= DayOf(s) /\ DayOf(s) <= last => found
             /\ first <= DayOf(e - 1) /\ DayOf(e - 1) <= last
                  => (found <=> ~(DayOf(s) < first /\ e = end))
             /\ DayOf(s) \in Nat /\ DayOf(e - 1) \in Nat
<1> DEFINE s == agenda[k].start_time
           e == agenda[k].end_time
           p == e - 1
           start == DayLength * first
           end == DayLength * (last + 1)
<1>1. s \in Nat /\ e \in Nat /\ s < e
  BY DEF AgendaInv
<1>2. p \in Nat /\ s <= p /\ e = p + 1
  BY <1>1
<1>3. start \in Int /\ end \in Int
  BY DeskAssumption
<1>4. /\ start <= s <=> first <= DayOf(s)
      /\ s < end <=> DayOf(s) <= last
      /\ start <= p <=> first <= DayOf(p)
      /\ p < end <=> DayOf(p) <= last
  BY <1>1, <1>2, DaysOf
<1>5. DayOf(s) \in Nat /\ DayOf(p) \in Nat
  BY <1>1, <1>2, MonthsGrow
<1> HIDE DEF s, e, p, start, end
<1>6. start <= p /\ p < end =>
        ((start <= s /\ s < end) \/ (start <= e /\ e < end) <=> ~(s < start /\ e = end))
  BY <1>1, <1>2, <1>3
<1>7. s < start <=> DayOf(s) < first
  BY <1>1, <1>3, <1>4, <1>5
<1>8. /\ first <= DayOf(s) /\ DayOf(s) <= last => (start <= s /\ s < end) \/ (start <= e /\ e < end)
      /\ first <= DayOf(p) /\ DayOf(p) <= last =>
           ((start <= s /\ s < end) \/ (start <= e /\ e < end) <=> ~(DayOf(s) < first /\ e = end))
  BY <1>4, <1>6, <1>7
<1> QED
  BY <1>5, <1>8 DEF s, e, p, start, end

\* The calendar shows the first and the last day of every contest in the weeks of a
\* month, for any contests and lengths of days, weeks and months.
THEOREM CalendarStaysWhole == DeskSpec => []CalendarIsWhole
<1>1. ASSUME AgendaInv
      PROVE  CalendarIsWhole
  <2> SUFFICES ASSUME NEW month \in {m \in 0 .. max_month : MonthOpens(m)}, NEW k \in Shown,
                      NEW day \in FirstDay(month) .. LastDay(month)
               PROVE  LET cells == Cells(month)
                          first == agenda[k].start_time \div DayLength
                          last == (agenda[k].end_time - 1) \div DayLength
                          missed == first < FirstDay(month) /\ agenda[k].end_time = DayLength * (LastDay(month) + 1)
                      IN  /\ <<day, k>> \in cells.oneday <=> day = first /\ day = last
                          /\ <<day, k>> \in cells.starts <=> day = first /\ first # last
                          /\ <<day, k>> \in cells.ends <=> day = last /\ first # last /\ ~missed
    BY DEF CalendarIsWhole
  <2>1. month \in Nat
    BY <1>1, MonthsOpen
  <2>2. PICK from : from = FirstDay(month)
    OBVIOUS
  <2>3. PICK to : to = LastDay(month)
    OBVIOUS
  <2>4. from \in Nat /\ to \in Int
    <3>1. (month * MonthLength) \in Nat /\ ((month + 1) * MonthLength - 1) \in Nat
      BY <2>1, DeskAssumption
    <3>2. \A x \in Nat : x \div WeekLength \in Nat
      BY DeskAssumption, DivIs
    <3>3. \A x \in Nat : WeekLength * x \in Nat
      BY DeskAssumption
    <3> QED
      BY <2>2, <2>3, <3>1, <3>2, <3>3, DeskAssumption DEF FirstDay, LastDay
  <2>5. k \in Meets
    BY DEF Shown
  <2> DEFINE s(x) == DayOf(agenda[x].start_time)
             e(x) == DayOf(agenda[x].end_time - 1)
             end == DayLength * (to + 1)
             found(x) == \/ DayLength * from <= agenda[x].start_time /\ agenda[x].start_time < end
                         \/ DayLength * from <= agenda[x].end_time /\ agenda[x].end_time < end
  <2>6. /\ from <= s(k) /\ s(k) <= to => found(k)
        /\ from <= e(k) /\ e(k) <= to => (found(k) <=> ~(s(k) < from /\ agenda[k].end_time = end))
    BY <1>1, <2>4, <2>5, FoundIs
  <2>7. day \in Int /\ from <= day /\ day <= to
    BY <2>2, <2>3, <2>4
  <2>8. /\ Cells(month).oneday = {m \in {<<s(x), x>> : x \in {y \in Shown : found(y) /\ s(y) = e(y)}} : from <= m[1] /\ m[1] <= to}
        /\ Cells(month).starts = {m \in {<<s(x), x>> : x \in {y \in Shown : found(y) /\ s(y) # e(y)}} : from <= m[1] /\ m[1] <= to}
        /\ Cells(month).ends = {m \in {<<e(x), x>> : x \in {y \in Shown : found(y) /\ s(y) # e(y)}} : from <= m[1] /\ m[1] <= to}
    BY <2>2, <2>3 DEF Cells, get_contest_data
  <2> HIDE DEF s, e, end, found
  <2>9. /\ <<day, k>> \in Cells(month).oneday <=> found(k) /\ s(k) = e(k) /\ day = s(k)
        /\ <<day, k>> \in Cells(month).starts <=> found(k) /\ s(k) # e(k) /\ day = s(k)
        /\ <<day, k>> \in Cells(month).ends <=> found(k) /\ s(k) # e(k) /\ day = e(k)
    BY <2>7, <2>8
  <2>10. /\ <<day, k>> \in Cells(month).oneday <=> day = s(k) /\ day = e(k)
         /\ <<day, k>> \in Cells(month).starts <=> day = s(k) /\ s(k) # e(k)
         /\ <<day, k>> \in Cells(month).ends
              <=> day = e(k) /\ s(k) # e(k) /\ ~(s(k) < from /\ agenda[k].end_time = end)
    BY <2>6, <2>7, <2>9
  <2> QED
    BY <2>2, <2>3, <2>10 DEF s, e, end, DayOf
<1> QED
  BY <1>1, AgendaHoldsAlways, PTL

-----------------------------------------------------------------------------
(* The archive of a user's data *)

TaskStages == {"queued", "submissions", "comments", "closing", "ended", "lost"}
ExportTask == [at : TaskStages, status : {"PENDING", "PROGRESS", "SUCCESS", "FAILURE"}, form : Forms,
           chosen : SUBSET (Handed \cup Remarks), todo : SUBSET (Handed \cup Remarks),
           now : Nat, early : BOOLEAN]
File == [of : Nat, pieces : SUBSET (Handed \cup Remarks), infos : SUBSET Parts,
         closed : BOOLEAN, mixed : BOOLEAN]
AskingRecord == [at : {"free", "limit", "granted", "saved", "sent", "other"},
            now : Nat, early : BOOLEAN, copy : Nat]
ExportTypeOK ==
  /\ exports \in Seq(ExportTask) /\ archive \in File
  /\ archive.of <= Len(exports)
  /\ downloaded \in Nat /\ named \in 0 .. Len(exports) /\ stored \subseteq Handed
  /\ asking \in [Clients -> AskingRecord]
  /\ \A c \in Clients : asking[c].at = "sent" => asking[c].copy \in DOMAIN exports
  /\ orders \in Nat /\ clock \in Nat \ {0} /\ excuses \subseteq {"raced", "dropped", "undone"}

\* One request orders at a time.
OneOrders == NoExcuse({"raced"}) => \A c, d \in Clients : Ordering(c) /\ Ordering(d) => c = d

\* Who is at work is named by the cache, or about to be.
WorkIsNamed ==
  NoExcuse({"raced", "dropped"}) =>
    /\ \A t \in Tasks : AtWork(t) => t = named \/ \E c \in Clients : asking[c].at = "sent" /\ asking[c].copy = t
    /\ \A c \in Clients :
         /\ asking[c].at \in {"granted", "saved"} => \A t \in Tasks : ~AtWork(t)
         /\ asking[c].at = "sent" => \A t \in Tasks : AtWork(t) => t = asking[c].copy

\* The status is final when the task has ended, and only then.
StatusIsFinal == \A t \in Tasks : exports[t].status \in {"SUCCESS", "FAILURE"} <=> exports[t].at = "ended"

\* The dates of the requests, and of the tasks they order.
DatesArePast ==
  /\ downloaded <= clock
  /\ \A c \in Clients : asking[c].now <= clock /\ (asking[c].at = "other" => asking[c].copy <= clock)
Apart(moment, early) == \A t \in Tasks : moment > exports[t].now + RateLimit \/ early
DatesGrow ==
  NoExcuse({"raced", "undone"}) =>
    /\ \A t \in Tasks : exports[t].now # 0 /\ exports[t].now <= downloaded
    /\ \A c \in Clients :
         /\ asking[c].at \in {"limit", "granted"} =>
              IF asking[c].now = 0 THEN Tasks = {}
              ELSE downloaded <= asking[c].now /\ Apart(asking[c].now, asking[c].early)
         /\ asking[c].at = "saved" =>
              asking[c].now # 0 /\ asking[c].now = downloaded /\ Apart(asking[c].now, asking[c].early)

\* The file of a task that has begun, and what is in it on the way.
FileIsBegun ==
  /\ \A t \in Tasks : exports[t].at # "queued" => Exists
  /\ Exists => exports[archive.of].at # "queued"
InFile(file, task) == file.pieces = task.chosen \ task.todo /\ task.todo \subseteq task.chosen
Matches(file, task) ==
  /\ task.at = "submissions" =>
       /\ InFile(file, task) /\ file.infos = {} /\ task.chosen \cap Handed # {}
       /\ task.chosen \cap Remarks \subseteq task.todo
  /\ task.at = "comments" =>
       /\ InFile(file, task) /\ file.infos = PartsOf(task.chosen) \ {"comments"}
       /\ task.chosen \cap Remarks # {} /\ task.todo \cap Handed = {}
  /\ task.at = "closing" => file.pieces = task.chosen /\ file.infos = PartsOf(task.chosen)
  /\ task.at = "ended" =>
       /\ file.closed
       /\ task.status = "SUCCESS" => file.pieces = task.chosen /\ file.infos = PartsOf(task.chosen)
FileIsWritten ==
  NoExcuse({"raced", "dropped"}) =>
    /\ ~archive.mixed
    /\ \A t \in Tasks : exports[t].at \in Parts \cup {"closing"} => archive.of = t
    /\ Exists => Matches(archive, exports[archive.of])

ExportInv ==
  /\ ExportTypeOK /\ OneOrders /\ WorkIsNamed /\ StatusIsFinal /\ DatesArePast /\ DatesGrow
  /\ LimitIsKept /\ FileIsBegun /\ FileIsWritten

\* A step of a task: nobody sets to work, and what the requests see stays.
TaskStep ==
  /\ DOMAIN exports' = DOMAIN exports /\ Len(exports') = Len(exports)
  /\ \A t \in Tasks : /\ exports'[t].now = exports[t].now /\ exports'[t].early = exports[t].early
                      /\ AtWork(t)' => AtWork(t)
  /\ UNCHANGED <<downloaded, named, stored, asking, orders, clock, excuses>>

LEMMA PutInSeq ==
  ASSUME NEW S, NEW q \in Seq(S), NEW i \in DOMAIN q, NEW x \in S
  PROVE  [q EXCEPT ![i] = x] \in Seq(S) /\ Len([q EXCEPT ![i] = x]) = Len(q)
OBVIOUS

LEMMA PutInRequests ==
  ASSUME NEW f \in [Clients -> AskingRecord], NEW c \in Clients, NEW r \in AskingRecord
  PROVE  [f EXCEPT ![c] = r] \in [Clients -> AskingRecord]
OBVIOUS

LEMMA ExportTypeStep ==
  ASSUME ExportTypeOK, ExportNext
  PROVE  ExportTypeOK'
<1> USE ExportAssumption DEF ExportTypeOK
<1>1. ASSUME NEW c \in Clients, CheckLimit(c)
      PROVE  ExportTypeOK'
  <2> DEFINE moment == IF downloaded = 0 THEN 0 ELSE clock
             early == downloaded # 0 /\ ~Lapsed
  <2>1. moment \in Nat /\ early \in BOOLEAN
    OBVIOUS
  <2>2. asking' = [asking EXCEPT ![c].at = "limit", ![c].now = moment, ![c].early = early]
    BY <1>1 DEF CheckLimit
  <2>3. asking' \in [Clients -> AskingRecord]
    <3> HIDE DEF moment, early
    <3>1. asking[c] \in AskingRecord
      OBVIOUS
    <3>2. [asking[c] EXCEPT !.at = "limit", !.now = moment, !.early = early] \in AskingRecord
      BY <2>1, <3>1 DEF AskingRecord
    <3> QED
      BY <2>2, <3>2, PutInRequests
  <2>4. \A d \in Clients : asking'[d].at = "sent" => asking[d].at = "sent" /\ asking'[d].copy = asking[d].copy
    <3> HIDE DEF moment, early
    <3> QED
      BY <2>2 DEF AskingRecord
  <2> QED
    BY <1>1, <2>3, <2>4 DEF CheckLimit
<1>2. ASSUME NEW c \in Clients, CheckProgress(c)
      PROVE  ExportTypeOK'
  <2>1. asking' \in [Clients -> AskingRecord]
    BY <1>2 DEF CheckProgress, AskingRecord, NoRequest
  <2> QED
    BY <1>2, <2>1 DEF CheckProgress, NoRequest
<1>3. ASSUME NEW c \in Clients, SaveDate(c)
      PROVE  ExportTypeOK'
  <2>1. asking[c] \in AskingRecord
    OBVIOUS
  <2>2. [asking[c] EXCEPT !.at = "saved", !.now = IF @ = 0 THEN clock ELSE @] \in AskingRecord
    BY <1>3, <2>1 DEF AskingRecord
  <2>3. asking' \in [Clients -> AskingRecord]
    BY <1>3, <2>2, PutInRequests DEF SaveDate
  <2>4. \A d \in Clients : asking'[d].at = "sent" => asking[d].at = "sent" /\ asking'[d].copy = asking[d].copy
    BY <1>3, <2>2 DEF SaveDate
  <2>5. downloaded' \in Nat
    BY <1>3, <2>1 DEF SaveDate, AskingRecord
  <2> QED
    BY <1>3, <2>3, <2>4, <2>5 DEF SaveDate
<1>4. ASSUME NEW c \in Clients, FormInvalid(c)
      PROVE  ExportTypeOK'
  <2>1. asking' \in [Clients -> AskingRecord]
    BY <1>4 DEF FormInvalid, AskingRecord, NoRequest
  <2> QED
    BY <1>4, <2>1 DEF FormInvalid, NoRequest
<1>5. ASSUME NEW c \in Clients, NEW form \in Forms, Delay(c, form)
      PROVE  ExportTypeOK'
  <2> DEFINE task == [at |-> "queued", status |-> "PENDING", form |-> form, chosen |-> {},
                      todo |-> {}, now |-> asking[c].now, early |-> asking[c].early]
  <2>1. task \in ExportTask
    BY DEF ExportTask, TaskStages, AskingRecord
  <2>2. exports' = Append(exports, task)
    BY <1>5 DEF Delay
  <2>3. exports' \in Seq(ExportTask) /\ Len(exports') = Len(exports) + 1
    <3> HIDE DEF task
    <3> QED
      BY <2>1, <2>2
  <2>4. asking' = [asking EXCEPT ![c] = [asking[c] EXCEPT !.at = "sent", !.copy = Len(exports) + 1]]
    BY <1>5 DEF Delay
  <2>5. asking[c] \in AskingRecord
    OBVIOUS
  <2>6. [asking[c] EXCEPT !.at = "sent", !.copy = Len(exports) + 1] \in AskingRecord
    <3>1. Len(exports) + 1 \in Nat
      OBVIOUS
    <3> QED
      BY <2>5, <3>1 DEF AskingRecord
  <2>7. asking' \in [Clients -> AskingRecord]
    BY <2>4, <2>6, PutInRequests
  <2>8. asking'[c].copy = Len(exports) + 1 /\ \A d \in Clients \ {c} : asking'[d] = asking[d]
    BY <2>4, <2>5 DEF AskingRecord
  <2>9. DOMAIN exports' = 1 .. Len(exports) + 1 /\ DOMAIN exports = 1 .. Len(exports) /\ Len(exports) \in Nat
    BY <2>3
  <2>10. \A d \in Clients : asking'[d].at = "sent" => asking'[d].copy \in DOMAIN exports'
    BY <2>8, <2>9
  <2>11. archive.of <= Len(exports) + 1 /\ named \in 0 .. Len(exports) + 1
    BY <2>9 DEF File
  <2> QED
    BY <1>5, <2>3, <2>7, <2>10, <2>11 DEF Delay
<1>6. ASSUME NEW c \in Clients, SetCache(c)
      PROVE  ExportTypeOK'
  <2>1. asking' \in [Clients -> AskingRecord]
    BY <1>6 DEF SetCache, AskingRecord, NoRequest
  <2> QED
    BY <1>6, <2>1 DEF SetCache, NoRequest
<1>7. ASSUME NEW c \in Clients, Break(c)
      PROVE  ExportTypeOK'
  <2>1. asking' \in [Clients -> AskingRecord]
    BY <1>7 DEF Break, AskingRecord, NoRequest
  <2> QED
    BY <1>7, <2>1 DEF Break, NoRequest
<1>8. ASSUME NEW c \in Clients, LoadWhole(c)
      PROVE  ExportTypeOK'
  <2>1. asking' \in [Clients -> AskingRecord]
    BY <1>8 DEF LoadWhole, AskingRecord
  <2> QED
    BY <1>8, <2>1 DEF LoadWhole
<1>9. ASSUME NEW c \in Clients, SaveWhole(c)
      PROVE  ExportTypeOK'
  <2>1. asking[c] \in AskingRecord
    OBVIOUS
  <2>2. NoRequest \in AskingRecord
    BY <1>9, <2>1 DEF AskingRecord, NoRequest
  <2>3. asking' \in [Clients -> AskingRecord]
    BY <1>9, <2>2, PutInRequests DEF SaveWhole
  <2>4. \A d \in Clients : asking'[d].at = "sent" => asking[d].at = "sent" /\ asking'[d].copy = asking[d].copy
    BY <1>9, <2>2 DEF SaveWhole, NoRequest
  <2>5. downloaded' \in Nat
    BY <1>9, <2>1 DEF SaveWhole, AskingRecord
  <2> QED
    BY <1>9, <2>3, <2>4, <2>5 DEF SaveWhole
<1>10. ASSUME NEW t \in DOMAIN exports, Begin(t)
       PROVE  ExportTypeOK'
  <2> DEFINE chosen == apply_submission_filter(exports[t].form) \cup apply_comment_filter(exports[t].form)
  <2>1. chosen \in SUBSET (Handed \cup Remarks)
    BY DEF apply_submission_filter, apply_comment_filter
  <2>2. StageOf(chosen) \in TaskStages
    BY DEF StageOf, TaskStages
  <2>3. exports' = [exports EXCEPT ![t].at = StageOf(chosen), ![t].chosen = chosen, ![t].todo = chosen]
    BY <1>10 DEF Begin
  <2>4. exports' \in Seq(ExportTask) /\ Len(exports') = Len(exports)
    <3>1. exports[t] \in ExportTask
      OBVIOUS
    <3> HIDE DEF chosen
    <3>2. [exports[t] EXCEPT !.at = StageOf(chosen), !.chosen = chosen, !.todo = chosen] \in ExportTask
      BY <2>1, <2>2, <3>1 DEF ExportTask
    <3>3. exports' = [exports EXCEPT ![t] = [exports[t] EXCEPT !.at = StageOf(chosen), !.chosen = chosen, !.todo = chosen]]
      BY <2>3, <3>1
    <3> QED
      BY <3>2, <3>3, PutInSeq
  <2>5. archive' = [NoArchive EXCEPT !.of = t] /\ t \in Nat /\ t <= Len(exports)
    BY <1>10 DEF Begin
  <2>6. archive' \in File /\ archive'.of = t
    BY <2>5 DEF NoArchive, File
  <2> QED
    BY <1>10, <2>4, <2>5, <2>6 DEF Begin
<1>11. ASSUME NEW t \in DOMAIN exports, NEW piece \in Handed \cup Remarks, Write(t, piece)
       PROVE  ExportTypeOK'
  <2>1. exports[t] \in ExportTask
    OBVIOUS
  <2>2. [exports[t] EXCEPT !.todo = @ \ {piece}, !.status = Reported] \in ExportTask
    BY <1>11, <2>1 DEF Write, ExportTask, Reported
  <2>3. exports' \in Seq(ExportTask) /\ Len(exports') = Len(exports)
    <3>1. exports' = [exports EXCEPT ![t] = [exports[t] EXCEPT !.todo = @ \ {piece}, !.status = Reported]]
      BY <1>11, <2>1 DEF Write
    <3> QED
      BY <2>2, <3>1, PutInSeq
  <2>4. archive' \in File /\ archive'.of = archive.of
    BY <1>11 DEF Write, Written, File
  <2> QED
    BY <1>11, <2>3, <2>4 DEF Write
<1>12. ASSUME NEW t \in DOMAIN exports, WriteInfo(t)
       PROVE  ExportTypeOK'
  <2>1. exports[t] \in ExportTask
    OBVIOUS
  <2>2. [exports[t] EXCEPT !.at = StageOf(exports[t].todo)] \in ExportTask
    BY <1>12, <2>1 DEF WriteInfo, ExportTask, StageOf, TaskStages
  <2>3. exports' \in Seq(ExportTask) /\ Len(exports') = Len(exports)
    BY <1>12, <2>2, PutInSeq DEF WriteInfo
  <2>4. archive' \in File /\ archive'.of = archive.of
    BY <1>12 DEF WriteInfo, Written, File
  <2> QED
    BY <1>12, <2>3, <2>4 DEF WriteInfo
<1>13. ASSUME NEW t \in DOMAIN exports, Close(t)
       PROVE  ExportTypeOK'
  <2>1. exports[t] \in ExportTask
    OBVIOUS
  <2>2. [exports[t] EXCEPT !.at = "ended", !.status = "SUCCESS"] \in ExportTask
    BY <1>13, <2>1 DEF Close, ExportTask, TaskStages
  <2>3. exports' \in Seq(ExportTask) /\ Len(exports') = Len(exports)
    <3>1. exports' = [exports EXCEPT ![t] = [exports[t] EXCEPT !.at = "ended", !.status = "SUCCESS"]]
      BY <1>13, <2>1 DEF Close
    <3> QED
      BY <2>2, <3>1, PutInSeq
  <2>4. archive' \in File /\ archive'.of = archive.of
    BY <1>13 DEF Close, Written, File
  <2> QED
    BY <1>13, <2>3, <2>4 DEF Close
<1>14. ASSUME NEW t \in DOMAIN exports, NEW piece \in Handed \cup Remarks, FailAt(t, piece)
       PROVE  ExportTypeOK'
  <2>1. exports[t] \in ExportTask
    OBVIOUS
  <2>2. [exports[t] EXCEPT !.at = "ended", !.status = "FAILURE"] \in ExportTask
    BY <1>14, <2>1 DEF FailAt, ExportTask, TaskStages
  <2>3. exports' \in Seq(ExportTask) /\ Len(exports') = Len(exports)
    <3>1. exports' = [exports EXCEPT ![t] = [exports[t] EXCEPT !.at = "ended", !.status = "FAILURE"]]
      BY <1>14, <2>1 DEF FailAt
    <3> QED
      BY <2>2, <3>1, PutInSeq
  <2>4. archive' \in File /\ archive'.of = archive.of
    BY <1>14 DEF FailAt, Written, File
  <2> QED
    BY <1>14, <2>3, <2>4 DEF FailAt
<1>15. ASSUME NEW t \in DOMAIN exports, Die(t)
       PROVE  ExportTypeOK'
  <2>1. exports[t] \in ExportTask
    OBVIOUS
  <2>2. [exports[t] EXCEPT !.at = "lost"] \in ExportTask
    BY <1>15, <2>1 DEF Die, ExportTask, TaskStages
  <2>3. exports' \in Seq(ExportTask) /\ Len(exports') = Len(exports)
    BY <1>15, <2>2, PutInSeq DEF Die
  <2>4. archive' \in File /\ archive'.of = archive.of
    BY <1>15 DEF Die, Written, File
  <2> QED
    BY <1>15, <2>3, <2>4 DEF Die
<1>16. CASE Forget
  BY <1>16 DEF Forget
<1>17. ASSUME NEW s \in Handed, Delete(s)
       PROVE  ExportTypeOK'
  BY <1>17 DEF Delete
<1>18. CASE Tick
  BY <1>18 DEF Tick
<1> QED
  BY <1>1, <1>2, <1>3, <1>4, <1>5, <1>6, <1>7, <1>8, <1>9, <1>10, <1>11, <1>12, <1>13, <1>14,
     <1>15, <1>16, <1>17, <1>18 DEF ExportNext, AskNext, TaskNext

LEMMA TaskNextStep ==
  ASSUME ExportTypeOK, TaskNext
  PROVE  TaskStep
<1> USE DEF AtWork, Tasks, TaskStep
<1>0. exports \in Seq(ExportTask) /\ \A t \in DOMAIN exports : exports[t] \in ExportTask
  BY DEF ExportTypeOK
<1>1. ASSUME NEW t \in DOMAIN exports, Begin(t)
      PROVE  TaskStep
  BY <1>0, <1>1 DEF Begin, ExportTask
<1>2. ASSUME NEW t \in DOMAIN exports, NEW piece \in Handed \cup Remarks, Write(t, piece)
      PROVE  TaskStep
  BY <1>0, <1>2 DEF Write, ExportTask, Reported
<1>3. ASSUME NEW t \in DOMAIN exports, WriteInfo(t)
      PROVE  TaskStep
  BY <1>0, <1>3 DEF WriteInfo, ExportTask
<1>4. ASSUME NEW t \in DOMAIN exports, Close(t)
      PROVE  TaskStep
  BY <1>0, <1>4 DEF Close, ExportTask
<1>5. ASSUME NEW t \in DOMAIN exports, NEW piece \in Handed \cup Remarks, FailAt(t, piece)
      PROVE  TaskStep
  <2>1. exports' = [exports EXCEPT ![t] = [exports[t] EXCEPT !.at = "ended", !.status = "FAILURE"]]
    BY <1>0, <1>5 DEF FailAt, ExportTask
  <2>2. UNCHANGED <<downloaded, named, stored, asking, orders, clock, excuses>> /\ exports[t].at = "submissions"
    BY <1>5 DEF FailAt
  <2>3. DOMAIN exports' = DOMAIN exports /\ Len(exports') = Len(exports)
    BY <1>0, <2>1
  <2>4. \A u \in DOMAIN exports : u # t => exports'[u] = exports[u]
    BY <1>0, <2>1
  <2>5. exports'[t].at = "ended" /\ exports'[t].now = exports[t].now /\ exports'[t].early = exports[t].early
    BY <1>0, <2>1 DEF ExportTask
  <2>6. ASSUME NEW u \in DOMAIN exports
        PROVE  /\ exports'[u].now = exports[u].now /\ exports'[u].early = exports[u].early
               /\ AtWork(u)' => AtWork(u)
    <3>1. CASE u = t
      BY <2>5, <3>1 DEF Parts
    <3>2. CASE u # t
      BY <2>4, <3>2
    <3> QED
      BY <3>1, <3>2
  <2> QED
    BY <2>2, <2>3, <2>6
<1>6. ASSUME NEW t \in DOMAIN exports, Die(t)
      PROVE  TaskStep
  BY <1>0, <1>6 DEF Die, ExportTask
<1> QED
  BY <1>1, <1>2, <1>3, <1>4, <1>5, <1>6 DEF TaskNext

LEMMA OneOrdersStep ==
  ASSUME ExportTypeOK, OneOrders, [ExportNext]_xvars
  PROVE  OneOrders'
<1>0. asking \in [Clients -> AskingRecord] /\ \A c \in Clients : asking[c] \in AskingRecord
  BY DEF ExportTypeOK
<1> USE DEF OneOrders, NoExcuse, Ordering
<1>1. ASSUME NEW c \in Clients, CheckLimit(c)
      PROVE  OneOrders'
  BY <1>0, <1>1 DEF CheckLimit, NoRequest, AskingRecord
<1>2. ASSUME NEW c \in Clients, CheckProgress(c)
      PROVE  OneOrders'
  BY <1>0, <1>2 DEF CheckProgress, NoRequest, AskingRecord
<1>3. ASSUME NEW c \in Clients, SaveDate(c)
      PROVE  OneOrders'
  BY <1>0, <1>3 DEF SaveDate, NoRequest, AskingRecord
<1>4. ASSUME NEW c \in Clients, FormInvalid(c)
      PROVE  OneOrders'
  BY <1>0, <1>4 DEF FormInvalid, NoRequest, AskingRecord
<1>5. ASSUME NEW c \in Clients, NEW form \in Forms, Delay(c, form)
      PROVE  OneOrders'
  BY <1>0, <1>5 DEF Delay, NoRequest, AskingRecord
<1>6. ASSUME NEW c \in Clients, SetCache(c)
      PROVE  OneOrders'
  BY <1>0, <1>6 DEF SetCache, NoRequest, AskingRecord
<1>7. ASSUME NEW c \in Clients, Break(c)
      PROVE  OneOrders'
  BY <1>0, <1>7 DEF Break, NoRequest, AskingRecord
<1>8. ASSUME NEW c \in Clients, LoadWhole(c)
      PROVE  OneOrders'
  BY <1>0, <1>8 DEF LoadWhole, NoRequest, AskingRecord
<1>9. ASSUME NEW c \in Clients, SaveWhole(c)
      PROVE  OneOrders'
  BY <1>0, <1>9 DEF SaveWhole, NoRequest, AskingRecord
<1>10. CASE TaskNext
  BY <1>10, TaskNextStep DEF TaskStep
<1>11. CASE Forget
  BY <1>11 DEF Forget
<1>12. CASE Tick \/ (\E s \in Handed : Delete(s)) \/ UNCHANGED xvars
  BY <1>12 DEF Tick, Delete, xvars
<1> QED
  BY <1>1, <1>2, <1>3, <1>4, <1>5, <1>6, <1>7, <1>8, <1>9, <1>10, <1>11, <1>12 DEF ExportNext, AskNext

LEMMA StatusStep ==
  ASSUME ExportTypeOK, StatusIsFinal, [ExportNext]_xvars
  PROVE  StatusIsFinal'
<1>0. exports \in Seq(ExportTask) /\ \A t \in DOMAIN exports : exports[t] \in ExportTask
  BY DEF ExportTypeOK
<1> USE DEF StatusIsFinal, Tasks
<1>1. ASSUME NEW c \in Clients, CheckLimit(c)
      PROVE  StatusIsFinal'
  BY <1>1 DEF CheckLimit, NoRequest
<1>2. ASSUME NEW c \in Clients, CheckProgress(c)
      PROVE  StatusIsFinal'
  BY <1>2 DEF CheckProgress, NoRequest
<1>3. ASSUME NEW c \in Clients, SaveDate(c)
      PROVE  StatusIsFinal'
  BY <1>3 DEF SaveDate, NoRequest
<1>4. ASSUME NEW c \in Clients, FormInvalid(c)
      PROVE  StatusIsFinal'
  BY <1>4 DEF FormInvalid, NoRequest
<1>5. ASSUME NEW c \in Clients, NEW form \in Forms, Delay(c, form)
      PROVE  StatusIsFinal'
  <2>1. exports' = Append(exports, [at |-> "queued", status |-> "PENDING", form |-> form, chosen |-> {},
                                    todo |-> {}, now |-> asking[c].now, early |-> asking[c].early])
    BY <1>5 DEF Delay
  <2> QED
    BY <1>0, <2>1
<1>6. ASSUME NEW c \in Clients, SetCache(c)
      PROVE  StatusIsFinal'
  BY <1>6 DEF SetCache, NoRequest
<1>7. ASSUME NEW c \in Clients, Break(c)
      PROVE  StatusIsFinal'
  BY <1>7 DEF Break, NoRequest
<1>8. ASSUME NEW c \in Clients, LoadWhole(c)
      PROVE  StatusIsFinal'
  BY <1>8 DEF LoadWhole, NoRequest
<1>9. ASSUME NEW c \in Clients, SaveWhole(c)
      PROVE  StatusIsFinal'
  BY <1>9 DEF SaveWhole, NoRequest
<1>10. CASE TaskNext
  <2>1. ASSUME NEW t \in DOMAIN exports, Begin(t)
        PROVE  StatusIsFinal'
    <3> DEFINE chosen == apply_submission_filter(exports[t].form) \cup apply_comment_filter(exports[t].form)
    <3>1. StageOf(chosen) \in {"submissions", "comments", "closing"} /\ exports[t].at = "queued"
      BY <2>1 DEF StageOf, Begin
    <3>2. exports' = [exports EXCEPT ![t].at = StageOf(chosen), ![t].chosen = chosen, ![t].todo = chosen]
      BY <2>1 DEF Begin
    <3> HIDE DEF chosen
    <3>3. exports' = [exports EXCEPT ![t] = [exports[t] EXCEPT !.at = StageOf(chosen), !.chosen = chosen, !.todo = chosen]]
      BY <1>0, <3>2 DEF ExportTask
    <3> QED
      BY <1>0, <3>1, <3>3 DEF ExportTask
  <2>2. ASSUME NEW t \in DOMAIN exports, NEW piece \in Handed \cup Remarks, Write(t, piece)
        PROVE  StatusIsFinal'
    BY <1>0, <2>2 DEF Write, Reported, ExportTask, Parts
  <2>3. ASSUME NEW t \in DOMAIN exports, WriteInfo(t)
        PROVE  StatusIsFinal'
    BY <1>0, <2>3 DEF WriteInfo, ExportTask, Parts, StageOf
  <2>4. ASSUME NEW t \in DOMAIN exports, Close(t)
        PROVE  StatusIsFinal'
    <3>1. exports' = [exports EXCEPT ![t] = [exports[t] EXCEPT !.at = "ended", !.status = "SUCCESS"]]
      BY <1>0, <2>4 DEF Close, ExportTask
    <3> QED
      BY <1>0, <3>1 DEF ExportTask
  <2>5. ASSUME NEW t \in DOMAIN exports, NEW piece \in Handed \cup Remarks, FailAt(t, piece)
        PROVE  StatusIsFinal'
    <3>1. exports' = [exports EXCEPT ![t] = [exports[t] EXCEPT !.at = "ended", !.status = "FAILURE"]]
      BY <1>0, <2>5 DEF FailAt, ExportTask
    <3> QED
      BY <1>0, <3>1 DEF ExportTask
  <2>6. ASSUME NEW t \in DOMAIN exports, Die(t)
        PROVE  StatusIsFinal'
    BY <1>0, <2>6 DEF Die, ExportTask, Parts
  <2> QED
    BY <1>10, <2>1, <2>2, <2>3, <2>4, <2>5, <2>6 DEF TaskNext
<1>11. CASE Forget
  BY <1>11 DEF Forget
<1>12. CASE Tick \/ (\E s \in Handed : Delete(s)) \/ UNCHANGED xvars
  BY <1>12 DEF Tick, Delete, xvars
<1> QED
  BY <1>1, <1>2, <1>3, <1>4, <1>5, <1>6, <1>7, <1>8, <1>9, <1>10, <1>11, <1>12 DEF ExportNext, AskNext

LEMMA DatesArePastStep ==
  ASSUME ExportTypeOK, DatesArePast, [ExportNext]_xvars
  PROVE  DatesArePast'
<1>0. /\ asking \in [Clients -> AskingRecord] /\ \A c \in Clients : asking[c] \in AskingRecord
     /\ clock \in Nat \ {0} /\ downloaded \in Nat
  BY DEF ExportTypeOK
<1> USE DEF DatesArePast
<1>1. ASSUME NEW c \in Clients, CheckLimit(c)
      PROVE  DatesArePast'
  BY <1>0, <1>1 DEF CheckLimit, NoRequest, AskingRecord
<1>2. ASSUME NEW c \in Clients, CheckProgress(c)
      PROVE  DatesArePast'
  BY <1>0, <1>2 DEF CheckProgress, NoRequest, AskingRecord
<1>3. ASSUME NEW c \in Clients, SaveDate(c)
      PROVE  DatesArePast'
  BY <1>0, <1>3 DEF SaveDate, NoRequest, AskingRecord
<1>4. ASSUME NEW c \in Clients, FormInvalid(c)
      PROVE  DatesArePast'
  BY <1>0, <1>4 DEF FormInvalid, NoRequest, AskingRecord
<1>5. ASSUME NEW c \in Clients, NEW form \in Forms, Delay(c, form)
      PROVE  DatesArePast'
  BY <1>0, <1>5 DEF Delay, NoRequest, AskingRecord
<1>6. ASSUME NEW c \in Clients, SetCache(c)
      PROVE  DatesArePast'
  BY <1>0, <1>6 DEF SetCache, NoRequest, AskingRecord
<1>7. ASSUME NEW c \in Clients, Break(c)
      PROVE  DatesArePast'
  BY <1>0, <1>7 DEF Break, NoRequest, AskingRecord
<1>8. ASSUME NEW c \in Clients, LoadWhole(c)
      PROVE  DatesArePast'
  BY <1>0, <1>8 DEF LoadWhole, NoRequest, AskingRecord
<1>9. ASSUME NEW c \in Clients, SaveWhole(c)
      PROVE  DatesArePast'
  BY <1>0, <1>9 DEF SaveWhole, NoRequest, AskingRecord
<1>10. CASE TaskNext
  BY <1>10, TaskNextStep DEF TaskStep
<1>11. CASE Forget
  BY <1>11 DEF Forget
<1>12. CASE Tick \/ (\E s \in Handed : Delete(s)) \/ UNCHANGED xvars
  BY <1>0, <1>12 DEF Tick, Delete, xvars, AskingRecord
<1> QED
  BY <1>1, <1>2, <1>3, <1>4, <1>5, <1>6, <1>7, <1>8, <1>9, <1>10, <1>11, <1>12 DEF ExportNext, AskNext

LEMMA WorkIsNamedStep ==
  ASSUME ExportTypeOK, OneOrders, StatusIsFinal, WorkIsNamed, [ExportNext]_xvars
  PROVE  WorkIsNamed'
<1>0. /\ asking \in [Clients -> AskingRecord] /\ \A c \in Clients : asking[c] \in AskingRecord
      /\ exports \in Seq(ExportTask) /\ \A t \in DOMAIN exports : exports[t] \in ExportTask
      /\ named \in 0 .. Len(exports) /\ DOMAIN exports = 1 .. Len(exports)
  BY DEF ExportTypeOK
<1> USE DEF WorkIsNamed, NoExcuse, Tasks
<1>1. ASSUME NEW c \in Clients, CheckLimit(c)
      PROVE  WorkIsNamed'
  <2>1. exports' = exports /\ named' = named /\ excuses \subseteq excuses'
    BY <1>1 DEF CheckLimit
  <2>2. asking'[c].at = "limit" /\ \A d \in Clients \ {c} : asking'[d] = asking[d]
    BY <1>0, <1>1 DEF CheckLimit, AskingRecord
  <2>3. asking[c].at = "free"
    BY <1>1 DEF CheckLimit
  <2> QED
    BY <2>1, <2>2, <2>3 DEF AtWork
<1>2. ASSUME NEW c \in Clients, CheckProgress(c)
      PROVE  WorkIsNamed'
  <2>1. CASE in_progress_url
    BY <1>0, <1>2, <2>1 DEF CheckProgress, NoRequest, AskingRecord, AtWork
  <2>2. CASE ~in_progress_url
    <3> SUFFICES ASSUME excuses' \cap {"raced", "dropped"} = {}
                 PROVE  WorkIsNamed'
      OBVIOUS
    <3>1. excuses' = excuses /\ exports' = exports /\ named' = named
          /\ asking' = [asking EXCEPT ![c].at = "granted"] /\ asking[c].at = "limit"
      BY <1>2, <2>2 DEF CheckProgress
    <3>2. \A d \in Clients : asking[d].at # "sent"
      BY <3>1 DEF OneOrders, Ordering
    <3>3. \A t \in DOMAIN exports : AtWork(t) => t = named
      BY <3>1, <3>2
    <3>4. ASSUME named # 0
          PROVE  ~AtWork(named)
      <4>1. named \in DOMAIN exports
        BY <1>0, <3>4
      <4>2. exports[named].at = "ended"
        BY <1>0, <2>2, <3>4, <4>1 DEF StatusIsFinal, in_progress_url, status, ExportTask
      <4> QED
        BY <4>2 DEF AtWork, Parts
    <3>5. \A t \in DOMAIN exports : ~AtWork(t)
      BY <1>0, <3>3, <3>4
    <3> QED
      BY <1>0, <3>1, <3>2, <3>5 DEF AtWork, AskingRecord
  <2> QED
    BY <2>1, <2>2
<1>3. ASSUME NEW c \in Clients, SaveDate(c)
      PROVE  WorkIsNamed'
  BY <1>0, <1>3 DEF SaveDate, AskingRecord, AtWork
<1>4. ASSUME NEW c \in Clients, FormInvalid(c)
      PROVE  WorkIsNamed'
  BY <1>0, <1>4 DEF FormInvalid, NoRequest, AskingRecord, AtWork
<1>5. ASSUME NEW c \in Clients, NEW form \in Forms, Delay(c, form)
      PROVE  WorkIsNamed'
  <2> SUFFICES ASSUME excuses' \cap {"raced", "dropped"} = {}
               PROVE  WorkIsNamed'
    OBVIOUS
  <2> DEFINE n == Len(exports) + 1
  <2>1. excuses' = excuses /\ named' = named /\ asking[c].at = "saved"
        /\ asking' = [asking EXCEPT ![c] = [asking[c] EXCEPT !.at = "sent", !.copy = n]]
    BY <1>5 DEF Delay
  <2>2. exports' = Append(exports, [at |-> "queued", status |-> "PENDING", form |-> form, chosen |-> {},
                                    todo |-> {}, now |-> asking[c].now, early |-> asking[c].early])
    BY <1>5 DEF Delay
  <2>3. DOMAIN exports' = 1 .. n /\ n \in Nat \ {0} /\ \A t \in DOMAIN exports : exports'[t] = exports[t]
    BY <1>0, <2>2
  <2>4. \A t \in DOMAIN exports : ~AtWork(t) /\ ~AtWork(t)'
    BY <2>1, <2>3 DEF AtWork
  <2>5. \A t \in DOMAIN exports' : AtWork(t)' => t = n
    BY <1>0, <2>3, <2>4
  <2>6. asking'[c].at = "sent" /\ asking'[c].copy = n /\ \A d \in Clients \ {c} : asking'[d] = asking[d]
    BY <1>0, <2>1 DEF AskingRecord
  <2>7. \A d \in Clients \ {c} : ~Ordering(d)
    BY <2>1 DEF OneOrders, Ordering
  <2>8. \A d \in Clients \ {c} : asking'[d].at \notin {"granted", "saved", "sent"}
    BY <2>6, <2>7 DEF Ordering
  <2> QED
    BY <2>5, <2>6, <2>8
<1>6. ASSUME NEW c \in Clients, SetCache(c)
      PROVE  WorkIsNamed'
  BY <1>0, <1>6 DEF SetCache, NoRequest, AskingRecord, AtWork
<1>7. ASSUME NEW c \in Clients, Break(c)
      PROVE  WorkIsNamed'
  BY <1>0, <1>7 DEF Break, NoRequest, AskingRecord, AtWork
<1>8. ASSUME NEW c \in Clients, LoadWhole(c)
      PROVE  WorkIsNamed'
  <2>1. exports' = exports /\ named' = named /\ excuses' = excuses /\ asking[c].at = "free"
    BY <1>8 DEF LoadWhole
  <2>2. asking'[c].at = "other" /\ \A d \in Clients \ {c} : asking'[d] = asking[d]
    BY <1>0, <1>8 DEF LoadWhole, AskingRecord
  <2> QED
    BY <2>1, <2>2 DEF AtWork
<1>9. ASSUME NEW c \in Clients, SaveWhole(c)
      PROVE  WorkIsNamed'
  BY <1>0, <1>9 DEF SaveWhole, NoRequest, AskingRecord, AtWork
<1>10. CASE TaskNext
  <2>1. TaskStep
    BY <1>10, TaskNextStep
  <2> QED
    BY <2>1 DEF TaskStep
<1>11. CASE Forget
  BY <1>0, <1>11 DEF Forget, AtWork
<1>12. CASE Tick \/ (\E s \in Handed : Delete(s)) \/ UNCHANGED xvars
  BY <1>12 DEF Tick, Delete, xvars, AtWork
<1> QED
  BY <1>1, <1>2, <1>3, <1>4, <1>5, <1>6, <1>7, <1>8, <1>9, <1>10, <1>11, <1>12 DEF ExportNext, AskNext

LEMMA WorkIsOne ==
  ASSUME OneOrders, WorkIsNamed
  PROVE  OneAtWork
<1> SUFFICES ASSUME NoExcuse({"raced", "dropped"}), NEW t \in Tasks, NEW u \in Tasks, AtWork(t), AtWork(u)
             PROVE  t = u
  BY DEF OneAtWork
<1> QED
  BY DEF WorkIsNamed

LEMMA DatesGrowStep ==
  ASSUME ExportTypeOK, OneOrders, DatesArePast, DatesGrow, [ExportNext]_xvars
  PROVE  DatesGrow'
<1>0. /\ asking \in [Clients -> AskingRecord] /\ \A c \in Clients : asking[c] \in AskingRecord
      /\ exports \in Seq(ExportTask) /\ \A t \in DOMAIN exports : exports[t] \in ExportTask
      /\ clock \in Nat \ {0} /\ downloaded \in Nat /\ DOMAIN exports = 1 .. Len(exports)
  BY DEF ExportTypeOK
<1> USE ExportAssumption DEF DatesGrow, NoExcuse, Tasks, Apart
<1>1. ASSUME NEW c \in Clients, CheckLimit(c)
      PROVE  DatesGrow'
  <2> SUFFICES ASSUME excuses' \cap {"raced", "undone"} = {}
               PROVE  DatesGrow'
    OBVIOUS
  <2> DEFINE moment == IF downloaded = 0 THEN 0 ELSE clock
             early == downloaded # 0 /\ ~Lapsed
  <2>1. exports' = exports /\ downloaded' = downloaded /\ excuses \subseteq excuses' /\ can_prepare_data
    BY <1>1 DEF CheckLimit
  <2>2. /\ asking'[c].at = "limit" /\ asking'[c].now = moment /\ asking'[c].early = early
        /\ \A d \in Clients \ {c} : asking'[d] = asking[d]
    <3>1. asking' = [asking EXCEPT ![c].at = "limit", ![c].now = moment, ![c].early = early]
      BY <1>1 DEF CheckLimit
    <3> HIDE DEF moment, early
    <3> QED
      BY <1>0, <3>1 DEF AskingRecord
  <2>3. \A t \in DOMAIN exports : exports[t].now \in Nat /\ exports[t].now # 0 /\ exports[t].now <= downloaded
    BY <1>0, <2>1 DEF ExportTask
  <2>4. CASE downloaded = 0
    <3>1. ASSUME NEW t \in DOMAIN exports
          PROVE  FALSE
      BY <2>3, <2>4
    <3>2. DOMAIN exports = {}
      BY <3>1
    <3> QED
      BY <2>1, <2>2, <2>4, <3>2
  <2>5. CASE downloaded # 0
    <3>1. moment = clock /\ moment # 0 /\ downloaded <= moment
      BY <1>0, <2>5 DEF DatesArePast
    <3>2. \A t \in DOMAIN exports : moment > exports[t].now + RateLimit \/ early
      BY <1>0, <2>3, <2>5 DEF Lapsed
    <3> QED
      BY <2>1, <2>2, <3>1, <3>2
  <2> QED
    BY <2>4, <2>5
<1>2. ASSUME NEW c \in Clients, CheckProgress(c)
      PROVE  DatesGrow'
  BY <1>0, <1>2 DEF CheckProgress, NoRequest, AskingRecord
<1>3. ASSUME NEW c \in Clients, SaveDate(c)
      PROVE  DatesGrow'
  <2> SUFFICES ASSUME excuses' \cap {"raced", "undone"} = {}
               PROVE  DatesGrow'
    OBVIOUS
  <2> DEFINE moment == IF asking[c].now = 0 THEN clock ELSE asking[c].now
  <2>1. exports' = exports /\ downloaded' = moment /\ excuses' = excuses /\ asking[c].at = "granted"
    BY <1>3 DEF SaveDate
  <2>2. /\ asking'[c].at = "saved" /\ asking'[c].now = moment /\ asking'[c].early = asking[c].early
        /\ \A d \in Clients \ {c} : asking'[d] = asking[d]
    <3>1. asking' = [asking EXCEPT ![c].at = "saved", ![c].now = moment]
      BY <1>3 DEF SaveDate
    <3> HIDE DEF moment
    <3> QED
      BY <1>0, <3>1 DEF AskingRecord
  <2>3. moment \in Nat \ {0} /\ \A t \in DOMAIN exports : exports[t].now <= moment
    BY <1>0, <2>1 DEF AskingRecord, ExportTask
  <2>4. Apart(moment, asking[c].early)
    BY <2>1
  <2>5. \A d \in Clients \ {c} : asking'[d].at \notin {"limit", "granted", "saved"}
    BY <2>1, <2>2 DEF OneOrders, Ordering
  <2> QED
    BY <2>1, <2>2, <2>3, <2>4, <2>5
<1>4. ASSUME NEW c \in Clients, FormInvalid(c)
      PROVE  DatesGrow'
  BY <1>0, <1>4 DEF FormInvalid, NoRequest, AskingRecord
<1>5. ASSUME NEW c \in Clients, NEW form \in Forms, Delay(c, form)
      PROVE  DatesGrow'
  <2> SUFFICES ASSUME excuses' \cap {"raced", "undone"} = {}
               PROVE  DatesGrow'
    OBVIOUS
  <2> DEFINE n == Len(exports) + 1
  <2>1. excuses' = excuses /\ downloaded' = downloaded /\ asking[c].at = "saved"
        /\ asking' = [asking EXCEPT ![c] = [asking[c] EXCEPT !.at = "sent", !.copy = n]]
    BY <1>5 DEF Delay
  <2>2. exports' = Append(exports, [at |-> "queued", status |-> "PENDING", form |-> form, chosen |-> {},
                                    todo |-> {}, now |-> asking[c].now, early |-> asking[c].early])
    BY <1>5 DEF Delay
  <2>3. /\ DOMAIN exports' = DOMAIN exports \cup {n} /\ exports'[n].now = asking[c].now
        /\ \A t \in DOMAIN exports : exports'[t] = exports[t]
    BY <1>0, <2>2
  <2>4. \A t \in DOMAIN exports' : exports'[t].now # 0 /\ exports'[t].now <= downloaded
    BY <1>0, <2>1, <2>3
  <2>5. asking'[c].at = "sent" /\ \A d \in Clients \ {c} : asking'[d] = asking[d]
    BY <1>0, <2>1 DEF AskingRecord
  <2>6. \A d \in Clients \ {c} : asking'[d].at \notin {"limit", "granted", "saved"}
    BY <2>1, <2>5 DEF OneOrders, Ordering
  <2> QED
    BY <2>1, <2>4, <2>5, <2>6
<1>6. ASSUME NEW c \in Clients, SetCache(c)
      PROVE  DatesGrow'
  BY <1>0, <1>6 DEF SetCache, NoRequest, AskingRecord
<1>7. ASSUME NEW c \in Clients, Break(c)
      PROVE  DatesGrow'
  BY <1>0, <1>7 DEF Break, NoRequest, AskingRecord
<1>8. ASSUME NEW c \in Clients, LoadWhole(c)
      PROVE  DatesGrow'
  <2>1. exports' = exports /\ downloaded' = downloaded /\ excuses' = excuses /\ asking[c].at = "free"
    BY <1>8 DEF LoadWhole
  <2>2. asking'[c].at = "other" /\ \A d \in Clients \ {c} : asking'[d] = asking[d]
    BY <1>0, <1>8 DEF LoadWhole, AskingRecord
  <2> QED
    BY <2>1, <2>2
<1>9. ASSUME NEW c \in Clients, SaveWhole(c)
      PROVE  DatesGrow'
  <2> SUFFICES ASSUME excuses' \cap {"raced", "undone"} = {}
               PROVE  DatesGrow'
    OBVIOUS
  <2>1. exports' = exports /\ downloaded' = downloaded /\ excuses \subseteq excuses'
    BY <1>9 DEF SaveWhole
  <2>2. asking'[c].at = "free" /\ \A d \in Clients \ {c} : asking'[d] = asking[d]
    BY <1>0, <1>9 DEF SaveWhole, NoRequest
  <2> QED
    BY <2>1, <2>2
<1>10. CASE TaskNext
  <2>1. TaskStep
    BY <1>10, TaskNextStep
  <2> QED
    BY <2>1 DEF TaskStep
<1>11. CASE Forget
  BY <1>0, <1>11 DEF Forget
<1>12. CASE Tick \/ (\E s \in Handed : Delete(s)) \/ UNCHANGED xvars
  BY <1>12 DEF Tick, Delete, xvars
<1> QED
  BY <1>1, <1>2, <1>3, <1>4, <1>5, <1>6, <1>7, <1>8, <1>9, <1>10, <1>11, <1>12 DEF ExportNext, AskNext

LEMMA LimitIsKeptStep ==
  ASSUME ExportTypeOK, DatesGrow, LimitIsKept, [ExportNext]_xvars
  PROVE  LimitIsKept'
<1>0. /\ exports \in Seq(ExportTask) /\ DOMAIN exports = 1 .. Len(exports)
  BY DEF ExportTypeOK
<1> USE DEF LimitIsKept, NoExcuse, Tasks
<1>1. ASSUME NEW c \in Clients,
             CheckLimit(c) \/ CheckProgress(c) \/ SaveDate(c) \/ FormInvalid(c) \/ SetCache(c)
             \/ Break(c) \/ LoadWhole(c) \/ SaveWhole(c)
      PROVE  LimitIsKept'
  <2>1. exports' = exports /\ excuses \subseteq excuses'
    BY <1>1 DEF CheckLimit, CheckProgress, SaveDate, FormInvalid, SetCache, Break, LoadWhole, SaveWhole
  <2> QED
    BY <2>1
<1>2. ASSUME NEW c \in Clients, NEW form \in Forms, Delay(c, form)
      PROVE  LimitIsKept'
  <2> SUFFICES ASSUME excuses' \cap {"raced", "undone"} = {}, NEW t \in DOMAIN exports', NEW u \in DOMAIN exports', t < u
               PROVE  exports'[u].now > exports'[t].now + RateLimit \/ exports'[u].early
    OBVIOUS
  <2> DEFINE n == Len(exports) + 1
  <2>1. excuses' = excuses /\ asking[c].at = "saved"
    BY <1>2 DEF Delay
  <2>2. exports' = Append(exports, [at |-> "queued", status |-> "PENDING", form |-> form, chosen |-> {},
                                    todo |-> {}, now |-> asking[c].now, early |-> asking[c].early])
    BY <1>2 DEF Delay
  <2>3. /\ DOMAIN exports' = 1 .. n /\ exports'[n].now = asking[c].now /\ exports'[n].early = asking[c].early
        /\ \A v \in DOMAIN exports : exports'[v] = exports[v]
    BY <1>0, <2>2
  <2>4. CASE u = n
    <3>1. t \in DOMAIN exports
      BY <1>0, <2>3, <2>4
    <3>2. Apart(asking[c].now, asking[c].early)
      BY <2>1 DEF DatesGrow
    <3> QED
      BY <2>3, <2>4, <3>1, <3>2 DEF Apart
  <2>5. CASE u # n
    <3>1. t \in DOMAIN exports /\ u \in DOMAIN exports
      BY <1>0, <2>3, <2>5
    <3> QED
      BY <2>1, <2>3, <3>1
  <2> QED
    BY <2>4, <2>5
<1>3. CASE TaskNext
  BY <1>3, TaskNextStep DEF TaskStep
<1>4. CASE Forget \/ Tick \/ (\E s \in Handed : Delete(s)) \/ UNCHANGED xvars
  BY <1>4 DEF Forget, Tick, Delete, xvars
<1> QED
  BY <1>1, <1>2, <1>3, <1>4 DEF ExportNext, AskNext

LEMMA FileIsBegunStep ==
  ASSUME ExportTypeOK, FileIsBegun, [ExportNext]_xvars
  PROVE  FileIsBegun'
<1>0. /\ exports \in Seq(ExportTask) /\ \A t \in DOMAIN exports : exports[t] \in ExportTask
      /\ archive \in File /\ archive.of <= Len(exports) /\ DOMAIN exports = 1 .. Len(exports)
  BY DEF ExportTypeOK
<1> USE DEF FileIsBegun, Tasks, Exists
<1>1. ASSUME NEW c \in Clients,
             CheckLimit(c) \/ CheckProgress(c) \/ SaveDate(c) \/ FormInvalid(c) \/ SetCache(c)
             \/ Break(c) \/ LoadWhole(c) \/ SaveWhole(c)
      PROVE  FileIsBegun'
  <2>1. exports' = exports /\ archive' = archive
    BY <1>1 DEF CheckLimit, CheckProgress, SaveDate, FormInvalid, SetCache, Break, LoadWhole, SaveWhole
  <2> QED
    BY <2>1
<1>2. ASSUME NEW c \in Clients, NEW form \in Forms, Delay(c, form)
      PROVE  FileIsBegun'
  <2> DEFINE n == Len(exports) + 1
  <2>1. exports' = Append(exports, [at |-> "queued", status |-> "PENDING", form |-> form, chosen |-> {},
                                    todo |-> {}, now |-> asking[c].now, early |-> asking[c].early])
    BY <1>2 DEF Delay
  <2>2. /\ DOMAIN exports' = DOMAIN exports \cup {n} /\ exports'[n].at = "queued"
        /\ \A v \in DOMAIN exports : exports'[v] = exports[v]
    BY <1>0, <2>1
  <2>3. archive' = archive
    BY <1>2 DEF Delay
  <2>4. archive.of # 0 => archive.of \in DOMAIN exports
    BY <1>0 DEF File
  <2> QED
    BY <2>2, <2>3, <2>4
<1>3. CASE TaskNext
  <2>1. PICK t \in DOMAIN exports :
          \/ Begin(t) \/ WriteInfo(t) \/ Close(t) \/ Die(t)
          \/ \E piece \in Handed \cup Remarks : Write(t, piece) \/ FailAt(t, piece)
    BY <1>3 DEF TaskNext
  <2>2. exports'[t].at # "queued" /\ \A u \in DOMAIN exports : u # t => exports'[u] = exports[u]
    <3>1. ASSUME Begin(t)
          PROVE  exports'[t].at # "queued" /\ \A u \in DOMAIN exports : u # t => exports'[u] = exports[u]
      <4> DEFINE chosen == apply_submission_filter(exports[t].form) \cup apply_comment_filter(exports[t].form)
      <4>1. StageOf(chosen) # "queued"
        BY DEF StageOf
      <4>2. exports' = [exports EXCEPT ![t].at = StageOf(chosen), ![t].chosen = chosen, ![t].todo = chosen]
        BY <3>1 DEF Begin
      <4> HIDE DEF chosen
      <4> QED
        BY <1>0, <4>1, <4>2 DEF ExportTask
    <3>2. ASSUME WriteInfo(t)
          PROVE  exports'[t].at # "queued" /\ \A u \in DOMAIN exports : u # t => exports'[u] = exports[u]
      BY <1>0, <3>2 DEF WriteInfo, StageOf, ExportTask
    <3>3. ASSUME Close(t)
          PROVE  exports'[t].at # "queued" /\ \A u \in DOMAIN exports : u # t => exports'[u] = exports[u]
      BY <1>0, <3>3 DEF Close, ExportTask
    <3>4. ASSUME Die(t)
          PROVE  exports'[t].at # "queued" /\ \A u \in DOMAIN exports : u # t => exports'[u] = exports[u]
      BY <1>0, <3>4 DEF Die, ExportTask
    <3>5. ASSUME NEW piece \in Handed \cup Remarks, Write(t, piece)
          PROVE  exports'[t].at # "queued" /\ \A u \in DOMAIN exports : u # t => exports'[u] = exports[u]
      BY <1>0, <3>5 DEF Write, Parts, ExportTask
    <3>6. ASSUME NEW piece \in Handed \cup Remarks, FailAt(t, piece)
          PROVE  exports'[t].at # "queued" /\ \A u \in DOMAIN exports : u # t => exports'[u] = exports[u]
      BY <1>0, <3>6 DEF FailAt, ExportTask
    <3> QED
      BY <2>1, <3>1, <3>2, <3>3, <3>4, <3>5, <3>6
  <2>3. archive'.of = t \/ (archive'.of = archive.of /\ exports[t].at # "queued")
    BY <1>0, <2>1 DEF Begin, WriteInfo, Close, Die, Write, FailAt, Written, NoArchive, File, Parts
  <2>4. DOMAIN exports' = DOMAIN exports
    BY <1>3, TaskNextStep DEF TaskStep
  <2>5. archive.of # 0 => archive.of \in DOMAIN exports
    BY <1>0 DEF File
  <2>6. t # 0
    BY <1>0, <2>1
  <2> QED
    BY <2>2, <2>3, <2>4, <2>5, <2>6
<1>4. CASE Forget \/ Tick \/ (\E s \in Handed : Delete(s)) \/ UNCHANGED xvars
  BY <1>4 DEF Forget, Tick, Delete, xvars
<1> QED
  BY <1>1, <1>2, <1>3, <1>4 DEF ExportNext, AskNext

LEMMA PartsAre ==
  ASSUME NEW S
  PROVE  /\ PartsOf(S) \subseteq {"submissions", "comments"}
         /\ "submissions" \in PartsOf(S) <=> S \cap Handed # {}
         /\ "comments" \in PartsOf(S) <=> S \cap Remarks # {}
BY DEF PartsOf, Parts, Kind

\* What a step of the only task at work has to show of the file.
LEMMA OnlyThisFile ==
  ASSUME ExportTypeOK, OneAtWork, FileIsWritten, NoExcuse({"raced", "dropped"}),
         NEW t \in DOMAIN exports, AtWork(t), NEW task, NEW file,
         exports' = [exports EXCEPT ![t] = task], archive' = file, file.of = t, ~file.mixed,
         Matches(file, task)
  PROVE  FileIsWritten'
<1>1. exports \in Seq(ExportTask)
  BY DEF ExportTypeOK
<1>2. DOMAIN exports' = DOMAIN exports /\ exports'[t] = task
      /\ \A u \in DOMAIN exports : u # t => exports'[u] = exports[u]
  BY <1>1
<1>3. \A u \in DOMAIN exports : u # t => exports[u].at \notin Parts \cup {"closing"}
  BY DEF OneAtWork, Tasks, AtWork
<1>4. \A u \in DOMAIN exports' : exports'[u].at \in Parts \cup {"closing"} => archive'.of = u
  BY <1>2, <1>3
<1>5. exports'[archive'.of] = task
  BY <1>2
<1> QED
  BY <1>4, <1>5 DEF FileIsWritten, Tasks, Exists

LEMMA FileIsWrittenStep ==
  ASSUME ExportTypeOK, OneAtWork, FileIsWritten, [ExportNext]_xvars
  PROVE  FileIsWritten'
<1>0. /\ exports \in Seq(ExportTask) /\ \A t \in DOMAIN exports : exports[t] \in ExportTask
      /\ archive \in File /\ archive.of <= Len(exports) /\ DOMAIN exports = 1 .. Len(exports)
  BY DEF ExportTypeOK
<1>1. ASSUME NEW c \in Clients,
             CheckLimit(c) \/ CheckProgress(c) \/ SaveDate(c) \/ FormInvalid(c) \/ SetCache(c)
             \/ Break(c) \/ LoadWhole(c) \/ SaveWhole(c)
      PROVE  FileIsWritten'
  <2>1. exports' = exports /\ archive' = archive /\ excuses \subseteq excuses'
    BY <1>1 DEF CheckLimit, CheckProgress, SaveDate, FormInvalid, SetCache, Break, LoadWhole, SaveWhole
  <2> QED
    BY <2>1 DEF FileIsWritten, NoExcuse, Tasks, Exists
<1>2. ASSUME NEW c \in Clients, NEW form \in Forms, Delay(c, form)
      PROVE  FileIsWritten'
  <2> DEFINE n == Len(exports) + 1
  <2>1. exports' = Append(exports, [at |-> "queued", status |-> "PENDING", form |-> form, chosen |-> {},
                                    todo |-> {}, now |-> asking[c].now, early |-> asking[c].early])
    BY <1>2 DEF Delay
  <2>2. /\ DOMAIN exports' = DOMAIN exports \cup {n} /\ exports'[n].at = "queued"
        /\ \A v \in DOMAIN exports : exports'[v] = exports[v]
    BY <1>0, <2>1
  <2>3. archive' = archive /\ excuses' = excuses
    BY <1>2 DEF Delay
  <2>4. archive.of # 0 => archive.of \in DOMAIN exports
    BY <1>0 DEF File
  <2>5. "queued" \notin Parts \cup {"closing"}
    BY DEF Parts
  <2> HIDE DEF n
  <2> QED
    BY <2>2, <2>3, <2>4, <2>5 DEF FileIsWritten, NoExcuse, Tasks, Exists
<1>3. CASE TaskNext
  <2> SUFFICES ASSUME NoExcuse({"raced", "dropped"})
               PROVE  FileIsWritten'
    <3>1. excuses' = excuses
      BY <1>3, TaskNextStep DEF TaskStep
    <3> QED
      BY <3>1 DEF FileIsWritten, NoExcuse
  <2>0. ~archive.mixed
    BY DEF FileIsWritten
  <2>1. ASSUME NEW t \in DOMAIN exports, Begin(t)
        PROVE  FileIsWritten'
    <3> DEFINE chosen == apply_submission_filter(exports[t].form) \cup apply_comment_filter(exports[t].form)
               task == [exports[t] EXCEPT !.at = StageOf(chosen), !.chosen = chosen, !.todo = chosen]
               file == [NoArchive EXCEPT !.of = t]
    <3>1. chosen \in SUBSET (Handed \cup Remarks)
      BY DEF apply_submission_filter, apply_comment_filter, ExportTypeOK
    <3>2. exports' = [exports EXCEPT ![t].at = StageOf(chosen), ![t].chosen = chosen, ![t].todo = chosen]
      BY <2>1 DEF Begin
    <3>3. archive' = file /\ AtWork(t)
      BY <2>1 DEF Begin, AtWork
    <3>4. file.of = t /\ file.pieces = {} /\ file.infos = {} /\ ~file.mixed
      BY DEF NoArchive
    <3> HIDE DEF chosen
    <3>5. exports' = [exports EXCEPT ![t] = task]
      BY <1>0, <3>2 DEF ExportTask
    <3>6. task.at = StageOf(chosen) /\ task.chosen = chosen /\ task.todo = chosen
      BY <1>0 DEF ExportTask
    <3> HIDE DEF task, file
    <3>7. task.at = "submissions" => chosen \cap Handed # {}
      BY <3>6 DEF StageOf
    <3>8. task.at = "comments" => chosen \cap Handed = {} /\ chosen \cap Remarks # {}
      BY <3>1, <3>6 DEF StageOf
    <3>9. task.at = "closing" => chosen = {}
      BY <3>6 DEF StageOf
    <3>10. task.at # "ended"
      BY <3>6 DEF StageOf
    <3>11. InFile(file, task)
      BY <3>4, <3>6 DEF InFile
    <3>12. task.at = "comments" => file.infos = PartsOf(chosen) \ {"comments"}
      BY <3>4, <3>8, PartsAre
    <3>13. task.at = "closing" => file.pieces = chosen /\ file.infos = PartsOf(chosen)
      BY <3>4, <3>9, PartsAre
    <3>14. Matches(file, task)
      BY <3>4, <3>6, <3>7, <3>8, <3>10, <3>11, <3>12, <3>13 DEF Matches
    <3> QED
      BY <3>3, <3>4, <3>5, <3>14, OnlyThisFile
  <2>2. ASSUME NEW t \in DOMAIN exports, NEW piece \in Handed \cup Remarks, Write(t, piece)
        PROVE  FileIsWritten'
    <3> DEFINE task == [exports[t] EXCEPT !.todo = @ \ {piece}, !.status = Reported]
               file == [archive EXCEPT !.pieces = @ \cup {piece}]
    <3>1. exports[t].at \in Parts /\ piece \in exports[t].todo /\ AtWork(t)
          /\ (exports[t].at = "submissions" => piece \in Handed)
      BY <2>2 DEF Write, AtWork
    <3>2. archive.of = t
      BY <3>1 DEF FileIsWritten, Tasks
    <3>3. exports' = [exports EXCEPT ![t] = task]
      BY <1>0, <2>2 DEF Write, ExportTask
    <3>4. archive' = file
      BY <2>2, <3>2 DEF Write, Written
    <3>5. /\ task.at = exports[t].at /\ task.chosen = exports[t].chosen
          /\ task.todo = exports[t].todo \ {piece}
      BY <1>0 DEF ExportTask
    <3>6. file.of = t /\ file.infos = archive.infos /\ ~file.mixed /\ file.pieces = archive.pieces \cup {piece}
      BY <1>0, <2>0, <3>2 DEF File
    <3> HIDE DEF task, file
    <3>7. Matches(archive, exports[t])
      BY <1>0, <3>2 DEF FileIsWritten, Exists
    <3>8. InFile(file, task)
      BY <3>1, <3>5, <3>6, <3>7 DEF Matches, InFile, Parts
    <3>9. ASSUME exports[t].at = "submissions"
          PROVE  Matches(file, task)
      BY <3>1, <3>5, <3>6, <3>7, <3>8, <3>9, ExportAssumption DEF Matches
    <3>10. ASSUME exports[t].at = "comments"
          PROVE  Matches(file, task)
      BY <3>1, <3>5, <3>6, <3>7, <3>8, <3>10 DEF Matches
    <3>11. Matches(file, task)
      BY <3>1, <3>9, <3>10 DEF Parts
    <3> QED
      BY <3>1, <3>3, <3>4, <3>6, <3>11, OnlyThisFile
  <2>3. ASSUME NEW t \in DOMAIN exports, WriteInfo(t)
        PROVE  FileIsWritten'
    <3> DEFINE next == StageOf(exports[t].todo)
               task == [exports[t] EXCEPT !.at = next]
               file == [archive EXCEPT !.infos = @ \cup {exports[t].at}]
    <3>1. exports[t].at \in Parts /\ next # exports[t].at /\ AtWork(t)
      BY <2>3 DEF WriteInfo, AtWork
    <3>2. archive.of = t
      BY <3>1 DEF FileIsWritten, Tasks
    <3>3. exports' = [exports EXCEPT ![t] = task]
      BY <1>0, <2>3 DEF WriteInfo, ExportTask
    <3>4. archive' = file
      BY <2>3, <3>2 DEF WriteInfo, Written
    <3>5. task.at = next /\ task.chosen = exports[t].chosen /\ task.todo = exports[t].todo
      BY <1>0 DEF ExportTask
    <3>6. /\ file.of = t /\ file.pieces = archive.pieces /\ ~file.mixed
          /\ file.infos = archive.infos \cup {exports[t].at}
      BY <1>0, <2>0, <3>2 DEF File
    <3> HIDE DEF task, file
    <3>7. Matches(archive, exports[t])
      BY <1>0, <3>2 DEF FileIsWritten, Exists
    <3>8. exports[t].chosen \subseteq Handed \cup Remarks
      BY <1>0 DEF ExportTask
    <3>9. ASSUME exports[t].at = "submissions"
          PROVE  Matches(file, task)
      <4>1. exports[t].todo \cap Handed = {}
        BY <3>1, <3>9 DEF StageOf
      <4>2. InFile(archive, exports[t]) /\ archive.infos = {} /\ exports[t].chosen \cap Handed # {}
            /\ exports[t].chosen \cap Remarks \subseteq exports[t].todo
        BY <3>7, <3>9 DEF Matches
      <4>3. next = IF exports[t].todo # {} THEN "comments" ELSE "closing"
        BY <4>1 DEF StageOf
      <4>4. CASE exports[t].todo # {}
        <5>1. exports[t].chosen \cap Remarks # {}
          BY <3>8, <4>1, <4>2, <4>4 DEF InFile
        <5>2. file.infos = PartsOf(exports[t].chosen) \ {"comments"}
          BY <3>6, <3>9, <4>2, PartsAre
        <5>3. InFile(file, task)
          BY <3>5, <3>6, <4>2 DEF InFile
        <5> QED
          BY <3>5, <4>1, <4>3, <4>4, <5>1, <5>2, <5>3 DEF Matches
      <4>5. CASE exports[t].todo = {}
        <5>1. exports[t].chosen \cap Remarks = {}
          BY <4>2, <4>5
        <5>2. file.infos = PartsOf(exports[t].chosen)
          BY <3>6, <3>9, <4>2, <5>1, PartsAre
        <5>3. file.pieces = exports[t].chosen
          BY <3>6, <4>2, <4>5 DEF InFile
        <5> QED
          BY <3>5, <4>3, <4>5, <5>2, <5>3 DEF Matches
      <4> QED
        BY <4>4, <4>5
    <3>10. ASSUME exports[t].at = "comments"
          PROVE  Matches(file, task)
      <4>1. /\ InFile(archive, exports[t]) /\ archive.infos = PartsOf(exports[t].chosen) \ {"comments"}
            /\ exports[t].chosen \cap Remarks # {} /\ exports[t].todo \cap Handed = {}
        BY <3>7, <3>10 DEF Matches
      <4>2. exports[t].todo = {} /\ next = "closing"
        BY <3>1, <3>10, <4>1 DEF StageOf
      <4>3. file.pieces = exports[t].chosen
        BY <3>6, <4>1, <4>2 DEF InFile
      <4>4. file.infos = PartsOf(exports[t].chosen)
        BY <3>6, <3>10, <4>1, PartsAre
      <4> QED
        BY <3>5, <4>2, <4>3, <4>4 DEF Matches
    <3>11. Matches(file, task)
      BY <3>1, <3>9, <3>10 DEF Parts
    <3> QED
      BY <3>1, <3>3, <3>4, <3>6, <3>11, OnlyThisFile
  <2>4. ASSUME NEW t \in DOMAIN exports, Close(t)
        PROVE  FileIsWritten'
    <3> DEFINE task == [exports[t] EXCEPT !.at = "ended", !.status = "SUCCESS"]
               file == [archive EXCEPT !.closed = TRUE]
    <3>1. exports[t].at = "closing" /\ AtWork(t)
      BY <2>4 DEF Close, AtWork
    <3>2. archive.of = t
      BY <3>1 DEF FileIsWritten, Tasks
    <3>3. exports' = [exports EXCEPT ![t] = task]
      BY <1>0, <2>4 DEF Close, ExportTask
    <3>4. archive' = file
      BY <2>4, <3>2 DEF Close, Written
    <3>5. task.at = "ended" /\ task.chosen = exports[t].chosen
      BY <1>0 DEF ExportTask
    <3>6. /\ file.of = t /\ file.pieces = archive.pieces /\ ~file.mixed /\ file.closed
          /\ file.infos = archive.infos
      BY <1>0, <2>0, <3>2 DEF File
    <3> HIDE DEF task, file
    <3>7. Matches(archive, exports[t])
      BY <1>0, <3>2 DEF FileIsWritten, Exists
    <3>8. Matches(file, task)
      BY <3>1, <3>5, <3>6, <3>7 DEF Matches
    <3> QED
      BY <3>1, <3>3, <3>4, <3>6, <3>8, OnlyThisFile
  <2>5. ASSUME NEW t \in DOMAIN exports, NEW piece \in Handed \cup Remarks, FailAt(t, piece)
        PROVE  FileIsWritten'
    <3> DEFINE task == [exports[t] EXCEPT !.at = "ended", !.status = "FAILURE"]
               file == [archive EXCEPT !.closed = TRUE]
    <3>1. exports[t].at \in Parts /\ AtWork(t)
      BY <2>5 DEF FailAt, AtWork, Parts
    <3>2. archive.of = t
      BY <3>1 DEF FileIsWritten, Tasks
    <3>3. exports' = [exports EXCEPT ![t] = task]
      BY <1>0, <2>5 DEF FailAt, ExportTask
    <3>4. archive' = file
      BY <2>5, <3>2 DEF FailAt, Written
    <3>5. task.at = "ended" /\ task.status = "FAILURE"
      BY <1>0 DEF ExportTask
    <3>6. file.of = t /\ ~file.mixed /\ file.closed
      BY <1>0, <2>0, <3>2 DEF File
    <3> HIDE DEF task, file
    <3>7. Matches(file, task)
      BY <3>5, <3>6 DEF Matches
    <3> QED
      BY <3>1, <3>3, <3>4, <3>6, <3>7, OnlyThisFile
  <2>6. ASSUME NEW t \in DOMAIN exports, Die(t)
        PROVE  FileIsWritten'
    <3> DEFINE task == [exports[t] EXCEPT !.at = "lost"]
    <3>1. exports[t].at \in Parts \cup {"closing"} /\ AtWork(t)
      BY <2>6 DEF Die, AtWork
    <3>2. archive.of = t /\ archive' = archive
      BY <2>6, <3>1 DEF FileIsWritten, Tasks, Die
    <3>3. exports' = [exports EXCEPT ![t] = task]
      BY <1>0, <2>6 DEF Die, ExportTask
    <3>4. task.at = "lost"
      BY <1>0 DEF ExportTask
    <3> HIDE DEF task
    <3>5. Matches(archive, task)
      BY <3>4 DEF Matches
    <3> QED
      BY <2>0, <3>1, <3>2, <3>3, <3>5, OnlyThisFile
  <2> QED
    BY <1>3, <2>1, <2>2, <2>3, <2>4, <2>5, <2>6 DEF TaskNext
<1>4. CASE Forget \/ Tick \/ (\E s \in Handed : Delete(s)) \/ UNCHANGED xvars
  <2>1. exports' = exports /\ archive' = archive /\ excuses \subseteq excuses'
    BY <1>4 DEF Forget, Tick, Delete, xvars
  <2> QED
    BY <2>1 DEF FileIsWritten, NoExcuse, Tasks, Exists
<1> QED
  BY <1>1, <1>2, <1>3, <1>4 DEF ExportNext, AskNext

LEMMA ExportStart ==
  ASSUME ExportInit
  PROVE  ExportInv
<1>1. ExportTypeOK
  BY ExportAssumption DEF ExportInit, ExportTypeOK, File, NoArchive, AskingRecord, NoRequest
<1>2. FileIsBegun /\ FileIsWritten
  BY DEF ExportInit, FileIsBegun, FileIsWritten, NoArchive, Exists, Tasks
<1>3. OneOrders /\ WorkIsNamed /\ StatusIsFinal /\ LimitIsKept
  BY DEF ExportInit, OneOrders, Ordering, WorkIsNamed, StatusIsFinal, LimitIsKept, NoRequest, Tasks
<1>4. DatesArePast /\ DatesGrow
  BY DEF ExportInit, DatesArePast, DatesGrow, NoRequest, Tasks, Apart
<1> QED
  BY <1>1, <1>2, <1>3, <1>4 DEF ExportInv

LEMMA ExportStep ==
  ASSUME ExportInv, [ExportNext]_xvars
  PROVE  ExportInv'
<1>1. ExportTypeOK'
  <2>1. CASE ExportNext
    BY <2>1, ExportTypeStep DEF ExportInv
  <2>2. CASE UNCHANGED xvars
    BY <2>2 DEF ExportInv, ExportTypeOK, xvars
  <2> QED
    BY <2>1, <2>2
<1>2. OneAtWork
  BY WorkIsOne DEF ExportInv
<1>3. OneOrders' /\ WorkIsNamed' /\ StatusIsFinal'
  BY OneOrdersStep, WorkIsNamedStep, StatusStep DEF ExportInv
<1>4. DatesArePast' /\ DatesGrow' /\ LimitIsKept'
  BY DatesArePastStep, DatesGrowStep, LimitIsKeptStep DEF ExportInv
<1>5. FileIsBegun' /\ FileIsWritten'
  BY <1>2, FileIsBegunStep, FileIsWrittenStep DEF ExportInv
<1> QED
  BY <1>1, <1>3, <1>4, <1>5 DEF ExportInv

LEMMA ExportStays == ExportSpec => []ExportInv
BY ExportStart, ExportStep, PTL DEF ExportSpec

LEMMA LinkHolds ==
  ASSUME ExportInv
  PROVE  LinkIsWhole
<1> SUFFICES ASSUME NoExcuse({"raced", "dropped"}), LinkIsShown
             PROVE  LET t == archive.of
                        task == exports[t]
                    IN  /\ ~archive.mixed
                        /\ \/ task.at = "lost"
                           \/ \E c \in Clients : asking[c].at = "sent" /\ asking[c].copy = t
                           \/ /\ task.at = "ended" /\ archive.closed
                              /\ task.status = "SUCCESS" =>
                                   /\ archive.pieces = task.chosen
                                   /\ archive.infos = PartsOf(task.chosen)
  BY DEF LinkIsWhole
<1> DEFINE t == archive.of
<1>1. t \in DOMAIN exports /\ exports[t] \in ExportTask
  BY DEF ExportInv, ExportTypeOK, LinkIsShown, Exists, File
<1>2. ~archive.mixed /\ Matches(archive, exports[t]) /\ exports[t].at # "queued"
  BY DEF ExportInv, FileIsWritten, FileIsBegun, LinkIsShown
<1>3. CASE AtWork(t)
  <2>1. t = named \/ \E c \in Clients : asking[c].at = "sent" /\ asking[c].copy = t
    BY <1>1, <1>3 DEF ExportInv, WorkIsNamed, Tasks
  <2>2. CASE t = named
    <3>1. named # 0
      BY <2>2 DEF LinkIsShown, Exists
    <3>2. exports[t].status \in {"SUCCESS", "FAILURE"}
      BY <1>1, <2>2, <3>1 DEF LinkIsShown, in_progress_url, status, ExportTask
    <3>3. exports[t].at = "ended"
      BY <1>1, <3>2 DEF ExportInv, StatusIsFinal, Tasks
    <3> QED
      BY <1>3, <3>3 DEF AtWork, Parts
  <2> QED
    BY <1>2, <2>1, <2>2
<1>4. CASE ~AtWork(t)
  <2>1. exports[t].at \in {"ended", "lost"}
    BY <1>1, <1>2, <1>4 DEF ExportTask, TaskStages, AtWork, Parts
  <2> QED
    BY <1>2, <2>1 DEF Matches
<1> QED
  BY <1>3, <1>4

\* Two tasks of a user are never at work together, so that no two write the same
\* archive, unless two requests were checked at once or the cache lost a name.
THEOREM OneTaskAtWork == ExportSpec => []OneAtWork
<1>1. ExportInv => OneAtWork
  BY WorkIsOne DEF ExportInv
<1> QED
  BY <1>1, ExportStays, PTL

\* The download a user is offered is one task's, closed and with all that was asked
\* for if the task succeeded; tasks are ordered the limit apart or for want of a
\* file; and who is told of a success finds a file.
THEOREM ExportStaysWhole == ExportSpec => []ExportHolds
<1>1. ASSUME ExportInv
      PROVE  ExportHolds
  <2>1. OneAtWork /\ LinkIsWhole /\ LimitIsKept
    BY <1>1, WorkIsOne, LinkHolds DEF ExportInv
  <2>2. SuccessHasFile
    BY <1>1 DEF ExportInv, SuccessHasFile, StatusIsFinal, FileIsBegun, task_status_redirects,
                get_task_status, status, download_found
  <2> QED
    BY <2>1, <2>2 DEF ExportHolds
<1> QED
  BY <1>1, ExportStays, PTL

-----------------------------------------------------------------------------
(* The office and the tickets, where they move *)

\* What the staff answer and decide holds in every reachable state of the whole.
THEOREM StaffStaysRight == CommunitySpec => []StaffHolds
<1> DEFINE Inv == (part = "tickets" => TicketInv) /\ (part = "office" => OfficeInv)
<1>1. CommunityInit => Inv
  BY TicketsStart, OfficeStarts DEF CommunityInit
<1>2. ASSUME Inv, [CommunityNext]_<<part, svars, requests, cvars, mvars, gvars, pvars, stvars, kvars, wvars, dvars>>
      PROVE  Inv'
  <2>1. part' = part
    BY <1>2 DEF CommunityNext
  <2>2. CASE part = "tickets"
    <3>1. [TicketsNext]_kvars
      BY <1>2, <2>2 DEF CommunityNext
    <3> QED
      BY <1>2, <2>1, <2>2, <3>1, TicketsStep
  <2>3. CASE part = "office"
    <3>1. [OfficeNext]_ovars \/ UNCHANGED dvars
      BY <1>2, <2>3 DEF CommunityNext
    <3>2. UNCHANGED dvars => UNCHANGED ovars
      BY DEF dvars, ovars
    <3> QED
      BY <1>2, <2>1, <2>3, <3>1, <3>2, OfficeStep
  <2> QED
    BY <2>1, <2>2, <2>3
<1>3. Inv => StaffHolds
  BY TicketsShown DEF StaffHolds, OfficeInv, DeskHolds
<1> QED
  BY <1>1, <1>2, <1>3, PTL DEF CommunitySpec
=============================================================================
