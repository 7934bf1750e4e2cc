----------------------------- MODULE JudgeStatus -----------------------------
(***************************************************************************)
(* What the database and the status pages say of the judges: the row of a  *)
(* judge and the versions of the runtimes it has, which the thread of its  *)
(* connection writes one statement after the other, which the next one     *)
(* overwrites, and which the form of the admin site puts back as it read   *)
(* them.  A connection that a newer one of the same name replaces is not   *)
(* closed (see JudgeList), so both write.                                  *)
(*                                                                         *)
(* spoiled and mixed do not exist in the program: the judges whose row the *)
(* admin site put back to what it was, and those of which two connections  *)
(* overlapped.                                                             *)
(***************************************************************************)
EXTENDS Integers, Sequences, FiniteSets

CONSTANTS Machines,      \* judges, numbered in the order they are listed
          Followed,      \* those that connect: no two have a row in common
          Titles,        \* names that judges and groups of judges have
          Title, GroupOf,    \* of a judge; the name up to its last dot
          Sockets,
          Reports,       \* functions from languages to lists of versions
          MaxForms       \* bound

ASSUME StatusAssumption ==
  /\ IsFiniteSet(Machines) /\ Machines = 1 .. Cardinality(Machines) /\ Followed \subseteq Machines
  /\ Title \in [Machines -> Titles] /\ GroupOf \in [Machines -> Titles]
  /\ \A j, k \in Machines : j # k => Title[j] # Title[k]
  /\ \A r \in Reports : r = [l \in DOMAIN r |-> r[l]]

VARIABLES row,         \* online and is_blocked of a Judge
          runtimes,    \* Judge.runtimes: languages
          versions,    \* RuntimeVersion: who wrote them, and what
          link,        \* the threads of the connections
          daemon,      \* whether the bridge runs
          forms, opened,   \* the admin site: how many, the one that is being saved
          spoiled, mixed,
          page         \* of the versions: the judges it is made of, and its lines

svars == <<row, runtimes, versions, link, daemon, forms, opened, spoiled, mixed, page>>

Unconnected == [at |-> "idle", judge |-> 1, report |-> <<>>, blocked |-> FALSE]
NoPage == [matrix |-> <<>>, lines |-> {}]
NoForm == [judge |-> 0, online |-> FALSE]
Connections(j) == {s \in Sockets : link[s].at # "idle" /\ link[s].judge = j}
Quiet(j) == \A s \in Connections(j) : link[s].at = "up"
-----------------------------------------------------------------------------
StatusTypeOK ==
  /\ row \in [Machines -> [online : BOOLEAN, is_blocked : BOOLEAN]]
  /\ \A j \in Machines : {v[1] : v \in versions[j]} \subseteq Sockets
  /\ \A s \in Sockets : link[s].at \in {"idle", "registered", "set", "deleted", "created", "up", "leaving"}
  /\ daemon \in BOOLEAN /\ forms \in 0 .. MaxForms
  /\ spoiled \cup mixed \subseteq Machines

StatusInit ==
  /\ row = [j \in Machines |-> [online |-> FALSE, is_blocked |-> FALSE]]
  /\ runtimes = [j \in Machines |-> {}] /\ versions = [j \in Machines |-> {}]
  /\ link = [s \in Sockets |-> Unconnected]
  /\ daemon = TRUE /\ forms = 0 /\ opened = NoForm /\ spoiled = {} /\ mixed = {} /\ page = NoPage
-----------------------------------------------------------------------------
Turns(s, at) == link' = [link EXCEPT ![s].at = at]

\* on_handshake up to _connected: a judge that is not blocked is let in.
LetIn(s, j, report) ==
  /\ daemon /\ link[s].at = "idle" /\ ~row[j].is_blocked
  /\ link' = [link EXCEPT ![s] = [at |-> "registered", judge |-> j, report |-> report, blocked |-> FALSE]]
  /\ IF Connections(j) = {} THEN mixed' = mixed \ {j} /\ spoiled' = spoiled \ {j}
     ELSE mixed' = mixed \cup {j} /\ UNCHANGED spoiled
  /\ UNCHANGED <<row, runtimes, versions, daemon, forms, opened, page>>

\* _connected: the row is read and the languages are set, ...
SetRuntimes(s) ==
  LET j == link[s].judge
  IN  /\ link[s].at = "registered"
      /\ link' = [link EXCEPT ![s].at = "set", ![s].blocked = row[j].is_blocked]
      /\ runtimes' = [runtimes EXCEPT ![j] = DOMAIN link[s].report]
      /\ UNCHANGED <<row, versions, daemon, forms, opened, spoiled, mixed, page>>

\* Broken: what was left is not deleted.
KeepVersions(s) ==
  /\ link[s].at = "set" /\ Turns(s, "deleted")
  /\ UNCHANGED <<row, runtimes, versions, daemon, forms, opened, spoiled, mixed, page>>

\* ... what a crash may have left is deleted, ...
DeleteVersions(s) ==
  /\ link[s].at = "set" /\ Turns(s, "deleted")
  /\ versions' = [versions EXCEPT ![link[s].judge] = {}]
  /\ UNCHANGED <<row, runtimes, daemon, forms, opened, spoiled, mixed, page>>

\* ... the versions are created for the languages that the judge has now: one
\* that another connection has set is a KeyError, which the handler survives, ...
CreateVersions(s) ==
  LET j == link[s].judge
      own == link[s].report
  IN  /\ link[s].at = "deleted"
      /\ IF runtimes[j] \subseteq DOMAIN own
         THEN /\ versions' = [versions EXCEPT ![j] = @ \cup {<<s, [l \in runtimes[j] |-> own[l]]>>}]
              /\ Turns(s, "created")
         ELSE Turns(s, "up") /\ UNCHANGED versions
      /\ UNCHANGED <<row, runtimes, daemon, forms, opened, spoiled, mixed, page>>

\* ... and the row is saved, the fields that others may have changed with it.
SaveJudge(s) ==
  /\ link[s].at = "created" /\ Turns(s, "up")
  /\ row' = [row EXCEPT ![link[s].judge] = [online |-> TRUE, is_blocked |-> link[s].blocked]]
  /\ UNCHANGED <<runtimes, versions, daemon, forms, opened, spoiled, mixed, page>>

\* _disconnected: the judge hung up, was silent, or was told to go.
GoOffline(s) ==
  /\ link[s].at = "up" /\ Turns(s, "leaving")
  /\ row' = [row EXCEPT ![link[s].judge].online = FALSE]
  /\ UNCHANGED <<runtimes, versions, daemon, forms, opened, spoiled, mixed, page>>

ClearVersions(s) ==
  /\ link[s].at = "leaving"
  /\ link' = [link EXCEPT ![s] = Unconnected]
  /\ versions' = [versions EXCEPT ![link[s].judge] = {}]
  /\ UNCHANGED <<row, runtimes, daemon, forms, opened, spoiled, mixed, page>>

\* The bridge is killed, ...
KillBridge ==
  /\ daemon /\ daemon' = FALSE
  /\ link' = [s \in Sockets |-> Unconnected]
  /\ UNCHANGED <<row, runtimes, versions, forms, opened, spoiled, mixed, page>>

\* ... and started: reset_judges.
StartBridge ==
  /\ ~daemon /\ daemon' = TRUE
  /\ row' = [j \in Machines |-> [row[j] EXCEPT !.online = FALSE]]
  /\ spoiled' = {} /\ mixed' = {}
  /\ UNCHANGED <<runtimes, versions, link, forms, opened, page>>

\* The form of a judge is posted: the row is read, ...
ReadForm(j) ==
  /\ opened = NoForm /\ forms < MaxForms /\ forms' = forms + 1
  /\ opened' = [judge |-> j, online |-> row[j].online]
  /\ UNCHANGED <<row, runtimes, versions, link, daemon, spoiled, mixed, page>>

\* ... and all of it is saved, the fields the form only shows too.
SaveForm(blocked) ==
  LET j == opened.judge
  IN  /\ opened # NoForm /\ opened' = NoForm
      /\ row' = [row EXCEPT ![j] = [online |-> opened.online, is_blocked |-> blocked]]
      /\ spoiled' = IF opened.online # row[j].online THEN spoiled \cup {j} ELSE spoiled
      /\ UNCHANGED <<runtimes, versions, link, daemon, forms, mixed, page>>
-----------------------------------------------------------------------------
(* The page of the versions.  matrix: what each judge that is online has.  *)

\* compare_version_list is equality of what they have.  Of those that are like
\* the i-th of a group, the first stands for all.
first_alike(matrix, group, i) ==
  CHOOSE k \in group : matrix[k] = matrix[i] /\ \A m \in group : matrix[m] = matrix[i] => k <= m
size(matrix, group, i) ==
  IF first_alike(matrix, group, i) = i THEN Cardinality({k \in group : matrix[k] = matrix[i]}) ELSE 0
rep(matrix, group) ==
  CHOOSE k \in group : \A m \in group :
    size(matrix, group, m) < size(matrix, group, k) \/ (size(matrix, group, m) = size(matrix, group, k) /\ k <= m)

\* The rows of the page, as pairs of a title and what is shown under it: one
\* for the most judges of a group, and one for each that differs from these.
\* A judge that is alone in its group is shown by its own name.
version_matrix(matrix) ==
  UNION {LET group == {j \in DOMAIN matrix : GroupOf[j] = g}
         IN  IF Cardinality(group) = 1 THEN {<<Title[j], matrix[j]>> : j \in group}
             ELSE {<<g, matrix[rep(matrix, group)]>>}
                    \cup {<<Title[j], matrix[j]>> :
                            j \in {i \in group : first_alike(matrix, group, i) # rep(matrix, group)}}
         : g \in {GroupOf[j] : j \in DOMAIN matrix}}

\* Broken: the judges that differ from the first of their group are shown.
version_matrix_of_first(matrix) ==
  UNION {LET group == {j \in DOMAIN matrix : GroupOf[j] = g}
             head == CHOOSE k \in group : \A m \in group : k <= m
         IN  {<<g, matrix[rep(matrix, group)]>>}
               \cup {<<Title[j], matrix[j]>> : j \in {i \in group : matrix[i] # matrix[head]}}
         : g \in {GroupOf[j] : j \in DOMAIN matrix}}

\* Visits share nothing and change nothing: they are looked at one by one, of
\* any rows there may be, before a judge moves.
VersionMatrix(matrix) ==
  /\ page' = [matrix |-> matrix, lines |-> version_matrix(matrix)]
  /\ UNCHANGED <<row, runtimes, versions, link, daemon, forms, opened, spoiled, mixed>>
-----------------------------------------------------------------------------
StatusNext ==
  /\ page = NoPage
  /\ \/ \E s \in Sockets :
          \/ \E j \in Followed, r \in Reports : LetIn(s, j, r)
          \/ SetRuntimes(s) \/ DeleteVersions(s) \/ CreateVersions(s) \/ SaveJudge(s)
          \/ GoOffline(s) \/ ClearVersions(s)
     \/ KillBridge \/ StartBridge
     \/ \E j \in Followed : ReadForm(j)
     \/ \E b \in BOOLEAN : SaveForm(b)
     \/ StatusInit /\ \E online \in SUBSET Machines \ {{}} : \E matrix \in [online -> Reports] : VersionMatrix(matrix)

StatusSpec == StatusInit /\ [][StatusNext]_svars
-----------------------------------------------------------------------------
\* Once the threads of a judge rest, it is online exactly if it is connected,
\* with the versions of that connection and none that an earlier one, or a
\* crash, left.  If two connections overlapped the one that ended last may have
\* taken the other off the page; but a judge that none is left of is off it.
RowsAreTrue ==
  daemon => \A j \in Machines \ spoiled : Quiet(j) =>
    /\ Connections(j) = {} => ~row[j].online
    /\ j \notin mixed => \A s \in Connections(j) :
         row[j].online /\ versions[j] = {<<s, link[s].report>>}

\* A reader finds what every judge has in the row with its name, or else in
\* that of its group.  (Two rows of the same title are one in the program: a
\* judge that has the name of a group hides what the others of it have.)
PageIsWhole ==
  LET titled(t) == {line \in page.lines : line[1] = t}
      online == DOMAIN page.matrix
  IN  \A j \in online :
        \/ titled(Title[j]) = {<<Title[j], page.matrix[j]>>}
        \/ titled(Title[j]) = {} /\ titled(GroupOf[j]) = {<<GroupOf[j], page.matrix[j]>>}
        \/ \E k \in online : Title[k] \in {GroupOf[m] : m \in online}

\* What the site says of the judges is so: in the rows of its database once
\* their threads rest, and in the way the page puts judges together.
StatusIsTrue == RowsAreTrue /\ PageIsWhole
=============================================================================
