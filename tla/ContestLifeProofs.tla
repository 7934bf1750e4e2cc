-------------------------- MODULE ContestLifeProofs --------------------------
(***************************************************************************)
(* Proofs about ContestLife, for any number of web processes, requests and *)
(* verdicts.  Each invariant is strengthened by what the requests and the  *)
(* administrator carry from one of their steps to the next.                *)
(***************************************************************************)
EXTENDS ContestLife, TLAPS

\* A process that serves a request holds copies of the row.
LEMMA BusyWorker ==
  ASSUME TypeOK, NEW w \in Workers, web[w].at # "idle"
  PROVE  web[w] \in Busy
BY DEF TypeOK, Idle

LEMMA JudgingAdmin ==
  ASSUME TypeOK, admin.at # "idle"
  PROVE  admin \in Judging
BY DEF TypeOK, Resting

\* Replacing what one process holds keeps the type of web.
Held(q) == q \in {Idle} \cup Busy /\ (q.at \in Picked => q.part \in Part)
WebOK == /\ web \in [Workers -> {Idle} \cup Busy]
         /\ \A w \in Workers : web[w].at \in Picked => web[w].part \in Part

LEMMA WebType ==
  ASSUME TypeOK, NEW w \in Workers, NEW q, Held(q), web' = [web EXCEPT ![w] = q]
  PROVE  WebOK'
<1>1. web' \in [Workers -> {Idle} \cup Busy]
  BY DEF TypeOK, Held
<1>2. ASSUME NEW v \in Workers PROVE web'[v].at \in Picked => web'[v].part \in Part
  BY DEF TypeOK, Held
<1> QED
  BY <1>1, <1>2 DEF WebOK

LEMMA NoRowType == NoRow \in Rows
BY DEF NoRow, Rows

\* The state stays well typed.
THEOREM LifeTypes == Spec => []TypeOK
<1>1. Init => TypeOK
  <2> SUFFICES ASSUME Init PROVE TypeOK
    OBVIOUS
  <2>1. web \in [Workers -> {Idle} \cup Busy] /\ \A w \in Workers : web[w].at = "idle"
    BY DEF Init, Idle
  <2>2. \A w \in Workers : web[w].at \in Picked => web[w].part \in Part
    BY <2>1 DEF Picked
  <2>3. row \in Rows /\ admin \in {Resting} \cup Judging
    BY NoRowType DEF Init
  <2>4. /\ parts \subseteq Part /\ over \subseteq Part /\ disqualified \subseteq Part
        /\ banned \in BOOLEAN /\ ended \in BOOLEAN /\ user_count \in Nat
        /\ owned \in Nat
    BY DEF Init
  <2>5. requests \in Nat /\ verdicts \in Nat /\ granted \in Nat /\ ledger \in Int
    BY SMT DEF Init
  <2>6. lost \in BOOLEAN /\ raced \in BOOLEAN /\ barred \in Part \cup {NoPart}
    BY Zenon DEF Init
  <2> QED
    BY <2>1, <2>2, <2>3, <2>4, <2>5, <2>6 DEF TypeOK
<1>2. TypeOK /\ [Next]_vars => TypeOK'
  <2> SUFFICES ASSUME TypeOK, [Next]_vars PROVE TypeOK'
    OBVIOUS
  <2>1. CASE ContestEnds
    BY <2>1 DEF ContestEnds, TypeOK, adminVars, history
  <2>2. ASSUME NEW p \in parts, WindowCloses(p) PROVE TypeOK'
    BY <2>2 DEF WindowCloses, TypeOK, adminVars, history
  <2>3. ASSUME NEW w \in Workers, NEW kind \in Kinds, Start(w, kind) PROVE TypeOK'
    <3>1. [at |-> "middleware", kind |-> kind, seen |-> row, mine |-> row, part |-> NoPart]
            \in Busy
      BY KindsAssumption DEF Busy, Steps, TypeOK
    <3>2. WebOK'
      BY <2>3, <3>1, WebType DEF Start, Held, Picked
    <3> QED
      BY <2>3, <3>2 DEF Start, TypeOK, WebOK, partVars, adminVars, history
  <2>4. ASSUME NEW w \in Workers, Middleware(w) PROVE TypeOK'
    <3>1. web[w] \in Busy
      BY <2>4, BusyWorker DEF Middleware
    <3>2. PICK q : /\ Held(q) /\ web' = [web EXCEPT ![w] = q]
                   /\ row' \in Rows /\ lost' \in BOOLEAN
      <4>1. CASE web[w].mine.current # NoPart /\ part_ended(web[w].mine.current)
        <5> DEFINE out == [web[w].mine EXCEPT !.current = NoPart]
                   q == [web[w] EXCEPT !.at = web[w].kind, !.mine = out, !.seen = out]
        <5>1. out \in Rows
          BY <3>1 DEF Busy, Rows
        <5>2. q \in Busy /\ Held(q)
          BY <3>1, <5>1 DEF Busy, Steps, AllKinds, Held, Picked
        <5>3. web' = [web EXCEPT ![w] = q] /\ row' = out
          BY <2>4, <4>1 DEF Middleware, Save
        <5>4. lost' \in BOOLEAN
          BY <2>4, <4>1 DEF Middleware, Save, TypeOK
        <5> QED
          BY <5>1, <5>2, <5>3, <5>4
      <4>2. CASE ~(web[w].mine.current # NoPart /\ part_ended(web[w].mine.current))
        <5>1. Held([web[w] EXCEPT !.at = web[w].kind])
          BY <3>1 DEF Busy, Steps, AllKinds, Held, Picked
        <5>2. web' = [web EXCEPT ![w] = [web[w] EXCEPT !.at = web[w].kind]]
              /\ UNCHANGED <<row, lost>>
          BY <2>4, <4>2 DEF Middleware, Goto
        <5> QED
          BY <5>1, <5>2 DEF TypeOK
      <4> QED
        BY <4>1, <4>2
    <3>3. WebOK'
      BY <3>2, WebType
    <3> QED
      BY <2>4, <3>2, <3>3 DEF Middleware, TypeOK, WebOK, partVars, adminVars
  <2>5. ASSUME NEW w \in Workers,
               JoinRefused(w) \/ JoinEnded(w) \/ ReadVirtual(w) \/ GetParticipation(w)
                 \/ RollRefused(w)
        PROVE TypeOK'
    <3>1. web[w] \in Busy
      BY <2>5, BusyWorker
         DEF JoinRefused, JoinEnded, ReadVirtual, GetParticipation, RollRefused, MayJoin
    <3>2. PICK q : Held(q) /\ web' = [web EXCEPT ![w] = q]
      <4>1. CASE JoinRefused(w) \/ RollRefused(w)
        BY <4>1 DEF JoinRefused, RollRefused, Done, Held, Idle, Picked
      <4>2. CASE JoinEnded(w)
        <5>1. Held([web[w] EXCEPT !.at = "virtual"])
          BY <3>1 DEF Busy, Steps, Held, Picked
        <5> QED
          BY <4>2, <5>1 DEF JoinEnded, Goto
      <4>3. CASE ReadVirtual(w)
        <5>1. PICK m \in parts \cup {0} :
                /\ \A p \in parts \cup {0} : p <= m
                /\ web' = [web EXCEPT ![w] = [web[w] EXCEPT !.at = "create_virtual", !.part = m + 1]]
          BY <4>3 DEF ReadVirtual, TypeOK
        <5>2. m + 1 \in Part
          BY DEF TypeOK, Part, SPECTATE
        <5>3. Held([web[w] EXCEPT !.at = "create_virtual", !.part = m + 1])
          BY <3>1, <5>2 DEF Busy, Steps, Held
        <5> QED
          BY <5>1, <5>3
      <4>4. CASE GetParticipation(w)
        <5>1. PICK p \in {SPECTATE, LIVE}, s \in {"enter", "create"} :
                web' = [web EXCEPT ![w] = [web[w] EXCEPT !.part = p, !.at = s]]
          BY <4>4 DEF GetParticipation, Wanted, TypeOK
        <5>2. p \in Part /\ s \in Steps
          BY DEF Steps, Part, SPECTATE, LIVE
        <5>3. Held([web[w] EXCEPT !.part = p, !.at = s])
          BY <3>1, <5>2 DEF Busy, Held
        <5> QED
          BY <5>1, <5>3
      <4> QED
        BY <2>5, <4>1, <4>2, <4>3, <4>4
    <3>3. WebOK'
      BY <3>2, WebType
    <3>4. NoJoinWrite
      BY <2>5 DEF JoinRefused, JoinEnded, ReadVirtual, GetParticipation, RollRefused
    <3> QED
      BY <3>3, <3>4 DEF NoJoinWrite, TypeOK, WebOK, partVars, adminVars, history
  <2>6. ASSUME NEW w \in Workers, CreateVirtual(w) \/ CreateParticipation(w) PROVE TypeOK'
    <3>1. web[w] \in Busy
      BY <2>6, BusyWorker DEF CreateVirtual, CreateParticipation
    <3>2. PICK q : Held(q) /\ web' = [web EXCEPT ![w] = q]
      <4>1. web[w].part \in Part
        BY <2>6 DEF CreateVirtual, CreateParticipation, TypeOK, Picked
      <4>2. Held([web[w] EXCEPT !.at = "enter"]) /\ Held([web[w] EXCEPT !.at = "virtual"])
        BY <3>1, <4>1 DEF Busy, Steps, Held, Picked
      <4>3. Held(Idle)
        BY DEF Held, Idle, Picked
      <4> QED
        BY <2>6, <4>2, <4>3 DEF CreateVirtual, CreateParticipation, Goto, Done
    <3>3. WebOK'
      BY <3>2, WebType
    <3>4. parts' \subseteq Part
      <4>1. web[w].part \in Part
        BY <2>6 DEF CreateVirtual, CreateParticipation, TypeOK, Picked
      <4> QED
        BY <2>6, <4>1 DEF CreateVirtual, CreateParticipation, TypeOK
    <3> QED
      BY <2>6, <3>3, <3>4 DEF CreateVirtual, CreateParticipation, TypeOK, WebOK, adminVars, history
  <2>7. ASSUME NEW w \in Workers, EnterContest(w) PROVE TypeOK'
    <3>1. web[w] \in Busy /\ web[w].part \in Part
      BY <2>7, BusyWorker DEF EnterContest, TypeOK, Picked
    <3>2. Held([web[w] EXCEPT !.at = "count"])
      BY <3>1 DEF Busy, Steps, Held, Picked
    <3>3. WebOK'
      BY <2>7, <3>2, WebType DEF EnterContest, Goto
    <3>4. [web[w].mine EXCEPT !.current = web[w].part] \in Rows
      BY <3>1 DEF Busy, Rows
    <3> QED
      BY <2>7, <3>3, <3>4 DEF EnterContest, Save, TypeOK, WebOK, partVars, adminVars
  <2>8. ASSUME NEW w \in Workers, UpdateUserCount(w) PROVE TypeOK'
    <3>1. WebOK'
      BY <2>8, WebType DEF UpdateUserCount, Done, Held, Idle, Picked
    <3> QED
      BY <2>8, <3>1 DEF UpdateUserCount, TypeOK, WebOK, adminVars, history
  <2>9. ASSUME NEW w \in Workers, LeaveContest(w) \/ PayRoll(w) \/ JoinOrganization(w)
        PROVE TypeOK'
    <3>1. web[w] \in Busy
      BY <2>9, BusyWorker DEF LeaveContest, PayRoll, JoinOrganization
    <3>2. WebOK'
      BY <2>9, WebType DEF LeaveContest, PayRoll, JoinOrganization, Done, Held, Idle, Picked
    <3>3. web[w].mine \in Rows /\ [web[w].mine EXCEPT !.current = NoPart] \in Rows
      BY <3>1 DEF Busy, Rows
    <3>4. web[w].mine.spent - web[w].seen.spent \in Int
      BY <3>1 DEF Busy, Rows
    <3>5. row' \in Rows /\ lost' \in BOOLEAN /\ ledger' \in Int
      <4>0. row \in Rows /\ lost \in BOOLEAN /\ ledger \in Int
        BY DEF TypeOK
      <4>1. CASE LeaveContest(w)
        BY <4>0, <4>1, <3>3 DEF LeaveContest, Save
      <4>2. CASE PayRoll(w)
        <5>1. web[w].mine.spent \in Int /\ web[w].seen.spent \in Int
          BY <3>1 DEF Busy, Rows
        <5>2. row' = web[w].mine /\ lost' \in BOOLEAN
          BY <4>0, <4>2 DEF PayRoll, Save
        <5>3. ledger' = ledger + web[w].mine.spent - web[w].seen.spent
          BY <4>2 DEF PayRoll
        <5>4. ledger' \in Int
          BY <4>0, <5>1, <5>3
        <5> QED
          BY <5>2, <5>4, <3>3
      <4>3. CASE JoinOrganization(w)
        BY <4>0, <4>3, <3>3 DEF JoinOrganization, Save
      <4> QED
        BY <2>9, <4>1, <4>2, <4>3
    <3>6. UNCHANGED <<parts, over, disqualified, banned, ended, user_count, owned, granted,
                      admin, verdicts, requests, barred, raced>>
      BY <2>9 DEF LeaveContest, PayRoll, JoinOrganization, partVars, adminVars
    <3> QED
      BY <3>2, <3>5, <3>6 DEF TypeOK, WebOK
  <2>10. ASSUME NEW w \in Workers, Obtain(w) PROVE TypeOK'
    <3>1. web[w] \in Busy
      BY <2>10, BusyWorker DEF Obtain
    <3>2. PICK r \in {0, RepeatRefund, Coupon} :
            /\ web' = [web EXCEPT ![w] = [web[w] EXCEPT !.at = "pay", !.mine =
                         [web[w].mine EXCEPT !.spent = web[w].mine.spent + RollCost - r]]]
            /\ owned' \in Nat
      <4> DEFINE paid(r) == [web EXCEPT ![w] = [web[w] EXCEPT !.at = "pay", !.mine =
                               [web[w].mine EXCEPT !.spent = web[w].mine.spent + RollCost - r]]]
      <4>1. \/ owned' = owned + 1
               /\ web' = paid(IF owned' > 1 THEN RepeatRefund ELSE 0)
            \/ owned' = owned /\ web' = paid(Coupon)
        BY <2>10, <3>1 DEF Obtain, TypeOK, Busy
      <4>2. owned' \in Nat
        BY <4>1 DEF TypeOK
      <4>3. \E r \in {0, RepeatRefund, Coupon} : web' = paid(r)
        <5> HIDE DEF paid
        <5> QED
          BY <4>1
      <4> QED
        BY <4>2, <4>3
    <3>3. [web[w].mine EXCEPT !.spent = web[w].mine.spent + RollCost - r] \in Rows
      BY <3>1 DEF Busy, Rows, RepeatRefund, Coupon, RollCost
    <3>4. Held([web[w] EXCEPT !.at = "pay", !.mine =
                  [web[w].mine EXCEPT !.spent = web[w].mine.spent + RollCost - r]])
      BY <3>1, <3>3 DEF Busy, Steps, Held, Picked
    <3>5. WebOK'
      BY <3>2, <3>4, WebType
    <3> QED
      BY <2>10, <3>2, <3>5 DEF Obtain, TypeOK, WebOK, partVars, adminVars, history
  <2>11. CASE GrantBonus
    <3> DEFINE less == row.spent - DAILY_SOLVE_BONUS_POINTS
    <3>0. row \in Rows /\ less \in Int
      BY DEF TypeOK, Rows, DAILY_SOLVE_BONUS_POINTS
    <3>1. row' \in Rows
      <4>1. row' = [row EXCEPT !.spent = less, !.bonus = TRUE]
        BY <2>11 DEF GrantBonus
      <4> HIDE DEF less
      <4> QED
        BY <3>0, <4>1 DEF Rows
    <3> QED
      BY <2>11, <3>1 DEF GrantBonus, TypeOK, DAILY_SOLVE_BONUS_POINTS, partVars, adminVars
  <2>12. ASSUME NEW p \in parts, Disqualify(p) \/ Undisqualify(p) PROVE TypeOK'
    <3>1. admin' \in Judging
      BY <2>12, NoRowType DEF Disqualify, Undisqualify, TypeOK, Judging
    <3> QED
      BY <2>12, <3>1 DEF Disqualify, Undisqualify, TypeOK, history
  <2>13. CASE Look \/ RemoveContest
    <3>1. admin \in Judging
      BY <2>13, JudgingAdmin DEF Look, RemoveContest
    <3>2. admin' \in Judging
      BY <2>13, <3>1 DEF Look, RemoveContest, Judging, TypeOK
    <3>3. [admin.seen EXCEPT !.current = NoPart] \in Rows
      BY <3>1 DEF Judging, Rows
    <3>4. row' \in Rows /\ lost' \in BOOLEAN
      BY <2>13, <3>3 DEF Look, RemoveContest, Save, TypeOK, history
    <3> QED
      BY <2>13, <3>2, <3>4 DEF Look, RemoveContest, TypeOK, partVars, history
  <2>14. CASE Ban \/ Unban
    <3>1. admin \in Judging
      BY <2>14, JudgingAdmin DEF Ban, Unban
    <3> QED
      BY <2>14, <3>1 DEF Ban, Unban, TypeOK, Judging
  <2>15. CASE UNCHANGED vars
    BY <2>15 DEF vars, TypeOK
  <2> QED
    BY <2>1, <2>2, <2>3, <2>4, <2>5, <2>6, <2>7, <2>8, <2>9, <2>10, <2>11, <2>12,
       <2>13, <2>14, <2>15 DEF Next, Step
<1> QED
  BY <1>1, <1>2, PTL DEF Spec
-----------------------------------------------------------------------------
(* The numbers of the virtual participations.                              *)

\* A number picked for a virtual participation follows one that exists, and
\* participations are never removed.
Numbered ==
  /\ VirtualsAreNumbered
  /\ \A w \in Workers :
       /\ web[w].at = "create_virtual" => web[w].part = 1 \/ web[w].part - 1 \in parts
       /\ web[w].at = "create" => web[w].part \in {LIVE, SPECTATE}

\* Nothing else than a change of web can disturb Numbered while the
\* participations stay or gain one that follows another.
LEMMA NumberedStep ==
  ASSUME TypeOK, Numbered, parts \subseteq parts',
         \A p \in parts' \ parts : p > 1 => p - 1 \in parts',
         NEW w \in Workers,
         \A v \in Workers \ {w} : web'[v] = web[v],
         web'[w].at = "create_virtual" => web'[w].part = 1 \/ web'[w].part - 1 \in parts',
         web'[w].at = "create" => web'[w].part \in {LIVE, SPECTATE}
  PROVE  Numbered'
BY DEF Numbered, VirtualsAreNumbered

\* The numbers of the virtual participations have no gap, whatever joins race.
THEOREM VirtualsNumbered == Spec => []VirtualsAreNumbered
<1>1. Init => Numbered
  BY DEF Init, Numbered, VirtualsAreNumbered, Idle
<1>2. TypeOK /\ Numbered /\ [Next]_vars => Numbered'
  <2> SUFFICES ASSUME TypeOK, Numbered, [Next]_vars PROVE Numbered'
    OBVIOUS
  <2>1. ASSUME UNCHANGED <<parts, web>> PROVE Numbered'
    BY <2>1 DEF Numbered, VirtualsAreNumbered
  <2>2. ASSUME NEW w \in Workers, CreateVirtual(w) PROVE Numbered'
    <3>1. web[w].part = 1 \/ web[w].part - 1 \in parts
      BY <2>2 DEF CreateVirtual, Numbered
    <3>2. web'[w].at \in {"enter", "virtual"} /\ \A v \in Workers \ {w} : web'[v] = web[v]
      BY <2>2, BusyWorker DEF CreateVirtual, Goto, TypeOK, Busy
    <3>3. parts' = parts \/ parts' = parts \cup {web[w].part}
      BY <2>2 DEF CreateVirtual
    <3> QED
      BY <3>1, <3>2, <3>3, NumberedStep
  <2>3. ASSUME NEW w \in Workers, CreateParticipation(w) PROVE Numbered'
    <3>1. web[w].part \in {LIVE, SPECTATE}
      BY <2>3 DEF CreateParticipation, Numbered
    <3>2. web'[w].at \in {"enter", "idle"} /\ \A v \in Workers \ {w} : web'[v] = web[v]
      BY <2>3, BusyWorker DEF CreateParticipation, Goto, Done, Idle, TypeOK, Busy
    <3>3. parts' = parts \/ parts' = parts \cup {web[w].part}
      BY <2>3 DEF CreateParticipation
    <3> QED
      BY <3>1, <3>2, <3>3, NumberedStep DEF LIVE, SPECTATE
  <2>4. ASSUME NEW w \in Workers, ReadVirtual(w) PROVE Numbered'
    <3>1. PICK m \in parts \cup {0} :
            /\ \A p \in parts \cup {0} : p <= m
            /\ web' = [web EXCEPT ![w].at = "create_virtual", ![w].part = m + 1]
      BY <2>4 DEF ReadVirtual
    <3>2. web[w] \in Busy
      BY <2>4, BusyWorker DEF ReadVirtual
    <3>3. web'[w].part = m + 1 /\ web'[w].at = "create_virtual"
      BY <3>1, <3>2 DEF TypeOK, Busy
    <3>4. \A v \in Workers \ {w} : web'[v] = web[v]
      BY <3>1 DEF TypeOK
    <3>5. m = 0 \/ m \in parts
      OBVIOUS
    <3>6. m \in Int
      BY DEF TypeOK, Part, SPECTATE
    <3>7. parts' = parts
      BY <2>4 DEF ReadVirtual, NoJoinWrite, partVars
    <3> QED
      BY <3>3, <3>4, <3>5, <3>6, <3>7, NumberedStep
  <2>5. ASSUME NEW w \in Workers, GetParticipation(w) PROVE Numbered'
    <3>1. PICK p \in {SPECTATE, LIVE}, s \in {"enter", "create"} :
            web' = [web EXCEPT ![w] = [web[w] EXCEPT !.part = p, !.at = s]]
      BY <2>5 DEF GetParticipation, Wanted, TypeOK
    <3>2. web[w] \in Busy
      BY <2>5, BusyWorker DEF GetParticipation, MayJoin
    <3>3. web'[w].part = p /\ web'[w].at = s /\ \A v \in Workers \ {w} : web'[v] = web[v]
      BY <3>1, <3>2 DEF TypeOK, Busy
    <3>4. parts' = parts
      BY <2>5 DEF GetParticipation, NoJoinWrite, partVars
    <3> QED
      BY <3>3, <3>4, NumberedStep
  <2>6. ASSUME NEW w \in Workers, parts' = parts,
               web'[w].at \notin {"create_virtual", "create"},
               \A v \in Workers \ {w} : web'[v] = web[v]
        PROVE Numbered'
    BY <2>6, NumberedStep
  <2>7. ASSUME NEW w \in Workers, NEW kind \in Kinds, Start(w, kind) PROVE Numbered'
    <3>1. web'[w].at = "middleware" /\ \A v \in Workers \ {w} : web'[v] = web[v]
      BY <2>7 DEF Start, TypeOK
    <3> QED
      BY <2>7, <2>6, <3>1 DEF Start, partVars
  <2>8. ASSUME NEW w \in Workers, Middleware(w) PROVE Numbered'
    <3>1. web[w] \in Busy
      BY <2>8, BusyWorker DEF Middleware
    <3>2. web'[w].at = web[w].kind /\ \A v \in Workers \ {w} : web'[v] = web[v]
      BY <2>8, <3>1 DEF Middleware, Goto, TypeOK, Busy
    <3> QED
      BY <2>8, <2>6, <3>1, <3>2 DEF Middleware, partVars, Busy, AllKinds
  <2>9. ASSUME NEW w \in Workers, JoinEnded(w) \/ EnterContest(w) \/ Obtain(w) PROVE Numbered'
    <3>1. web[w] \in Busy
      BY <2>9, BusyWorker DEF JoinEnded, EnterContest, Obtain, MayJoin
    <3>2. web'[w].at \in {"virtual", "count", "pay"} /\ \A v \in Workers \ {w} : web'[v] = web[v]
      BY <2>9, <3>1 DEF JoinEnded, EnterContest, Obtain, Goto, TypeOK, Busy
    <3>3. parts' = parts
      BY <2>9 DEF JoinEnded, EnterContest, Obtain, NoJoinWrite, partVars
    <3> QED
      BY <2>6, <3>2, <3>3
  <2>10. ASSUME NEW w \in Workers,
                JoinRefused(w) \/ UpdateUserCount(w) \/ LeaveContest(w) \/ RollRefused(w)
                  \/ PayRoll(w) \/ JoinOrganization(w)
         PROVE Numbered'
    <3>1. web' = [web EXCEPT ![w] = Idle] /\ parts' = parts
      BY <2>10 DEF JoinRefused, UpdateUserCount, LeaveContest, RollRefused, PayRoll,
                   JoinOrganization, Done, NoJoinWrite, partVars
    <3>2. web'[w].at = "idle" /\ \A v \in Workers \ {w} : web'[v] = web[v]
      BY <3>1 DEF TypeOK, Idle
    <3> QED
      BY <2>6, <3>1, <3>2
  <2>11. CASE ContestEnds \/ GrantBonus \/ Look \/ RemoveContest \/ Ban \/ Unban
    BY <2>1, <2>11 DEF ContestEnds, GrantBonus, Look, RemoveContest, Ban, Unban, partVars
  <2>12. ASSUME NEW p \in parts, WindowCloses(p) \/ Disqualify(p) \/ Undisqualify(p)
         PROVE Numbered'
    BY <2>1, <2>12 DEF WindowCloses, Disqualify, Undisqualify
  <2>13. CASE UNCHANGED vars
    BY <2>1, <2>13 DEF vars
  <2> QED
    BY <2>2, <2>3, <2>4, <2>5, <2>7, <2>8, <2>9, <2>10, <2>11, <2>12, <2>13 DEF Next, Step
<1>3. Numbered => VirtualsAreNumbered
  BY DEF Numbered
<1> QED
  BY <1>1, <1>2, <1>3, LifeTypes, PTL DEF Spec
-----------------------------------------------------------------------------
(* What a request carries is what it loaded, but for a roll about to pay.  *)

CopyOf(q) ==
  /\ q.mine.bonus = q.seen.bonus
  /\ q.mine.current = q.seen.current
  /\ q.at # "pay" => q.mine.spent = q.seen.spent
  /\ q.at = "pay" => q.mine.spent <= Points

Copies == \A w \in Workers : CopyOf(web[w])

\* A step of one process keeps Copies when what it then holds is a copy.
LEMMA CopiesStep ==
  ASSUME TypeOK, Copies, NEW w \in Workers, NEW q, CopyOf(q), web' = [web EXCEPT ![w] = q]
  PROVE  Copies'
<1>1. ASSUME NEW v \in Workers PROVE CopyOf(web'[v])
  <2>1. CASE v = w
    BY <2>1 DEF TypeOK
  <2>2. CASE v # w
    BY <2>2 DEF TypeOK, Copies
  <2> QED
    BY <2>1, <2>2
<1> QED
  BY <1>1 DEF Copies, CopyOf

\* Moving on to a step other than paying keeps a copy a copy.
LEMMA MovesOn ==
  ASSUME NEW q \in Busy, CopyOf(q), q.at # "pay", NEW s \in Steps \ {"pay"},
         NEW p \in Part \cup {NoPart}
  PROVE  CopyOf([q EXCEPT !.at = s]) /\ CopyOf([q EXCEPT !.at = s, !.part = p])
BY DEF CopyOf, Busy

LEMMA CopiesInvariant == Spec => []Copies
<1>1. Init => Copies
  <2>1. CopyOf(Idle)
    BY DEF CopyOf, Idle, NoRow
  <2> QED
    BY <2>1 DEF Init, Copies
<1>2. TypeOK /\ Copies /\ [Next]_vars => Copies'
  <2> SUFFICES ASSUME TypeOK, Copies, [Next]_vars PROVE Copies'
    OBVIOUS
  <2>1. ASSUME web' = web PROVE Copies'
    BY <2>1 DEF Copies, CopyOf
  <2>2. CopyOf(Idle)
    BY DEF CopyOf, Idle, NoRow
  <2>3. ASSUME NEW w \in Workers, Done(w) PROVE Copies'
    BY <2>2, <2>3, CopiesStep DEF Done
  <2>4. ASSUME NEW w \in Workers, NEW kind \in Kinds, Start(w, kind) PROVE Copies'
    <3> DEFINE q == [at |-> "middleware", kind |-> kind, seen |-> row, mine |-> row,
                     part |-> NoPart]
    <3>1. CopyOf(q)
      BY DEF CopyOf
    <3> HIDE DEF q
    <3>2. web' = [web EXCEPT ![w] = q]
      BY <2>4 DEF Start, q
    <3> QED
      BY <3>1, <3>2, CopiesStep
  <2>5. ASSUME NEW w \in Workers, Middleware(w) PROVE Copies'
    <3>1. web[w] \in Busy /\ CopyOf(web[w]) /\ web[w].at # "pay"
          /\ web[w].kind \in Steps \ {"pay"}
      BY <2>5, BusyWorker DEF Middleware, Copies, Busy, AllKinds, Steps
    <3>2. CASE web[w].mine.current # NoPart /\ part_ended(web[w].mine.current)
      <4> DEFINE out == [web[w].mine EXCEPT !.current = NoPart]
                 q == [web[w] EXCEPT !.at = web[w].kind, !.mine = out, !.seen = out]
      <4>1. CopyOf(q)
        BY <3>1 DEF CopyOf, Busy
      <4>2. web' = [web EXCEPT ![w] = q]
        BY <2>5, <3>2 DEF Middleware
      <4> HIDE DEF q
      <4> QED
        BY <4>1, <4>2, CopiesStep
    <3>3. CASE ~(web[w].mine.current # NoPart /\ part_ended(web[w].mine.current))
      <4>1. web' = [web EXCEPT ![w] = [web[w] EXCEPT !.at = web[w].kind]]
        BY <2>5, <3>3 DEF Middleware, Goto
      <4> QED
        BY <3>1, <4>1, MovesOn, CopiesStep DEF Busy
    <3> QED
      BY <3>2, <3>3
  <2>6. ASSUME NEW w \in Workers,
               JoinEnded(w) \/ ReadVirtual(w) \/ CreateVirtual(w) \/ GetParticipation(w)
                 \/ CreateParticipation(w) \/ EnterContest(w)
        PROVE Copies'
    <3>1. web[w] \in Busy /\ CopyOf(web[w]) /\ web[w].at # "pay"
      BY <2>6, BusyWorker DEF JoinEnded, ReadVirtual, CreateVirtual, GetParticipation,
                              CreateParticipation, EnterContest, MayJoin, Copies
    <3>2. CASE Done(w)
      BY <2>3, <3>2
    <3>3. ASSUME NEW s \in Steps \ {"pay"}, Goto(w, s) PROVE Copies'
      <4>1. web' = [web EXCEPT ![w] = [web[w] EXCEPT !.at = s]]
        BY <3>3 DEF Goto
      <4>2. CopyOf([web[w] EXCEPT !.at = s])
        BY <3>1, MovesOn
      <4> QED
        BY <4>1, <4>2, CopiesStep
    <3>4. ASSUME NEW s \in Steps \ {"pay"}, NEW p \in Part,
                 web' = [web EXCEPT ![w].at = s, ![w].part = p]
          PROVE Copies'
      <4>1. web' = [web EXCEPT ![w] = [web[w] EXCEPT !.at = s, !.part = p]]
        BY <3>4 DEF TypeOK
      <4>2. CopyOf([web[w] EXCEPT !.at = s, !.part = p])
        BY <3>1, MovesOn
      <4> QED
        BY <4>1, <4>2, CopiesStep
    <3>5. CASE JoinEnded(w) \/ CreateVirtual(w) \/ CreateParticipation(w) \/ EnterContest(w)
      BY <3>2, <3>3, <3>5
         DEF JoinEnded, CreateVirtual, CreateParticipation, EnterContest, Steps
    <3>6. CASE ReadVirtual(w)
      <4>1. PICK m \in parts \cup {0} :
              /\ \A p \in parts \cup {0} : p <= m
              /\ web' = [web EXCEPT ![w].at = "create_virtual", ![w].part = m + 1]
        BY <3>6 DEF ReadVirtual
      <4>2. m + 1 \in Part
        BY <4>1 DEF TypeOK, Part, SPECTATE
      <4> QED
        BY <3>4, <4>1, <4>2 DEF Steps
    <3>7. CASE GetParticipation(w)
      <4>1. PICK p \in {SPECTATE, LIVE}, s \in {"enter", "create"} :
              web' = [web EXCEPT ![w].at = s, ![w].part = p]
        BY <3>7 DEF GetParticipation, Wanted, TypeOK
      <4>2. p \in Part
        BY DEF Part, SPECTATE, LIVE
      <4> QED
        BY <3>4, <4>1, <4>2 DEF Steps
    <3> QED
      BY <2>6, <3>5, <3>6, <3>7
  <2>7. ASSUME NEW w \in Workers, Obtain(w) PROVE Copies'
    <3>1. web[w] \in Busy /\ CopyOf(web[w]) /\ Points - web[w].mine.spent >= RollCost
      BY <2>7, BusyWorker DEF Obtain, Copies
    <3>2. PICK r \in {0, RepeatRefund, Coupon} :
            web' = [web EXCEPT ![w].at = "pay", ![w].mine.spent = @ + RollCost - r]
      BY <2>7 DEF Obtain
    <3> DEFINE q == [web[w] EXCEPT !.at = "pay", !.mine =
                       [web[w].mine EXCEPT !.spent = web[w].mine.spent + RollCost - r]]
    <3>3. web[w].mine.spent \in Int /\ r \in 0 .. 10
      BY <3>1 DEF Busy, Rows, RepeatRefund, Coupon
    <3>4. web[w].mine.spent + RollCost - r <= Points
      BY <3>1, <3>3, NumbersAssumption DEF RollCost
    <3>5. CopyOf(q)
      BY <3>1, <3>4 DEF CopyOf, Busy, Rows
    <3>6. web' = [web EXCEPT ![w] = q]
      BY <3>1, <3>2 DEF TypeOK, Busy
    <3> HIDE DEF q
    <3> QED
      BY <3>5, <3>6, CopiesStep
  <2>8. ASSUME NEW w \in Workers, UpdateUserCount(w) PROVE Copies'
    BY <2>3, <2>8 DEF UpdateUserCount
  <2>9. ASSUME NEW w \in Workers,
               JoinRefused(w) \/ LeaveContest(w) \/ RollRefused(w) \/ PayRoll(w)
                 \/ JoinOrganization(w)
        PROVE Copies'
    BY <2>3, <2>9 DEF JoinRefused, LeaveContest, RollRefused, PayRoll, JoinOrganization
  <2>10. CASE ContestEnds \/ GrantBonus \/ Look \/ RemoveContest \/ Ban \/ Unban
    BY <2>1, <2>10 DEF ContestEnds, GrantBonus, Look, RemoveContest, Ban, Unban
  <2>11. ASSUME NEW p \in parts, WindowCloses(p) \/ Disqualify(p) \/ Undisqualify(p)
         PROVE Copies'
    BY <2>1, <2>11 DEF WindowCloses, Disqualify, Undisqualify
  <2>12. CASE UNCHANGED vars
    BY <2>1, <2>12 DEF vars
  <2> QED
    BY <2>4, <2>5, <2>6, <2>7, <2>8, <2>9, <2>10, <2>11, <2>12 DEF Next, Step
<1> QED
  BY <1>1, <1>2, LifeTypes, PTL DEF Spec
-----------------------------------------------------------------------------
(* The ledger and the ban.                                                 *)

\* What can happen to the row when no save overwrote a change: it keeps its
\* money and its bonus, and the contest it is in is kept or left; a roll
\* pays; the bonus is granted; or a join enters its contest.
Kept == /\ row'.spent = row.spent /\ row'.bonus = row.bonus
        /\ UNCHANGED <<granted, ledger>>
StaysOrLeaves == row'.current \in {row.current, NoPart}

Carries(w) == /\ web[w] \in Busy /\ CopyOf(web[w])
              /\ row \in Rows

LEMMA Carried ==
  ASSUME TypeOK, Copies, NEW w \in Workers, web[w].at # "idle"
  PROVE  Carries(w)
BY BusyWorker DEF Carries, Copies, TypeOK

\* The invariant behind LedgerHolds: until the bonus is granted, none was.
Ledger ==
  ~lost => /\ row.spent = ledger /\ row.spent <= Points
           /\ granted <= 1
           /\ ~row.bonus => granted = 0

LEMMA KeptLedger ==
  ASSUME Ledger, Kept, lost' \/ ~lost
  PROVE  Ledger'
BY DEF Ledger, Kept

\* Every step that is neither a roll's payment nor the bonus keeps the money.
LEMMA MoneyKept ==
  ASSUME TypeOK, Copies, Next, ~GrantBonus, \A w \in Workers : ~PayRoll(w), ~lost'
  PROVE  Kept /\ ~lost
<1>1. ASSUME UNCHANGED <<row, granted, ledger, lost>> PROVE Kept /\ ~lost
  BY <1>1 DEF Kept
<1>2. ASSUME NEW p \in parts, WindowCloses(p) \/ Disqualify(p) \/ Undisqualify(p)
      PROVE Kept /\ ~lost
  BY <1>1, <1>2 DEF WindowCloses, Disqualify, Undisqualify, history
<1>3. CASE ContestEnds \/ Look \/ Ban \/ Unban
  BY <1>1, <1>3 DEF ContestEnds, Look, Ban, Unban, history
<1>4. CASE RemoveContest
  <2>1. row = admin.seen /\ ~lost
    BY <1>4 DEF RemoveContest, Save
  <2>2. row' = [row EXCEPT !.current = NoPart]
    BY <1>4, <2>1 DEF RemoveContest, Save
  <2> QED
    BY <1>4, <2>1, <2>2 DEF RemoveContest, Kept, TypeOK, Rows
<1>5. ASSUME NEW w \in Workers, NEW kind \in Kinds, Start(w, kind) PROVE Kept /\ ~lost
  BY <1>1, <1>5 DEF Start, history
<1>6. ASSUME NEW w \in Workers,
             JoinRefused(w) \/ JoinEnded(w) \/ ReadVirtual(w) \/ CreateVirtual(w)
               \/ GetParticipation(w) \/ CreateParticipation(w) \/ UpdateUserCount(w)
               \/ RollRefused(w) \/ Obtain(w)
      PROVE Kept /\ ~lost
  BY <1>1, <1>6 DEF JoinRefused, JoinEnded, ReadVirtual, CreateVirtual, GetParticipation,
     CreateParticipation, UpdateUserCount, RollRefused, Obtain, NoJoinWrite, history
<1>7. ASSUME NEW w \in Workers,
             EnterContest(w) \/ LeaveContest(w) \/ JoinOrganization(w) \/ Middleware(w)
      PROVE Kept /\ ~lost
  <2>1. Carries(w) /\ web[w].at # "pay"
    BY <1>7, Carried DEF EnterContest, LeaveContest, JoinOrganization, Middleware
  <2>2. UNCHANGED <<granted, ledger>>
    BY <1>7 DEF EnterContest, LeaveContest, JoinOrganization, Middleware
  <2>3. UNCHANGED <<row, lost>>
        \/ \E c \in Part \cup {NoPart} : Save(web[w].seen, [web[w].mine EXCEPT !.current = c])
    <3>1. web[w].mine = [web[w].mine EXCEPT !.current = web[w].mine.current]
          /\ web[w].mine.current \in Part \cup {NoPart}
      BY <2>1 DEF Carries, Busy, Rows
    <3>2. EnterContest(w) => web[w].part \in Part
      BY DEF EnterContest, TypeOK, Picked
    <3> QED
      BY <1>7, <3>1, <3>2 DEF EnterContest, LeaveContest, JoinOrganization, Middleware
  <2>4. CASE UNCHANGED <<row, lost>>
    BY <2>2, <2>4 DEF Kept
  <2>5. ASSUME NEW c, Save(web[w].seen, [web[w].mine EXCEPT !.current = c])
        PROVE Kept /\ ~lost
    BY <2>1, <2>2, <2>5 DEF Save, Kept, Carries, CopyOf, Busy, Rows
  <2> QED
    BY <2>3, <2>4, <2>5
<1> QED
  BY <1>2, <1>3, <1>4, <1>5, <1>6, <1>7 DEF Next, Step

\* While no save is lost, the money spent is what rolls cost less the
\* bonuses, within the balance, and one bonus at most is granted.
THEOREM LedgerIsRight == Spec => []LedgerHolds
<1>1. Init => Ledger
  BY NumbersAssumption DEF Init, Ledger, NoRow
<1>2. TypeOK /\ Copies /\ Ledger /\ [Next]_vars => Ledger'
  <2> SUFFICES ASSUME TypeOK, Copies, Ledger, Next PROVE Ledger'
    BY DEF Ledger, vars
  <2>1. CASE GrantBonus
    <3>1. row' = [row EXCEPT !.spent = row.spent - 10, !.bonus = TRUE] /\ row \in Rows
      BY <2>1 DEF GrantBonus, DAILY_SOLVE_BONUS_POINTS, TypeOK
    <3>2. row'.spent = row.spent - 10 /\ row'.bonus = TRUE /\ row.spent \in Int
      BY <3>1 DEF Rows
    <3>3. ledger' = ledger - 10 /\ granted' = granted + 1 /\ lost' = lost /\ ~row.bonus
      BY <2>1 DEF GrantBonus, DAILY_SOLVE_BONUS_POINTS
    <3> QED
      BY <3>2, <3>3, NumbersAssumption DEF Ledger, TypeOK
  <2>2. ASSUME NEW w \in Workers, PayRoll(w) PROVE Ledger'
    <3> SUFFICES ASSUME ~lost' PROVE Ledger'
      BY DEF Ledger
    <3>1. Carries(w) /\ web[w].at = "pay"
      BY <2>2, Carried DEF PayRoll
    <3>2. row' = web[w].mine /\ row = web[w].seen /\ ~lost
      BY <2>2 DEF PayRoll, Save
    <3>3. ledger' = ledger + web[w].mine.spent - web[w].seen.spent /\ granted' = granted
      BY <2>2 DEF PayRoll
    <3>4. web[w].mine.spent \in Int /\ web[w].seen.spent \in Int
      BY <3>1 DEF Carries, Busy, Rows
    <3> QED
      BY <3>1, <3>2, <3>3, <3>4 DEF Ledger, Carries, CopyOf
  <2>3. CASE ~GrantBonus /\ \A w \in Workers : ~PayRoll(w)
    <3>1. CASE lost'
      BY <3>1 DEF Ledger
    <3>2. CASE ~lost'
      BY <2>3, <3>2, MoneyKept, KeptLedger
    <3> QED
      BY <3>1, <3>2
  <2> QED
    BY <2>1, <2>2, <2>3
<1>3. Ledger => LedgerHolds
  BY DEF Ledger, LedgerHolds
<1> QED
  BY <1>1, <1>2, <1>3, LifeTypes, CopiesInvariant, PTL DEF Spec
-----------------------------------------------------------------------------
\* The invariant behind BarredIsOutside: no join that passed its check before
\* the ban is still on its way, and between its two steps the
\* disqualification has taken the user out.
Past(w) == web[w].at \in PastTheCheck
Outside ==
  ~lost /\ ~raced => /\ admin.at = "ban" => row.current # admin.part
                     /\ banned => row.current # barred
Barrier ==
  /\ banned => barred \in Part
  /\ banned /\ ~raced => \A w \in Workers : ~Past(w)
  /\ Outside

\* A step that leaves the row's contest or takes the user out of it, lets no
\* process past the check of a ban, and leaves the decisions alone.
LEMMA BarrierStep ==
  ASSUME TypeOK, Barrier, lost' \/ (~lost /\ StaysOrLeaves),
         UNCHANGED <<banned, barred, raced, admin>>,
         \A w \in Workers : banned /\ web'[w].at \in PastTheCheck => Past(w)
  PROVE  Barrier'
<1>1. admin.at = "ban" => admin.part \in Part
  BY DEF TypeOK, Judging, Resting
<1>2. NoPart \notin Part
  BY NoPartAssumption DEF Part, SPECTATE
<1> QED
  BY <1>1, <1>2 DEF Barrier, Outside, StaysOrLeaves, Past

\* After the ban the user is outside the contest, unless a join or a save raced.
THEOREM BanHolds == Spec => []BarredIsOutside
<1>1. Init => Barrier
  BY DEF Init, Barrier, Outside, Resting
<1>2. TypeOK /\ Copies /\ Barrier /\ [Next]_vars => Barrier'
  <2> SUFFICES ASSUME TypeOK, Copies, Barrier, [Next]_vars PROVE Barrier'
    OBVIOUS
  <2>1. ASSUME UNCHANGED <<row, lost, web, banned, barred, raced, admin>> PROVE Barrier'
    BY <2>1 DEF Barrier, Outside, Past
  <2>2. ASSUME NEW w \in Workers, ~banned \/ web'[w].at \notin PastTheCheck,
               \A v \in Workers \ {w} : web'[v] = web[v],
               UNCHANGED <<row, lost, banned, barred, raced, admin>>
        PROVE Barrier'
    BY <2>2, BarrierStep DEF StaysOrLeaves, Past
  <2>3. ASSUME NEW w \in Workers, NEW kind \in Kinds, Start(w, kind) PROVE Barrier'
    <3>1. web'[w].at = "middleware" /\ \A v \in Workers \ {w} : web'[v] = web[v]
      BY <2>3 DEF Start, TypeOK
    <3>2. web'[w].at \notin PastTheCheck
      BY <3>1 DEF PastTheCheck, Picked
    <3> QED
      BY <2>2, <2>3, <3>1, <3>2 DEF Start, partVars, adminVars, history
  <2>4. ASSUME NEW w \in Workers, JoinEnded(w) \/ GetParticipation(w) PROVE Barrier'
    <3>1. \A v \in Workers \ {w} : web'[v] = web[v]
      BY <2>4 DEF JoinEnded, GetParticipation, Goto, TypeOK
    <3>2. ~banned
      BY <2>4 DEF JoinEnded, GetParticipation, MayJoin
    <3> QED
      BY <2>2, <2>4, <3>1, <3>2
         DEF JoinEnded, GetParticipation, NoJoinWrite, partVars, adminVars, history
  <2>5. ASSUME NEW w \in Workers, ReadVirtual(w) \/ CreateVirtual(w) \/ CreateParticipation(w)
        PROVE Barrier'
    <3>1. Past(w)
      BY <2>5 DEF ReadVirtual, CreateVirtual, CreateParticipation, Past, PastTheCheck, Picked
    <3>2. \A v \in Workers \ {w} : web'[v] = web[v]
      BY <2>5 DEF ReadVirtual, CreateVirtual, CreateParticipation, Goto, Done, TypeOK
    <3>3. UNCHANGED <<row, lost, banned, barred, raced, admin>>
      BY <2>5 DEF ReadVirtual, CreateVirtual, CreateParticipation, NoJoinWrite, partVars,
                  adminVars, history
    <3> QED
      BY <3>1, <3>2, <3>3, BarrierStep DEF StaysOrLeaves, Past
  <2>6. ASSUME NEW w \in Workers,
               JoinRefused(w) \/ RollRefused(w) \/ UpdateUserCount(w)
        PROVE Barrier'
    <3>1. web' = [web EXCEPT ![w] = Idle]
      BY <2>6 DEF JoinRefused, RollRefused, UpdateUserCount, Done
    <3>2. web'[w].at \notin PastTheCheck /\ \A v \in Workers \ {w} : web'[v] = web[v]
      BY <3>1 DEF TypeOK, Idle, PastTheCheck, Picked
    <3>3. UNCHANGED <<row, lost, banned, barred, raced, admin>>
      BY <2>6 DEF JoinRefused, RollRefused, UpdateUserCount, NoJoinWrite, partVars,
                  adminVars, history
    <3> QED
      BY <2>2, <3>2, <3>3
  <2>7. ASSUME NEW w \in Workers, Obtain(w) PROVE Barrier'
    <3>1. web'[w].at = "pay" /\ \A v \in Workers \ {w} : web'[v] = web[v]
      <4>1. web[w] \in Busy
        BY <2>7, BusyWorker DEF Obtain
      <4> QED
        BY <2>7, <4>1 DEF Obtain, TypeOK, Busy
    <3>2. web'[w].at \notin PastTheCheck
      BY <3>1 DEF PastTheCheck, Picked
    <3> QED
      BY <2>2, <2>7, <3>1, <3>2 DEF Obtain, partVars, adminVars, history
  <2>8. ASSUME NEW w \in Workers,
               LeaveContest(w) \/ JoinOrganization(w) \/ PayRoll(w) \/ Middleware(w)
        PROVE Barrier'
    <3>1. Carries(w)
      BY <2>8, Carried DEF LeaveContest, JoinOrganization, PayRoll, Middleware
    <3>2. lost' \/ (~lost /\ StaysOrLeaves)
      <4>1. UNCHANGED <<row, lost>>
            \/ Save(web[w].seen, web[w].mine)
            \/ Save(web[w].seen, [web[w].mine EXCEPT !.current = NoPart])
        BY <2>8 DEF LeaveContest, JoinOrganization, PayRoll, Middleware
      <4>2. /\ web[w].mine \in Rows /\ web[w].mine.current = web[w].seen.current
            /\ [web[w].mine EXCEPT !.current = NoPart].current = NoPart
        BY <3>1 DEF Carries, CopyOf, Busy, Rows
      <4>3. ASSUME NEW new, Save(web[w].seen, new), ~lost'
            PROVE row' = new /\ row = web[w].seen /\ ~lost
        BY <4>3 DEF Save
      <4>4. CASE UNCHANGED <<row, lost>>
        BY <4>4 DEF StaysOrLeaves
      <4>5. CASE ~lost' /\ Save(web[w].seen, web[w].mine)
        BY <4>2, <4>3, <4>5 DEF StaysOrLeaves
      <4>6. CASE ~lost' /\ Save(web[w].seen, [web[w].mine EXCEPT !.current = NoPart])
        BY <4>2, <4>3, <4>6 DEF StaysOrLeaves
      <4>7. CASE lost'
        BY <4>7
      <4> QED
        BY <4>1, <4>4, <4>5, <4>6, <4>7 DEF StaysOrLeaves
    <3>3. web'[w].at \notin PastTheCheck /\ \A v \in Workers \ {w} : web'[v] = web[v]
      <4>1. CASE Middleware(w)
        <5>1. web'[w].at = web[w].kind /\ \A v \in Workers \ {w} : web'[v] = web[v]
          BY <3>1, <4>1 DEF Middleware, Goto, Carries, Busy, TypeOK
        <5> QED
          BY <3>1, <5>1 DEF Carries, Busy, AllKinds, PastTheCheck, Picked
      <4>2. CASE Done(w)
        BY <4>2 DEF Done, TypeOK, Idle, PastTheCheck, Picked
      <4> QED
        BY <2>8, <4>1, <4>2 DEF LeaveContest, JoinOrganization, PayRoll
    <3>4. UNCHANGED <<banned, barred, raced, admin>>
      BY <2>8 DEF LeaveContest, JoinOrganization, PayRoll, Middleware, partVars, adminVars
    <3> QED
      BY <3>2, <3>3, <3>4, BarrierStep DEF Past
  <2>9. ASSUME NEW w \in Workers, EnterContest(w) PROVE Barrier'
    <3>1. web[w] \in Busy /\ Past(w)
      BY <2>9, BusyWorker DEF EnterContest, Past, PastTheCheck, Picked
    <3>2. web'[w].at = "count" /\ \A v \in Workers \ {w} : web'[v] = web[v]
      BY <2>9, <3>1 DEF EnterContest, Goto, TypeOK, Busy
    <3>3. UNCHANGED <<banned, barred, admin>> /\ raced' = (raced \/ admin.at \in {"save", "ban"})
      BY <2>9 DEF EnterContest, partVars, adminVars
    <3>4. banned => raced
      BY <3>1 DEF Barrier
    <3>5. (banned /\ ~raced => \A v \in Workers : ~Past(v))'
      BY <3>3, <3>4
    <3>6. Outside'
      BY <3>3, <3>4 DEF Outside
    <3> QED
      BY <3>3, <3>5, <3>6 DEF Barrier
  <2>10. CASE ContestEnds
    BY <2>1, <2>10 DEF ContestEnds, adminVars, history
  <2>11. CASE GrantBonus
    <3>1. row'.current = row.current
      BY <2>11 DEF GrantBonus, TypeOK, Rows
    <3> QED
      BY <2>11, <3>1, BarrierStep DEF GrantBonus, StaysOrLeaves, Past, partVars, adminVars
  <2>12. ASSUME NEW p \in parts, WindowCloses(p) PROVE Barrier'
    BY <2>1, <2>12 DEF WindowCloses, adminVars, history
  <2>13. ASSUME NEW p \in parts, Disqualify(p) \/ Undisqualify(p) PROVE Barrier'
    <3>1. admin'.at \in {"look", "unban"}
          /\ UNCHANGED <<row, lost, web, banned, barred, raced>>
      BY <2>13 DEF Disqualify, Undisqualify, history
    <3> QED
      BY <3>1 DEF Barrier, Outside, Past
  <2>14. CASE Look
    <3>1. admin \in Judging /\ UNCHANGED <<row, lost, web, banned, barred, raced>>
      BY <2>14, JudgingAdmin DEF Look, partVars, history
    <3>2. admin'.part = admin.part /\ (admin'.at = "ban" => row.current # admin.part)
      BY <2>14, <3>1 DEF Look, Judging
    <3> QED
      BY <3>1, <3>2 DEF Barrier, Outside, Past
  <2>15. CASE RemoveContest
    <3>1. admin \in Judging /\ UNCHANGED <<web, banned, barred, raced>>
      BY <2>15, JudgingAdmin DEF RemoveContest, partVars
    <3>2. admin'.part = admin.part /\ admin.part \in Part /\ admin.seen \in Rows
      BY <2>15, <3>1 DEF RemoveContest, Judging
    <3>3. row'.current = NoPart /\ (lost' \/ ~lost)
      BY <2>15, <3>2 DEF RemoveContest, Save, Rows
    <3>4. NoPart \notin Part
      BY NoPartAssumption DEF Part, SPECTATE
    <3> QED
      BY <3>1, <3>2, <3>3, <3>4 DEF Barrier, Outside, Past
  <2>16. CASE Ban
    <3>1. admin.at = "ban" /\ admin \in Judging
      BY <2>16, JudgingAdmin DEF Ban
    <3>2. /\ barred' = admin.part /\ admin'.at = "idle"
          /\ UNCHANGED <<row, lost, web>>
          /\ raced' = (raced \/ \E w \in Workers : web[w].at \in PastTheCheck)
      BY <2>16 DEF Ban, Resting
    <3>3. barred' \in Part
      BY <3>1, <3>2 DEF Judging
    <3>4. Outside'
      BY <3>1, <3>2 DEF Barrier, Outside
    <3> QED
      BY <3>2, <3>3, <3>4 DEF Barrier, Past
  <2>17. CASE Unban
    BY <2>17 DEF Unban, Barrier, Outside, Resting
  <2>18. CASE UNCHANGED vars
    BY <2>1, <2>18 DEF vars
  <2> QED
    BY <2>3, <2>4, <2>5, <2>6, <2>7, <2>8, <2>9, <2>10, <2>11, <2>12, <2>13, <2>14,
       <2>15, <2>16, <2>17, <2>18 DEF Next, Step
<1>3. Barrier => BarredIsOutside
  BY DEF Barrier, Outside, BarredIsOutside
<1> QED
  BY <1>1, <1>2, <1>3, LifeTypes, CopiesInvariant, PTL DEF Spec
=============================================================================
