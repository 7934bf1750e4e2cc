----------------------------- MODULE ContestLife -----------------------------
(***************************************************************************)
(* One user's profile row, and the participations of that user in one      *)
(* contest.  Several web processes serve the user's requests at once.  A   *)
(* request loads the row in the middleware and, when it saves, writes back *)
(* every column it loaded: the contest the user is in, the gacha points    *)
(* spent and the day of the last bonus.  The bridge grants the bonus under *)
(* a row lock, and an administrator disqualifies participations.           *)
(*                                                                         *)
(* There is no transaction around a request: each step is one statement    *)
(* on the database.  Points are counted in halves; the day is one day.     *)
(***************************************************************************)
EXTENDS Integers

CONSTANTS Workers,       \* the web processes
          Kinds,         \* the kinds of request they serve
          IsOrganizer,   \* whether the user organizes the contest
          Points,        \* the points of the profile, in halves
          MaxRequests,   \* bound: requests served
          MaxVerdicts,   \* bound: decisions of the administrator
          NoPart         \* the user is in no contest

AllKinds == {"join", "leave", "roll", "organization"}
SPECTATE == -1
LIVE == 0
RollCost == 10
RepeatRefund == 5
Coupon == 4              \* what an achievement of category -1 pays back
DAILY_SOLVE_BONUS_POINTS == 10

ASSUME KindsAssumption == Kinds \subseteq AllKinds
ASSUME NumbersAssumption ==
  Points \in Nat /\ MaxRequests \in Nat /\ MaxVerdicts \in Nat
ASSUME OrganizerAssumption == IsOrganizer \in BOOLEAN
ASSUME NoPartAssumption == NoPart \notin Int

VARIABLES row,           \* the profile row
          parts,         \* virtual numbers of the user's participations
          over,          \* those whose window has closed
          disqualified,  \* those disqualified
          banned,        \* the user is in banned_users
          ended,         \* the contest has ended
          user_count,    \* the contest's count of live participants
          owned,         \* copies of the ordinary achievement obtained
          web,           \* what each web process is doing
          admin,         \* what the administrator is doing
          requests, verdicts,
          (* history *)
          granted,       \* bonuses granted today
          ledger,        \* points spent by all rolls, less all bonuses
          lost,          \* a save overwrote a change it had not seen
          barred,        \* the participation the ban is for
          raced          \* a join overtook a disqualification

vars == <<row, parts, over, disqualified, banned, ended, user_count, owned, web,
          admin, requests, verdicts, granted, ledger, lost, barred, raced>>
partVars == <<parts, over, disqualified, banned, ended, user_count>>
adminVars == <<admin, verdicts>>
history == <<ledger, lost, barred, raced>>

Part == {SPECTATE} \cup Nat
Rows == [current : Part \cup {NoPart}, spent : Int, bonus : BOOLEAN]
Steps == {"middleware", "join", "virtual", "create_virtual", "create", "enter",
          "count", "leave", "roll", "pay", "organization"}
Picked == {"create_virtual", "create", "enter"}
NoRow == [current |-> NoPart, spent |-> 0, bonus |-> FALSE]
Idle == [at |-> "idle", kind |-> "none", seen |-> NoRow, mine |-> NoRow, part |-> NoPart]
Busy == [at : Steps, kind : AllKinds, seen : Rows, mine : Rows, part : Part \cup {NoPart}]
Resting == [at |-> "idle", part |-> NoPart, seen |-> NoRow]
Judging == [at : {"look", "save", "ban", "unban"}, part : Part, seen : Rows]

TypeOK ==
  /\ row \in Rows
  /\ parts \subseteq Part /\ over \subseteq Part /\ disqualified \subseteq Part
  /\ banned \in BOOLEAN /\ ended \in BOOLEAN /\ user_count \in Nat
  /\ owned \in Nat
  /\ web \in [Workers -> {Idle} \cup Busy]
  /\ \A w \in Workers : web[w].at \in Picked => web[w].part \in Part
  /\ admin \in {Resting} \cup Judging
  /\ requests \in Nat /\ verdicts \in Nat
  /\ granted \in Nat /\ ledger \in Int /\ lost \in BOOLEAN
  /\ barred \in Part \cup {NoPart} /\ raced \in BOOLEAN

Init ==
  /\ row = NoRow
  /\ parts = {} /\ over = {} /\ disqualified = {}
  /\ banned = FALSE /\ ended = FALSE /\ user_count = 0
  /\ owned = 0
  /\ web = [w \in Workers |-> Idle] /\ admin = Resting
  /\ requests = 0 /\ verdicts = 0
  /\ granted = 0 /\ ledger = 0 /\ lost = FALSE /\ barred = NoPart /\ raced = FALSE
-----------------------------------------------------------------------------
(* Time.                                                                   *)

\* ContestParticipation.ended: live and spectating ones end with the contest,
\* all of them when their own window closes.
part_ended(p) == p \in over \/ (ended /\ p \in {LIVE, SPECTATE})

ContestEnds ==
  /\ ~ended /\ ended' = TRUE
  /\ UNCHANGED <<row, parts, over, disqualified, banned, user_count, owned,
                 granted, web, adminVars, requests, history>>

WindowCloses(p) ==
  /\ p \in parts \ over /\ p # SPECTATE
  /\ over' = over \cup {p}
  /\ UNCHANGED <<row, parts, disqualified, banned, ended, user_count, owned,
                 granted, web, adminVars, requests, history>>
-----------------------------------------------------------------------------
(* Requests: the steps every one of them takes.                            *)

Goto(w, s) == web' = [web EXCEPT ![w].at = s]
Done(w) == web' = [web EXCEPT ![w] = Idle]

\* profile.save() by a request that loaded seen: every column is written.
Save(seen, new) ==
  /\ row' = new
  /\ lost' = (lost \/ row # seen)

Start(w, kind) ==
  /\ web[w] = Idle /\ requests < MaxRequests
  /\ requests' = requests + 1
  /\ web' = [web EXCEPT ![w] = [at |-> "middleware", kind |-> kind, seen |-> row,
                                mine |-> row, part |-> NoPart]]
  /\ UNCHANGED <<row, partVars, owned, granted, adminVars, history>>

\* ContestMiddleware: update_contest and perhaps remove_contest.
Middleware(w) ==
  LET q == web[w]
      out == [q.mine EXCEPT !.current = NoPart]
  IN  /\ q.at = "middleware"
      /\ \/ /\ q.mine.current # NoPart /\ part_ended(q.mine.current)
            /\ Save(q.seen, out)
            /\ web' = [web EXCEPT ![w] = [q EXCEPT !.at = q.kind, !.mine = out, !.seen = out]]
         \/ /\ q.mine.current = NoPart \/ ~part_ended(q.mine.current)
            /\ Goto(w, q.kind) /\ UNCHANGED <<row, lost>>
      /\ UNCHANGED <<partVars, owned, granted, adminVars, requests, ledger, barred, raced>>
-----------------------------------------------------------------------------
(* ContestJoin.join_contest and ContestLeave.                              *)

NoJoinWrite == UNCHANGED <<row, partVars, owned, granted, adminVars, requests, history>>

\* Refused: already in a contest, banned; or sent back for an access code or a
\* group name, which any join may be.
JoinRefused(w) ==
  /\ web[w].at = "join"
  /\ Done(w)
  /\ NoJoinWrite

\* Broken: banned_users is not looked at.
MayJoinBanned(w) == web[w].at = "join" /\ web[w].mine.current = NoPart

MayJoin(w) == web[w].at = "join" /\ web[w].mine.current = NoPart /\ ~banned

JoinEnded(w) ==
  /\ MayJoin(w) /\ ended
  /\ Goto(w, "virtual")
  /\ NoJoinWrite

\* Broken: one number is left out.
ReadVirtualTwoOn(w) ==
  /\ web[w].at = "virtual"
  /\ \E m \in parts \cup {0} :
       /\ \A p \in parts \cup {0} : p <= m
       /\ web' = [web EXCEPT ![w].at = "create_virtual", ![w].part = m + 2]
  /\ NoJoinWrite

\* max((Max('virtual') or 0) + 1, 1): one more than the highest number.
ReadVirtual(w) ==
  /\ web[w].at = "virtual"
  /\ \E m \in parts \cup {0} :
       /\ \A p \in parts \cup {0} : p <= m
       /\ web' = [web EXCEPT ![w].at = "create_virtual", ![w].part = m + 1]
  /\ NoJoinWrite

\* Broken: the number is not read again.
CreateVirtualAgain(w) ==
  /\ web[w].at = "create_virtual"
  /\ \/ /\ web[w].part \notin parts
        /\ parts' = parts \cup {web[w].part} /\ Goto(w, "enter")
     \/ web[w].part \in parts /\ UNCHANGED <<web, parts>>
  /\ UNCHANGED <<row, over, disqualified, banned, ended, user_count, owned, granted,
                 adminVars, requests, history>>

CreateVirtual(w) ==
  /\ web[w].at = "create_virtual"
  /\ \/ /\ web[w].part \notin parts
        /\ parts' = parts \cup {web[w].part} /\ Goto(w, "enter")
     \/ /\ web[w].part \in parts            \* IntegrityError: try again
        /\ Goto(w, "virtual") /\ UNCHANGED parts
  /\ UNCHANGED <<row, over, disqualified, banned, ended, user_count, owned, granted,
                 adminVars, requests, history>>

\* While the contest runs: the participation there is, a spectating one when
\* its window has closed, or a new one.
Wanted == IF IsOrganizer THEN SPECTATE ELSE LIVE

GetParticipation(w) ==
  LET p == IF Wanted \in parts /\ part_ended(Wanted) THEN SPECTATE ELSE Wanted
  IN  /\ MayJoin(w) /\ ~ended
      /\ web' = [web EXCEPT ![w].part = p,
                            ![w].at = IF p \in parts THEN "enter" ELSE "create"]
      /\ NoJoinWrite

\* No retry here: the loser of two creations answers with an error.
CreateParticipation(w) ==
  /\ web[w].at = "create"
  /\ \/ /\ web[w].part \notin parts
        /\ parts' = parts \cup {web[w].part} /\ Goto(w, "enter")
     \/ /\ web[w].part \in parts
        /\ Done(w) /\ UNCHANGED parts
  /\ UNCHANGED <<row, over, disqualified, banned, ended, user_count, owned, granted,
                 adminVars, requests, history>>

EnterContest(w) ==
  /\ web[w].at = "enter"
  /\ Save(web[w].seen, [web[w].mine EXCEPT !.current = web[w].part])
  /\ Goto(w, "count")
  /\ raced' = (raced \/ admin.at \in {"save", "ban"})
  /\ UNCHANGED <<partVars, owned, granted, adminVars, requests, ledger, barred>>

\* contest.update_user_count; the model has one user, who counts at most once.
UpdateUserCount(w) ==
  /\ web[w].at = "count"
  /\ user_count' = IF LIVE \in parts THEN 1 ELSE 0
  /\ Done(w)
  /\ UNCHANGED <<row, parts, over, disqualified, banned, ended, owned, granted,
                 adminVars, requests, history>>

LeaveContest(w) ==
  /\ web[w].at = "leave"
  /\ \/ web[w].mine.current = NoPart /\ UNCHANGED <<row, lost>>
     \/ /\ web[w].mine.current # NoPart
        /\ Save(web[w].seen, [web[w].mine EXCEPT !.current = NoPart])
  /\ Done(w)
  /\ UNCHANGED <<partVars, owned, granted, adminVars, requests, ledger, barred, raced>>
-----------------------------------------------------------------------------
(* GachaGo.gacha_roll and JoinOrganization, which saves the whole profile. *)

RollRefused(w) ==
  /\ web[w].at = "roll" /\ Points - web[w].mine.spent < RollCost
  /\ Done(w)
  /\ NoJoinWrite

\* The achievement is saved, and its copies are counted; then the profile is.
Obtain(w) ==
  LET Pay(refund) ==
        web' = [web EXCEPT ![w].at = "pay", ![w].mine.spent = @ + RollCost - refund]
  IN  /\ web[w].at = "roll" /\ Points - web[w].mine.spent >= RollCost
      /\ \/ owned' = owned + 1 /\ Pay(IF owned' > 1 THEN RepeatRefund ELSE 0)
         \/ owned' = owned /\ Pay(Coupon)
      /\ UNCHANGED <<row, partVars, granted, adminVars, requests, history>>

PayRoll(w) ==
  /\ web[w].at = "pay"
  /\ Save(web[w].seen, web[w].mine)
  /\ ledger' = ledger + web[w].mine.spent - web[w].seen.spent
  /\ Done(w)
  /\ UNCHANGED <<partVars, owned, granted, adminVars, requests, barred, raced>>

JoinOrganization(w) ==
  /\ web[w].at = "organization"
  /\ Save(web[w].seen, web[w].mine)
  /\ Done(w)
  /\ UNCHANGED <<partVars, owned, granted, adminVars, requests, ledger, barred, raced>>

\* Broken: the day of the last bonus is not looked at.
GrantBonusAlways ==
  /\ row' = [row EXCEPT !.spent = @ - DAILY_SOLVE_BONUS_POINTS, !.bonus = TRUE]
  /\ granted' = granted + 1
  /\ ledger' = ledger - DAILY_SOLVE_BONUS_POINTS
  /\ UNCHANGED <<partVars, owned, web, adminVars, requests, lost, barred, raced>>

\* The bridge: grant_daily_solve_bonus locks the row, reads it and writes the
\* two columns.
GrantBonus ==
  /\ ~row.bonus
  /\ row' = [row EXCEPT !.spent = @ - DAILY_SOLVE_BONUS_POINTS, !.bonus = TRUE]
  /\ granted' = granted + 1
  /\ ledger' = ledger - DAILY_SOLVE_BONUS_POINTS
  /\ UNCHANGED <<partVars, owned, web, adminVars, requests, lost, barred, raced>>
-----------------------------------------------------------------------------
(* ContestParticipation.set_disqualified.                                  *)

Disqualify(p) ==
  /\ admin = Resting /\ verdicts < MaxVerdicts
  /\ p \in parts \ disqualified
  /\ verdicts' = verdicts + 1
  /\ disqualified' = disqualified \cup {p}
  /\ admin' = [at |-> "look", part |-> p, seen |-> NoRow]
  /\ UNCHANGED <<row, parts, over, banned, ended, user_count, owned, granted, web,
                 requests, history>>

\* if self.user.current_contest == self
Look ==
  /\ admin.at = "look"
  /\ admin' = [admin EXCEPT !.at = IF row.current = admin.part THEN "save" ELSE "ban",
                            !.seen = row]
  /\ UNCHANGED <<row, partVars, owned, granted, web, verdicts, requests, history>>

RemoveContest ==
  /\ admin.at = "save"
  /\ Save(admin.seen, [admin.seen EXCEPT !.current = NoPart])
  /\ admin' = [admin EXCEPT !.at = "ban"]
  /\ UNCHANGED <<partVars, owned, granted, web, verdicts, requests, ledger, barred, raced>>

PastTheCheck == {"virtual"} \cup Picked

Ban ==
  /\ admin.at = "ban"
  /\ banned' = TRUE /\ admin' = Resting
  /\ barred' = admin.part
  /\ raced' = (raced \/ \E w \in Workers : web[w].at \in PastTheCheck)
  /\ UNCHANGED <<row, parts, over, disqualified, ended, user_count, owned, granted,
                 web, verdicts, requests, ledger, lost>>

Undisqualify(p) ==
  /\ admin = Resting /\ verdicts < MaxVerdicts
  /\ p \in disqualified
  /\ verdicts' = verdicts + 1
  /\ disqualified' = disqualified \ {p}
  /\ admin' = [at |-> "unban", part |-> p, seen |-> NoRow]
  /\ UNCHANGED <<row, parts, over, banned, ended, user_count, owned, granted, web,
                 requests, history>>

Unban ==
  /\ admin.at = "unban"
  /\ banned' = FALSE /\ admin' = Resting /\ barred' = NoPart
  /\ UNCHANGED <<row, parts, over, disqualified, ended, user_count, owned, granted,
                 web, verdicts, requests, ledger, lost, raced>>
-----------------------------------------------------------------------------
Step(w) ==
  \/ Middleware(w)
  \/ JoinRefused(w) \/ JoinEnded(w) \/ ReadVirtual(w) \/ CreateVirtual(w)
  \/ GetParticipation(w) \/ CreateParticipation(w) \/ EnterContest(w)
  \/ UpdateUserCount(w) \/ LeaveContest(w)
  \/ RollRefused(w) \/ Obtain(w) \/ PayRoll(w) \/ JoinOrganization(w)

Next ==
  \/ ContestEnds \/ GrantBonus
  \/ \E p \in parts : WindowCloses(p) \/ Disqualify(p) \/ Undisqualify(p)
  \/ Look \/ RemoveContest \/ Ban \/ Unban
  \/ \E w \in Workers : Step(w) \/ \E kind \in Kinds : Start(w, kind)

\* A process that has taken a request goes on with it.
Fairness == \A w \in Workers : WF_vars(Step(w))

Spec == Init /\ [][Next]_vars
FairSpec == Spec /\ Fairness
-----------------------------------------------------------------------------
(* Properties.                                                             *)

\* Virtual participations are numbered 1, 2, 3... without a gap, however many
\* joins race for the next number.
VirtualsAreNumbered == \A p \in parts : p > 1 => p - 1 \in parts

\* As long as no save overwrites a change it had not seen, the spent points
\* are those of the rolls less the bonuses, no roll overdraws the balance and
\* the bonus is granted once a day.
LedgerHolds ==
  ~lost => /\ row.spent = ledger
           /\ row.spent <= Points
           /\ granted <= 1

\* Once the ban is in place the user is out of the participation it is for
\* (remove_contest, and the check of banned_users for later joins), unless a
\* join was past its check when the ban came, a join entered between the two
\* steps of the disqualification, or a stale save put the contest back.
BarredIsOutside == banned /\ ~lost /\ ~raced => row.current # barred

\* Every request is answered: the loop that looks for a free virtual number
\* ends.
EveryRequestEnds ==
  \A w \in Workers : web[w] # Idle ~> web[w] = Idle

\* "idempotent, safe to call more than once for the same day".
BonusIsIdempotent == granted <= 1
=============================================================================
