------------------------------- MODULE Desk -------------------------------
(***************************************************************************)
(* What the staff do to a contest from the administration: who makes it    *)
(* visible, who locks it and with it its submissions.  The form saves the  *)
(* whole row, and so do locking and every join of the contest; a verdict   *)
(* saves the whole row of a submission.  Each of them reads its row in one *)
(* step and saves it in another, so that others come between.              *)
(*                                                                         *)
(* Beside it, where the site shows contests by their time: the list of     *)
(* contests with its four sections, and the calendar with its links from   *)
(* month to month.  Who is shown a contest at all is in Access.            *)
(***************************************************************************)
EXTENDS Integers, Sequences, FiniteSets

CONSTANTS Staff, Organizers,
          Holds,            \* the permissions of each of the staff
          Desks,            \* requests at once
          MaxRuns, MaxDuties,    \* bounds
          Meets,            \* contests, with their times
          Terms, Limits,    \* <<start_time, end_time>>, and how long one may take
          NoLimit, Never,
          DayLength, WeekLength, MonthLength, MaxNow    \* in instants, days, days; a bound

ASSUME DeskAssumption ==
  /\ Organizers \subseteq Staff /\ Holds \in [Staff -> SUBSET STRING]
  /\ MaxRuns \in Nat /\ MaxDuties \in Nat /\ MaxNow \in Nat
  /\ {DayLength, WeekLength, MonthLength} \subseteq Nat \ {0}
  /\ \A t \in Terms : t \in Nat \X Nat /\ t[1] < t[2]
  /\ Limits \subseteq Nat \cup {NoLimit} /\ NoLimit \notin Nat /\ Never \notin Nat
\* The calendar has a contest: without one it is not found.
ASSUME MeetsAssumption == Meets # {} /\ IsFiniteSet(Meets)

VARIABLES contest,     \* its row
          vetted,    \* who made it visible to everybody may do so
          runs,        \* its submissions
          desk,        \* what each request has read
          split,       \* an old row was saved, with another lock than its submissions have
          loose,       \* submissions that were saved with an old lock, locked one by one, or sent later
          duties,
          agenda,      \* the contests of the site
          began,      \* when the viewer began
          now

dvars == <<contest, vetted, runs, desk, split, loose, duties, agenda, began, now>>
ovars == <<contest, vetted, runs, desk, split, loose, duties>>
avars == <<agenda, began, now>>

Flags == {"is_visible", "is_private", "is_locked"}    \* is_private: or is_organization_private
ContestRow == [Flags -> BOOLEAN]
Public(row) == row["is_visible"] /\ ~row["is_private"]
may(who, perm) == perm \in Holds[who]
OffDuty == [doing |-> "nothing"]
Doing(c, what) == desk[c].doing = what
-----------------------------------------------------------------------------
(* The contest and its form.                                               *)

get_queryset(who) == may(who, "edit_all_contest") \/ who \in Organizers
has_change_permission(who) ==
  may(who, "edit_own_contest") /\ (may(who, "edit_all_contest") \/ who \in Organizers)
get_readonly_fields(who) ==
  {f \in Flags : \/ f = "is_locked" /\ ~may(who, "lock_contest")
                 \/ f = "is_private" /\ ~may(who, "create_private_contest")
                 \/ /\ f = "is_visible" /\ ~may(who, "create_private_contest")
                    /\ ~may(who, "change_contest_visibility")}

\* Broken: the row decides, not what the form makes of it.
is_refused_by_row(who, loaded, fields) ==
  /\ "is_visible" \notin get_readonly_fields(who) /\ fields["is_visible"]
  /\ ~may(who, "change_contest_visibility") /\ ~loaded["is_private"]
\* save_model.
is_refused(who, loaded, fields) ==
  /\ "is_visible" \notin get_readonly_fields(who) /\ fields["is_visible"]
  /\ ~may(who, "change_contest_visibility")
  /\ ~fields["is_private"] \/ ~may(who, "create_private_contest")

Duty == duties < MaxDuties /\ duties' = duties + 1
\* Whoever saves an old row brings back what was allowed then.
Allows(who, row, before) == Public(row) /\ (may(who, "change_contest_visibility") \/ before)
LockAll(locked) == [i \in DOMAIN runs |-> IF runs[i].live THEN [runs[i] EXCEPT !.is_locked = locked] ELSE runs[i]]
LiveRuns == {i \in DOMAIN runs : runs[i].live}
set_is_locked(row, locked) ==
  /\ contest' = [row EXCEPT !["is_locked"] = locked]
  /\ runs' = LockAll(locked) /\ split' = FALSE /\ loose' = loose \ LiveRuns
KeepsLock(row, loaded) ==
  /\ contest' = row /\ split' = (split \/ loaded["is_locked"] # contest["is_locked"])
  /\ UNCHANGED <<runs, loose>>

OpenForm(c, who) ==
  /\ Duty /\ Doing(c, "nothing") /\ has_change_permission(who)
  /\ desk' = [desk EXCEPT ![c] = [doing |-> "form", who |-> who, fields |-> contest]]
  /\ UNCHANGED <<contest, vetted, runs, split, loose, avars>>

\* One field is changed, or none; what was on the page is posted with it.
PostForm(c) ==
  /\ Doing(c, "form")
  /\ \E f \in Flags, value \in BOOLEAN :
       desk' = [desk EXCEPT ![c] = [doing |-> "post", who |-> @.who, fields |-> [@.fields EXCEPT ![f] = value],
                                    loaded |-> contest, vetted |-> vetted]]
  /\ UNCHANGED <<contest, vetted, runs, split, loose, duties, avars>>

SavePost(c) ==
  LET d == desk[c]
      who == d.who
      row == [f \in Flags |-> IF f \in get_readonly_fields(who) THEN d.loaded[f] ELSE d.fields[f]]
  IN  /\ Doing(c, "post")
      /\ desk' = [desk EXCEPT ![c] = OffDuty]
      /\ IF is_refused(who, d.loaded, d.fields) THEN UNCHANGED <<contest, vetted, runs, split, loose>>
         ELSE /\ IF row["is_locked"] # d.loaded["is_locked"] THEN set_is_locked(row, row["is_locked"]) ELSE KeepsLock(row, d.loaded)
              /\ vetted' = Allows(who, row, d.vetted)
      /\ UNCHANGED <<duties, avars>>

\* make_visible, and make_hidden, which does the same.
mark_visible(who) ==
  /\ may(who, "change_contest_visibility") \/ contest["is_private"]
  /\ contest' = [contest EXCEPT !["is_visible"] = TRUE]
  /\ vetted' = Allows(who, contest', vetted)
make_visible(who) ==
  /\ Duty /\ may(who, "edit_own_contest") /\ get_queryset(who)
  /\ may(who, "change_contest_visibility") \/ may(who, "create_private_contest")
  /\ mark_visible(who)
  /\ UNCHANGED <<runs, desk, split, loose, avars>>

\* set_locked and set_unlocked: the selected rows are read, then saved.
ReadRows(c, who, locked) ==
  /\ Duty /\ Doing(c, "nothing") /\ may(who, "edit_own_contest") /\ get_queryset(who) /\ may(who, "lock_contest")
  /\ desk' = [desk EXCEPT ![c] = [doing |-> "lock", loaded |-> contest, vetted |-> vetted, to |-> locked]]
  /\ UNCHANGED <<contest, vetted, runs, split, loose, avars>>
set_locked(c) ==
  /\ Doing(c, "lock") /\ desk' = [desk EXCEPT ![c] = OffDuty]
  /\ set_is_locked(desk[c].loaded, desk[c].to) /\ vetted' = desk[c].vetted
  /\ UNCHANGED <<duties, avars>>

\* update_user_count of a join, or of the prize of the gacha.
BeginJoin(c) ==
  /\ Duty /\ Doing(c, "nothing")
  /\ desk' = [desk EXCEPT ![c] = [doing |-> "join", loaded |-> contest, vetted |-> vetted]]
  /\ UNCHANGED <<contest, vetted, runs, split, loose, avars>>
update_user_count(c) ==
  /\ Doing(c, "join") /\ desk' = [desk EXCEPT ![c] = OffDuty]
  /\ KeepsLock(desk[c].loaded, desk[c].loaded) /\ vetted' = desk[c].vetted
  /\ UNCHANGED <<duties, avars>>
-----------------------------------------------------------------------------
(* Its submissions.                                                        *)

SendRun(live) ==
  /\ Duty /\ Len(runs) < MaxRuns
  /\ runs' = Append(runs, [live |-> live, is_locked |-> FALSE, graded |-> FALSE])
  /\ loose' = IF contest["is_locked"] THEN loose \cup {Len(runs) + 1} ELSE loose
  /\ UNCHANGED <<contest, vetted, desk, split, avars>>

\* on_grading_end and the other ends read the row and save it whole.
BeginVerdict(c, i) ==
  /\ Duty /\ Doing(c, "nothing") /\ ~runs[i].graded
  /\ desk' = [desk EXCEPT ![c] = [doing |-> "verdict", run |-> i, row |-> runs[i]]]
  /\ UNCHANGED <<contest, vetted, runs, split, loose, avars>>
SaveVerdict(c) ==
  /\ Doing(c, "verdict") /\ desk' = [desk EXCEPT ![c] = OffDuty]
  /\ runs' = [runs EXCEPT ![desk[c].run] = [desk[c].row EXCEPT !.graded = TRUE]]
  /\ loose' = IF desk[c].row.is_locked # runs[desk[c].run].is_locked THEN loose \cup {desk[c].run} ELSE loose
  /\ UNCHANGED <<contest, vetted, split, duties, avars>>

\* Submission.judge: of the row as it was read.
BeginRejudge(c, i) ==
  /\ Duty /\ Doing(c, "nothing") /\ runs[i].graded
  /\ desk' = [desk EXCEPT ![c] = [doing |-> "judge", run |-> i, row |-> runs[i]]]
  /\ UNCHANGED <<contest, vetted, runs, split, loose, avars>>
judge(c) ==
  /\ Doing(c, "judge") /\ desk' = [desk EXCEPT ![c] = OffDuty]
  /\ runs' = IF desk[c].row.is_locked THEN runs ELSE [runs EXCEPT ![desk[c].run].graded = FALSE]
  /\ UNCHANGED <<contest, vetted, split, loose, duties, avars>>

\* The form of one submission, for who holds lock_submission.
LockOne(i) ==
  /\ Duty /\ runs' = [runs EXCEPT ![i].is_locked = ~@] /\ loose' = loose \cup {i}
  /\ UNCHANGED <<contest, vetted, desk, split, avars>>
-----------------------------------------------------------------------------
(* The list and the calendar.                                              *)

has_ended(k) == agenda[k].end_time < now
can_join(k) == agenda[k].start_time <= now
\* Of the live participation.
participation_end(k) ==
  LET m == agenda[k]
      own == began[k] + m.time_limit
  IN  IF m.time_limit = NoLimit \/ own > m.end_time THEN m.end_time ELSE own
Shown == {k \in Meets : agenda[k].is_visible}

ContestList ==
  LET there == {k \in Shown : ~has_ended(k)}
      present == {k \in there : agenda[k].start_time <= now}
      active == {k \in present : began[k] # Never /\ now <= participation_end(k)}
  IN  [past_contests |-> {k \in Shown : agenda[k].end_time < now}, future_contests |-> there \ present,
       active_participations |-> active, current_contests |-> present \ active]

DayOf(t) == t \div DayLength
MonthOf(t) == DayOf(t) \div MonthLength
\* Whole weeks.
FirstDay(month) == WeekLength * ((month * MonthLength) \div WeekLength)
LastDay(month) == WeekLength * (((month + 1) * MonthLength - 1) \div WeekLength) + WeekLength - 1

\* Each contest has its first day among starts, its last among ends, or both in oneday.
get_contest_data(month) ==
  LET start == DayLength * FirstDay(month)
      end == DayLength * (LastDay(month) + 1)
      found == {k \in Shown : \/ start <= agenda[k].start_time /\ agenda[k].start_time < end
                              \/ start <= agenda[k].end_time /\ agenda[k].end_time < end}
      start_date(k) == DayOf(agenda[k].start_time)
      end_date(k) == DayOf(agenda[k].end_time - 1)
      long == {k \in found : start_date(k) # end_date(k)}
  IN  [starts |-> {<<start_date(k), k>> : k \in long}, ends |-> {<<end_date(k), k>> : k \in long},
       oneday |-> {<<start_date(k), k>> : k \in found \ long}]
\* Its cells: what get_table looks up for the days from the first to the last.
Cells(month) ==
  LET data == get_contest_data(month)
      inside(marks) == {m \in marks : FirstDay(month) <= m[1] /\ m[1] <= LastDay(month)}
  IN  [starts |-> inside(data.starts), ends |-> inside(data.ends), oneday |-> inside(data.oneday)]

least_in(S) == CHOOSE x \in S : \A y \in S : x <= y
greatest_in(S) == CHOOSE x \in S : \A y \in S : y <= x
\* Of all contests, shown or not.
min_month == MonthOf(least_in({agenda[k].start_time : k \in Meets}))
max_month == greatest_in({MonthOf(agenda[k].end_time) : k \in Meets} \cup {MonthOf(now)})
MonthOpens(month) == min_month <= month /\ month <= max_month
prev_months(month) == IF month > min_month THEN {month - 1} ELSE {}
next_months(month) == IF month < max_month THEN {month + 1} ELSE {}

Join(k) ==
  /\ began[k] = Never /\ agenda[k].is_visible /\ can_join(k) /\ ~has_ended(k)
  /\ began' = [began EXCEPT ![k] = now]
  /\ UNCHANGED <<ovars, agenda, now>>
Later == now < MaxNow /\ now' = now + 1 /\ UNCHANGED <<ovars, agenda, began>>
-----------------------------------------------------------------------------
OfficeInit ==
  /\ contest = [f \in Flags |-> FALSE] /\ vetted = FALSE
  /\ runs = <<>> /\ desk = [c \in Desks |-> OffDuty] /\ split = FALSE /\ loose = {} /\ duties = 0
AgendaInit ==
  /\ agenda \in [Meets -> {[start_time |-> t[1], end_time |-> t[2], time_limit |-> limit, is_visible |-> shown] :
                             t \in Terms, limit \in Limits, shown \in BOOLEAN}]
  /\ began = [k \in Meets |-> Never] /\ now = 0
DeskInit == OfficeInit /\ AgendaInit

OfficeNext ==
  \/ \E c \in Desks, who \in Staff : OpenForm(c, who) \/ \E locked \in BOOLEAN : ReadRows(c, who, locked)
  \/ \E who \in Staff : make_visible(who)
  \/ \E c \in Desks : \/ PostForm(c) \/ SavePost(c) \/ set_locked(c) \/ BeginJoin(c) \/ update_user_count(c)
                      \/ SaveVerdict(c) \/ judge(c)
                      \/ \E i \in DOMAIN runs : BeginVerdict(c, i) \/ BeginRejudge(c, i)
  \/ \E live \in BOOLEAN : SendRun(live)
  \/ \E i \in DOMAIN runs : LockOne(i)
AgendaNext == Later \/ \E k \in Meets : Join(k)
DeskNext == OfficeNext \/ AgendaNext

DeskSpec == DeskInit /\ [][DeskNext]_dvars
-----------------------------------------------------------------------------
\* A contest that everybody sees was made so by somebody who may change who sees
\* contests, whatever forms were open, rows were saved old, and actions came between.
VisibleIsAllowed == Public(contest) => vetted

\* Every live submission is locked exactly if its contest is, unless an old row
\* of the contest was saved over the lock, or the submission was sent later, is
\* locked for itself, or got its verdict while it was being locked.
LocksHold == ~split => \A i \in LiveRuns \ loose : runs[i].is_locked = contest["is_locked"]

\* Each contest is in one section of the list: among the active ones while its
\* user may still submit, among the current ones if it can be began or the
\* user's own time is over.
ListIsWhole ==
  LET list == ContestList
      sections(k) == {s \in DOMAIN list : k \in list[s]}
  IN  \A k \in Meets :
        /\ Cardinality(sections(k)) = IF agenda[k].is_visible THEN 1 ELSE 0
        /\ k \in list.active_participations <=> began[k] # Never /\ now <= participation_end(k)
        /\ k \in list.current_contests => /\ can_join(k) /\ ~has_ended(k)
                                          /\ began[k] # Never => participation_end(k) < now

\* The calendar of a month shows the first and the last day of every contest
\* that fall into its weeks, on no other day, once if they are the same; only
\* the last day of one that was there before its weeks and ends with them is missing.
CalendarIsWhole ==
  \A month \in {m \in 0 .. max_month : MonthOpens(m)} :
    LET cells == Cells(month)
        days == FirstDay(month) .. LastDay(month)
    IN  \A k \in Shown :
          LET first == agenda[k].start_time \div DayLength
              last == (agenda[k].end_time - 1) \div DayLength
              missed == first < FirstDay(month) /\ agenda[k].end_time = DayLength * (LastDay(month) + 1)
          IN  \A day \in days :
                /\ <<day, k>> \in cells.oneday <=> day = first /\ day = last
                /\ <<day, k>> \in cells.starts <=> day = first /\ first # last
                /\ <<day, k>> \in cells.ends <=> day = last /\ first # last /\ ~missed

\* From every month that opens the links lead, through months that open, to the
\* month of every contest and to the present one, unless no contest has begun by then.
MonthsAreLinked ==
  LET open == {m \in 0 .. max_month : MonthOpens(m)}
      wanted == {MonthOf(agenda[k].start_time) : k \in Meets} \cup {MonthOf(agenda[k].end_time - 1) : k \in Meets}
                \cup {m \in {MonthOf(now)} : \E k \in Meets : MonthOf(agenda[k].start_time) <= m}
  IN  /\ wanted \subseteq open
      /\ \A m \in open : /\ prev_months(m) \cup next_months(m) \subseteq open
                         /\ (\E n \in wanted : n < m) => prev_months(m) # {}
                         /\ (\E n \in wanted : n > m) => next_months(m) # {}

DeskHolds == VisibleIsAllowed /\ LocksHold
AgendaHolds == ListIsWhole /\ CalendarIsWhole /\ MonthsAreLinked
=============================================================================
