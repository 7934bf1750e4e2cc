----------------------------- MODULE EventDaemon -----------------------------
(***************************************************************************)
(* How the page of a submission follows its grading.  The bridge changes   *)
(* the row and then posts an event to the daemon, which keeps the last     *)
(* max_queue events of all channels in memory.  A page is rendered from    *)
(* the row and told the daemon's last event; it follows through a          *)
(* websocket or, when that does not open in time, by long polling, and     *)
(* fetches the row again on every event.                                   *)
(*                                                                         *)
(* One submission is watched; the events of all other channels are alike.  *)
(* Its row goes through the versions 0 to Final.                           *)
(***************************************************************************)
EXTENDS Integers, SequencesExt

CONSTANTS Pages,
          Final,        \* the version of the row that is graded
          max_queue,    \* events the daemon keeps
          MaxOthers,    \* bound: events of other channels
          MaxFailures   \* bound: lost posts, restarts, closed sockets, failed requests

ASSUME BoundsAssumption == Final \in Nat /\ max_queue \in Nat

VARIABLES row,          \* the version of the submission's row
          posting,      \* the bridge has an event to post
          messages,     \* the daemon's buffer
          message_id,
          followers, pollers,
          page,         \* what every page shows and does
          inbox,        \* ids of the events on their way to a page
          others, failures,
          final_id      \* id of the event of the final version, or Unposted

vars == <<row, posting, messages, message_id, followers, pollers, page, inbox,
          others, failures, final_id>>
daemon == <<messages, message_id, followers, pollers>>
bridge == <<row, posting, final_id>>
bounds == <<others, failures>>

Unposted == 0
LostPost == -1
Stages == {"none", "ask", "opening", "started", "websocket", "polling", "waiting",
           "answered", "static", "closed"}
Following == {"opening", "started", "websocket", "polling", "waiting", "answered"}
NewPage == [at |-> "none", shown |-> 0, last |-> 0, late |-> FALSE,
            ajax |-> "idle", fetched |-> 0, again |-> FALSE]

TypeOK ==
  /\ row \in 0 .. Final /\ posting \in BOOLEAN
  /\ messages \in Seq([id : Nat, sub : BOOLEAN]) /\ Len(messages) <= max_queue
  /\ message_id \in Nat
  /\ followers = {p \in Pages : page[p].at = "websocket"}
  /\ IsInjective(pollers) /\ Range(pollers) = {p \in Pages : page[p].at = "waiting"}
  /\ page \in [Pages -> [at : Stages, shown : 0 .. Final, last : Nat, late : BOOLEAN,
                         ajax : {"idle", "sent", "got", "pause", "stuck"},
                         fetched : 0 .. Final, again : BOOLEAN]]
  /\ inbox \in [Pages -> Seq(Nat)]
  /\ others \in 0 .. MaxOthers /\ failures \in 0 .. MaxFailures
  /\ final_id \in Nat \cup {LostPost}

Init ==
  /\ row = 0 /\ posting = FALSE
  /\ messages = <<>> /\ message_id = 1 /\ followers = {} /\ pollers = <<>>
  /\ page = [p \in Pages |-> NewPage] /\ inbox = [p \in Pages |-> <<>>]
  /\ others = 0 /\ failures = 0 /\ final_id = Unposted

Failure == failures < MaxFailures /\ failures' = failures + 1
NoFailure == UNCHANGED failures
-----------------------------------------------------------------------------
(* The daemon.                                                             *)

\* pollers.each walks the list by index while every poller that is answered
\* removes itself: the one after it is passed over.
Answered(walked) == {walked[i] : i \in {j \in DOMAIN walked : j % 2 = 1}}
PassedOver(walked) == [i \in 1 .. Len(walked) \div 2 |-> walked[2 * i]]

\* messages.post; an event of another channel reaches no page here.
Post(sub) ==
  LET id == message_id + 1
      all == Append(messages, [id |-> id, sub |-> sub])
      told == IF sub THEN followers \cup Answered(pollers) ELSE {}
  IN  /\ message_id' = id
      /\ messages' = IF Len(all) > max_queue THEN Tail(all) ELSE all
      /\ inbox' = [p \in Pages |-> IF p \in told THEN Append(inbox[p], id) ELSE inbox[p]]
      /\ pollers' = IF sub THEN PassedOver(pollers) ELSE pollers
      /\ page' = [p \in Pages |-> IF p \in told \ followers
                                  THEN [page[p] EXCEPT !.at = "answered"] ELSE page[p]]
      /\ UNCHANGED followers

\* The events of this submission newer than last that are still buffered.
Newer(last) ==
  {messages[i].id : i \in {j \in DOMAIN messages : messages[j].sub /\ messages[j].id > last}}

\* messages.each goes through the buffer in the order of the ids.
InOrder(ids) ==
  {walk \in [1 .. Cardinality(ids) -> ids] :
     \A i, j \in 1 .. Cardinality(ids) : i < j => walk[i] < walk[j]}
First(ids) == {id \in ids : \A other \in ids : id <= other}

\* start-msg
StartMsg(p) ==
  /\ page[p].at = "opening"
  /\ page' = [page EXCEPT ![p].at = "started"]
  /\ UNCHANGED <<bridge, daemon, inbox, bounds>>

\* Broken: no catching up.
SetFilterAtOnce(p) ==
  /\ page[p].at = "started"
  /\ followers' = followers \cup {p}
  /\ page' = [page EXCEPT ![p].at = "websocket"]
  /\ UNCHANGED <<bridge, messages, message_id, pollers, inbox, bounds>>

\* set-filter: the socket becomes a follower and catches up.
SetFilter(p) ==
  /\ page[p].at = "started"
  /\ followers' = followers \cup {p}
  /\ \E news \in InOrder(Newer(page[p].last)) : inbox' = [inbox EXCEPT ![p] = @ \o news]
  /\ page' = [page EXCEPT ![p].at = "websocket"]
  /\ UNCHANGED <<bridge, messages, message_id, pollers, bounds>>

\* Broken: the last id of the request is not looked at.
PollFromStart(p) ==
  /\ page[p].at = "polling"
  /\ \/ /\ \E id \in First(Newer(0)) : inbox' = [inbox EXCEPT ![p] = <<id>>]
        /\ page' = [page EXCEPT ![p].at = "answered"]
        /\ UNCHANGED pollers
     \/ /\ Newer(0) = {}
        /\ pollers' = Append(pollers, p)
        /\ page' = [page EXCEPT ![p].at = "waiting"]
        /\ UNCHANGED inbox
  /\ UNCHANGED <<bridge, messages, message_id, followers, bounds>>

\* A request of a poller: the first event it has not had, or it waits.
Poll(p) ==
  /\ page[p].at = "polling"
  /\ LET new == Newer(page[p].last) IN
     \/ /\ \E id \in First(new) : inbox' = [inbox EXCEPT ![p] = <<id>>]
        /\ page' = [page EXCEPT ![p].at = "answered"]
        /\ UNCHANGED pollers
     \/ /\ new = {}
        /\ pollers' = Append(pollers, p)
        /\ page' = [page EXCEPT ![p].at = "waiting"]
        /\ UNCHANGED inbox
  /\ UNCHANGED <<bridge, messages, message_id, followers, bounds>>

\* The long poll times out with 504, and the page polls again.
PollTimeout(p) ==
  /\ page[p].at = "waiting"
  /\ \E i \in DOMAIN pollers : pollers[i] = p /\ pollers' = RemoveAt(pollers, i)
  /\ page' = [page EXCEPT ![p].at = "polling"]
  /\ UNCHANGED <<bridge, messages, message_id, followers, inbox, bounds>>

\* A websocket is closed: the page does not open another.
SocketCloses(p) ==
  /\ page[p].at \in {"started", "websocket"} /\ Failure
  /\ followers' = followers \ {p}
  /\ page' = [page EXCEPT ![p].at = "closed"]
  /\ inbox' = [inbox EXCEPT ![p] = <<>>]
  /\ UNCHANGED <<bridge, messages, message_id, pollers, others>>

\* The daemon starts anew, with an empty buffer and a later clock.
DaemonRestarts ==
  /\ Failure
  /\ messages' = <<>> /\ message_id' = message_id + 1
  /\ followers' = {} /\ pollers' = <<>>
  /\ page' = [p \in Pages |->
               CASE page[p].at \in {"started", "websocket"} -> [page[p] EXCEPT !.at = "closed"]
                 [] page[p].at = "waiting" -> [page[p] EXCEPT !.at = "polling"]
                 [] OTHER -> page[p]]
  /\ inbox' = [p \in Pages |-> IF page[p].at = "websocket" THEN <<>> ELSE inbox[p]]
  /\ UNCHANGED <<bridge, others>>
-----------------------------------------------------------------------------
(* The bridge: the row is saved, then the event is posted.                 *)

Save ==
  /\ ~posting /\ row < Final
  /\ row' = row + 1 /\ posting' = TRUE
  /\ UNCHANGED <<daemon, page, inbox, bounds, final_id>>

PostEvent ==
  /\ posting /\ posting' = FALSE
  /\ \/ /\ Post(TRUE) /\ NoFailure
        /\ final_id' = IF row = Final THEN message_id' ELSE final_id
     \/ /\ Failure /\ UNCHANGED <<daemon, page, inbox>>       \* post returns 0
        /\ final_id' = IF row = Final THEN LostPost ELSE final_id
  /\ UNCHANGED <<row, others>>

PostOther ==
  /\ others < MaxOthers /\ others' = others + 1
  /\ Post(FALSE)
  /\ UNCHANGED <<bridge, failures>>
-----------------------------------------------------------------------------
(* The page: SubmissionStatus, EventReceiver and update().                 *)

\* get_object reads the row ...
LoadRow(p) ==
  /\ page[p].at = "none"
  /\ page' = [page EXCEPT ![p].at = "ask", ![p].shown = row]
  /\ UNCHANGED <<bridge, daemon, inbox, bounds>>

\* ... and only then the view asks for the last event.  Without one, or with a
\* graded row, the page does not follow.
AskLast(p) ==
  /\ page[p].at = "ask"
  /\ \/ /\ page' = [page EXCEPT
                     ![p].at = IF page[p].shown = Final THEN "static" ELSE "opening",
                     ![p].last = message_id,
                     ![p].late = final_id # Unposted /\ page[p].shown # Final]
        /\ NoFailure
     \/ /\ page' = [page EXCEPT ![p].at = "static"] /\ Failure
  /\ UNCHANGED <<bridge, daemon, inbox, others>>

\* The websocket has not opened in two seconds.
FallBack(p) ==
  /\ page[p].at = "opening"
  /\ page' = [page EXCEPT ![p].at = "polling"]
  /\ UNCHANGED <<bridge, daemon, inbox, bounds>>

\* update(): at most one request at a time; another event is remembered.
Update(q) == IF q.ajax = "idle" THEN [q EXCEPT !.ajax = "sent", !.again = FALSE]
                                ELSE [q EXCEPT !.again = TRUE]

Receive(p) ==
  /\ inbox[p] # <<>>
  /\ page' = [page EXCEPT ![p] = [Update(page[p]) EXCEPT !.last = Head(inbox[p]),
                 !.at = IF page[p].at = "answered" THEN "polling" ELSE page[p].at]]
  /\ inbox' = [inbox EXCEPT ![p] = Tail(@)]
  /\ UNCHANGED <<bridge, daemon, bounds>>

Fetch(p) ==
  /\ page[p].ajax = "sent"
  /\ page' = [page EXCEPT ![p].ajax = "got", ![p].fetched = row]
  /\ UNCHANGED <<bridge, daemon, inbox, bounds>>

Show(p) ==
  /\ page[p].ajax = "got"
  /\ page' = [page EXCEPT ![p].ajax = "pause", ![p].shown = page[p].fetched]
  /\ UNCHANGED <<bridge, daemon, inbox, bounds>>

\* Broken: the event that came meanwhile is forgotten.
ResumeOnce(p) ==
  /\ page[p].ajax = "pause"
  /\ page' = [page EXCEPT ![p].ajax = "idle"]
  /\ UNCHANGED <<bridge, daemon, inbox, bounds>>

Resume(p) ==
  /\ page[p].ajax = "pause"
  /\ LET q == [page[p] EXCEPT !.ajax = "idle"] IN
     page' = [page EXCEPT ![p] = IF q.again THEN Update(q) ELSE q]
  /\ UNCHANGED <<bridge, daemon, inbox, bounds>>

\* A failed request leaves the page blocked.
FetchFails(p) ==
  /\ page[p].ajax = "sent" /\ Failure
  /\ page' = [page EXCEPT ![p].ajax = "stuck"]
  /\ UNCHANGED <<bridge, daemon, inbox, others>>
-----------------------------------------------------------------------------
Connect(p) == StartMsg(p) \/ SetFilter(p) \/ FallBack(p)

Next ==
  \/ Save \/ PostEvent \/ PostOther \/ DaemonRestarts
  \/ \E p \in Pages :
       \/ LoadRow(p) \/ AskLast(p) \/ Connect(p)
       \/ Poll(p) \/ PollTimeout(p) \/ SocketCloses(p)
       \/ Receive(p) \/ Fetch(p) \/ Show(p) \/ Resume(p) \/ FetchFails(p)

\* The bridge posts what it saved; a page's own script, its timers and the
\* network go on, and a long poll times out.
Fairness ==
  /\ WF_vars(PostEvent)
  /\ \A p \in Pages :
       /\ WF_vars(Connect(p)) /\ WF_vars(Poll(p)) /\ WF_vars(PollTimeout(p))
       /\ WF_vars(Receive(p)) /\ WF_vars(Fetch(p)) /\ WF_vars(Show(p)) /\ WF_vars(Resume(p))

Spec == Init /\ [][Next]_vars /\ Fairness
-----------------------------------------------------------------------------
(* Properties.                                                             *)

\* What a page has been told: it received the event or it is on its way.
Told(p, id) == id <= page[p].last \/ id \in Range(inbox[p])

\* No page is behind the daemon: a follower has been sent every buffered event
\* since its page was rendered, and a poller that waits lacks one only if it
\* was passed over in favour of another poller, who had it.
NobodyIsBehind ==
  /\ \A p \in followers : \A id \in Newer(page[p].last) : Told(p, id)
  /\ \A p \in Range(pollers) : \A id \in Newer(page[p].last) :
       \E q \in Pages \ {p} : Told(q, id)

\* Across catching up, following, polling and restarts of the daemon, a page
\* is told every event at most once and in order.
EventsInOrder ==
  [][\A p \in Pages :
       Len(inbox'[p]) < Len(inbox[p]) /\ page'[p].at # "closed"
         => page'[p].last > page[p].last]_vars

\* The final event can no longer reach the page: it was dropped from the
\* buffer, or lost by a restart, before the page took it.
Dropped(p) ==
  final_id > page[p].last /\ final_id \notin Newer(page[p].last) \cup Range(inbox[p])

Excused(p) ==
  \/ page[p].late              \* graded between the two reads of the view
  \/ final_id = LostPost \/ Dropped(p)
  \/ page[p].at = "closed" \/ page[p].ajax = "stuck"

\* A page that follows shows the verdict in the end.
VerdictIsShown ==
  \A p \in Pages :
    page[p].at \in Following /\ row = Final ~> page[p].shown = Final \/ Excused(p)
=============================================================================
