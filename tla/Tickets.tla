------------------------------- MODULE Tickets -------------------------------
(***************************************************************************)
(* Tickets about problems: their rows and messages, the events that tell   *)
(* of them, and a page of somebody who follows them, which is a ticket or  *)
(* a list of tickets.                                                      *)
(*                                                                         *)
(* A request saves a row at a time and posts its events last; a ticket is  *)
(* saved with all its columns as they were read.  The page is rendered in  *)
(* three steps, then told by the event daemon, whose events arrive in      *)
(* order (see EventDaemon).  All tickets are on the first page of a list.  *)
(* crossed, and opened, bare and passed of the page, do not exist in the   *)
(* program: they say which rows two requests changed at once, what had     *)
(* been posted when the page read its ticket, whether that had no message  *)
(* yet, and which rows changed while they were read.                       *)
(***************************************************************************)
EXTENDS Integers, Sequences, FiniteSets

CONSTANTS Tickets,      \* ids: 1 .. the number of them
          People, Viewer,
          ManageAll,    \* users with change_ticket
          Muted,
          Subjects,     \* problems
          Authors,      \* of each
          Editable, Accessible,    \* pairs of a user and a problem
          Servers,      \* web processes
          Lists,        \* bound: the lists that may be opened
          MaxMessages, MaxErrands  \* bounds: messages, requests

ASSUME TicketsAssumption ==
  /\ Tickets = 1 .. Cardinality(Tickets) /\ 1 \in Tickets /\ MaxMessages \in Nat
  /\ Viewer \in People /\ "nobody" \notin People
  /\ ManageAll \subseteq People /\ Muted \subseteq People /\ Authors \in [Subjects -> SUBSET People]
  /\ Lists \subseteq [own : BOOLEAN, about : {"all"} \cup Subjects, elsewhere : SUBSET Tickets]
  /\ Editable \subseteq Accessible /\ Accessible \subseteq People \X Subjects

VARIABLES ticket,     \* rows of Ticket
          assignees,
          messages,   \* rows of TicketMessage
          posted,     \* events of the channels tickets and ticket-<id>
          server, errands,
          tab,        \* the page
          crossed

kvars == <<ticket, assignees, messages, posted, server, errands, tab, crossed>>

NoTicket == [open |-> FALSE, by |-> "nobody", about |-> "nothing"]
Filed == {t \in Tickets : ticket[t] # NoTicket}
MessagesOf(t) == {m \in DOMAIN messages : messages[m].ticket = t}
\* The message a ticket is filed with, which no event of its own tells of.
FirstOf(t) == {m \in MessagesOf(t) : messages[m].first}
\* A request: what is left of it, the ticket as it was read, the message it has
\* saved, and whether the page waits for its answer.
NoErrand == [todo |-> <<>>, ticket |-> 1, row |-> NoTicket, message |-> 0, mine |-> FALSE]
NoTab == [at |-> "none", kind |-> "list", ticket |-> 1, own |-> FALSE, about |-> "all", open |-> FALSE,
          opened |-> 0, last |-> 0, bare |-> FALSE, shown |-> {}, rows |-> [t \in Tickets |-> "none"],
          fetching |-> {}, passed |-> {}, elsewhere |-> {}]
state(open) == IF open THEN "open" ELSE "closed"
-----------------------------------------------------------------------------
\* TicketMixin.get_object
readable(u, t) ==
  \/ u \in ManageAll \/ ticket[t].by = u \/ u \in assignees[t]
  \/ <<u, ticket[t].about>> \in Editable

own_ticket(u, t) == u \in assignees[t] \/ ticket[t].by = u

visible_ticket(u, t) == own_ticket(u, t) \/ <<u, ticket[t].about>> \in Editable

\* TicketList.get_queryset, and _get_queryset of a problem's list.
listed(own, about) ==
  {t \in Filed :
     /\ about # "all" => /\ ticket[t].about = about
                         /\ <<Viewer, about>> \in Editable \/ own_ticket(Viewer, t)
     /\ IF own THEN own_ticket(Viewer, t) ELSE Viewer \in ManageAll \/ visible_ticket(Viewer, t)}
-----------------------------------------------------------------------------
TicketsTypeOK ==
  /\ ticket \in [Tickets -> {NoTicket} \cup [open : BOOLEAN, by : People, about : Subjects]]
  /\ assignees \in [Tickets -> SUBSET People]
  /\ messages \in Seq([ticket : Tickets, first : BOOLEAN]) /\ errands \in 0 .. MaxErrands /\ crossed \subseteq Tickets
  /\ \A e \in Servers : server[e].ticket \in Tickets
  /\ tab.shown \subseteq DOMAIN messages /\ tab.last \in 0 .. Len(posted)

\* There is a ticket, or none.
TicketsInit ==
  /\ \/ /\ ticket = [t \in Tickets |-> NoTicket] /\ assignees = [t \in Tickets |-> {}] /\ messages = <<>>
     \/ \E u \in People, p \in Subjects :
          /\ ticket = [t \in Tickets |-> IF t = 1 THEN [open |-> TRUE, by |-> u, about |-> p] ELSE NoTicket]
          /\ assignees = [t \in Tickets |-> IF t = 1 THEN Authors[p] ELSE {}]
          /\ messages = <<[ticket |-> 1, first |-> TRUE]>>
  /\ posted = <<>>
  /\ server = [s \in Servers |-> NoErrand]
  /\ errands = 0 /\ tab = NoTab /\ crossed = {}
-----------------------------------------------------------------------------
IsDoing(s, step) == server[s].todo # <<>> /\ Head(server[s].todo) = step
Changing(t) == {s \in Servers : server[s].todo # <<>> /\ server[s].ticket = t /\ server[s].row # NoTicket}
Taken == Filed \cup {server[s].ticket : s \in {r \in Servers : IsDoing(r, "ticket")}}

Begins(s, errand) ==
  /\ server[s] = NoErrand /\ errands < MaxErrands /\ errands' = errands + 1
  /\ server' = [server EXCEPT ![s] = errand]
  /\ UNCHANGED <<ticket, assignees, messages, posted, tab>>

\* A ticket that another request is about to save is about to be changed twice.
BeginsChange(s, errand) ==
  /\ Begins(s, errand)
  /\ crossed' = IF Changing(errand.ticket) # {} THEN crossed \cup {errand.ticket} ELSE crossed

\* NewProblemTicketView.form_valid and NewTicketView.form_valid: ids are given
\* in order.
NewTicket(s, u, p) ==
  /\ <<u, p>> \in Accessible /\ u \notin Muted
  /\ \E t \in Tickets \ Taken :
       /\ \A r \in Tickets \ Taken : t <= r
       /\ Begins(s, [NoErrand EXCEPT !.todo = <<"ticket", "message", "assign", "new-ticket">>, !.ticket = t,
                                     !.row = [open |-> TRUE, by |-> u, about |-> p]])
  /\ UNCHANGED crossed

\* TicketView.form_valid
PostMessage(s, u, t) ==
  /\ t \in Filed /\ readable(u, t)
  /\ Begins(s, [NoErrand EXCEPT !.todo = <<"message", "tell of it">>, !.ticket = t])
  /\ UNCHANGED crossed

\* TicketStatusChangeView.post.  A ticket that is as it should be is not saved.
\* mine: the button of the page has been pressed, as a bound once at a time.
ChangeStatus(s, u, t, open, mine) ==
  /\ t \in Filed /\ readable(u, t)
  /\ mine => /\ u = Viewer /\ tab.kind = "ticket" /\ tab.at = "live" /\ tab.ticket = t /\ tab.open # open
             /\ \A r \in Servers : ~server[r].mine
  /\ BeginsChange(s, [NoErrand EXCEPT
       !.todo = IF ticket[t].open = open THEN <<"answer">> ELSE <<"ticket", "tell all", "tell own", "answer">>,
       !.ticket = t, !.row = [ticket[t] EXCEPT !.open = open], !.mine = mine])

\* TicketNotesEditView.form_valid: the notes themselves are left out.
EditNotes(s, u, t) ==
  /\ t \in Filed /\ readable(u, t)
  /\ BeginsChange(s, [NoErrand EXCEPT !.todo = <<"ticket">>, !.ticket = t, !.row = ticket[t]])

Step(s) ==
  LET d == server[s]
  IN  server' = [server EXCEPT ![s] = IF Len(d.todo) = 1 THEN NoErrand ELSE [d EXCEPT !.todo = Tail(@)]]

SaveTicket(s) ==
  /\ IsDoing(s, "ticket") /\ Step(s)
  /\ ticket' = [ticket EXCEPT ![server[s].ticket] = server[s].row]
  /\ UNCHANGED <<assignees, messages, posted, errands, tab, crossed>>

SaveMessage(s) ==
  /\ IsDoing(s, "message") /\ Len(messages) < MaxMessages
  /\ messages' = Append(messages, [ticket |-> server[s].ticket, first |-> server[s].row # NoTicket])
  /\ server' = [server EXCEPT ![s].todo = Tail(@), ![s].message = Len(messages')]
  /\ UNCHANGED <<ticket, assignees, posted, errands, tab, crossed>>

Assign(s) ==
  /\ IsDoing(s, "assign") /\ Step(s)
  /\ assignees' = [assignees EXCEPT ![server[s].ticket] = Authors[server[s].row.about]]
  /\ UNCHANGED <<ticket, messages, posted, errands, tab, crossed>>

\* The events.  A list does nothing with that of a message.
Tell(s) ==
  LET d == server[s]
      Event(channel, type) ==
        [channel |-> channel, type |-> type, ticket |-> d.ticket, open |-> d.row.open, message |-> d.message,
         user |-> ticket[d.ticket].by, assignees |-> assignees[d.ticket]]
  IN  /\ \/ IsDoing(s, "new-ticket") /\ posted' = Append(posted, Event("tickets", "new-ticket"))
         \/ IsDoing(s, "tell all") /\ posted' = Append(posted, Event("tickets", "ticket-status"))
         \/ IsDoing(s, "tell own") /\ posted' = Append(posted, Event("ticket", "ticket-status"))
         \/ IsDoing(s, "tell of it") /\ posted' = Append(posted, Event("ticket", "ticket-message"))
      /\ Step(s)
      /\ UNCHANGED <<ticket, assignees, messages, errands, tab, crossed>>

\* The answer comes back to the page, which shows the new state.
Answer(s) ==
  /\ IsDoing(s, "answer") /\ Step(s)
  /\ tab' = IF server[s].mine THEN [tab EXCEPT !.open = server[s].row.open] ELSE tab
  /\ UNCHANGED <<ticket, assignees, messages, posted, errands, crossed>>
-----------------------------------------------------------------------------
\* TicketView: get_object reads the ticket, ...
OpenTicket(t) ==
  /\ tab.at = "none" /\ t \in Filed /\ readable(Viewer, t)
  /\ tab' = [NoTab EXCEPT !.at = "ask", !.kind = "ticket", !.ticket = t, !.open = ticket[t].open,
                          !.opened = Len(posted)]
  /\ UNCHANGED <<ticket, assignees, messages, posted, server, errands, crossed>>

\* TicketList.  elsewhere: tickets that have a tab of their own, with
\* notifications; the list leaves them to it.
OpenList(list) ==
  /\ tab.at = "none"
  /\ list.about # "all" => <<Viewer, list.about>> \in Accessible
  /\ tab' = [NoTab EXCEPT !.at = "ask", !.own = list.own, !.about = list.about, !.elsewhere = list.elsewhere]
  /\ UNCHANGED <<ticket, assignees, messages, posted, server, errands, crossed>>

\* ... get_context_data asks for the last event, ...
AskLastEvent ==
  /\ tab.at = "ask"
  /\ LET told == {i \in tab.opened + 1 .. Len(posted) :
                    posted[i].type = "ticket-status" /\ posted[i].ticket = tab.ticket}
     IN  tab' = [tab EXCEPT !.at = "render", !.last = Len(posted),
                            !.passed = IF tab.kind = "ticket" /\ told # {} THEN {tab.ticket} ELSE {}]
  /\ UNCHANGED <<ticket, assignees, messages, posted, server, errands, crossed>>

\* ... and the template makes the queries that were prepared before.
Render ==
  /\ tab.at = "render"
  /\ tab' = IF tab.kind = "ticket" THEN [tab EXCEPT !.at = "live", !.shown = MessagesOf(tab.ticket),
                                                    !.bare = FirstOf(tab.ticket) = {}]
            ELSE [tab EXCEPT !.at = "live",
                             !.rows = [t \in Tickets |-> IF t \in listed(tab.own, tab.about)
                                                         THEN state(ticket[t].open) ELSE "none"]]
  /\ UNCHANGED <<ticket, assignees, messages, posted, server, errands, crossed>>

\* Broken: what somebody else wrote and the viewer has to look after.
for_reporter(e) == e.user = Viewer

\* The list's script: what the filter own lets through.
for_viewer(e) == e.user = Viewer \/ Viewer \in e.assignees

Take(e) ==
  CASE tab.kind = "ticket" ->
         IF e.channel # "ticket" \/ e.ticket # tab.ticket THEN tab
         ELSE IF e.type = "ticket-status" THEN [tab EXCEPT !.open = e.open]
         ELSE [tab EXCEPT !.fetching = @ \cup {[id |-> e.message, state |-> "asked"]}]
    [] tab.kind = "list" ->
         IF e.channel # "tickets" \/ (tab.own /\ ~for_viewer(e)) THEN tab
         ELSE IF e.type = "new-ticket"
              THEN [tab EXCEPT !.fetching = @ \cup {[id |-> e.ticket, state |-> "asked"]}]
         ELSE IF e.ticket \in tab.elsewhere THEN tab
         ELSE [tab EXCEPT !.rows[e.ticket] = IF @ = "none" THEN @ ELSE state(e.open),
                          !.passed = @ \cup ({f.id : f \in tab.fetching} \cap {e.ticket})]

TakeEvent ==
  /\ tab.at = "live" /\ tab.last < Len(posted)
  /\ tab' = [Take(posted[tab.last + 1]) EXCEPT !.last = @ + 1]
  /\ UNCHANGED <<ticket, assignees, messages, posted, server, errands, crossed>>

\* TicketMessageDataAjax and TicketListDataAjax; a row or a message the viewer
\* may not read is refused.
FetchRow(f) ==
  /\ f \in tab.fetching /\ f.state = "asked"
  /\ LET t == IF tab.kind = "ticket" THEN tab.ticket ELSE f.id
         got == IF readable(Viewer, t) THEN {[f EXCEPT !.state = state(ticket[t].open)]} ELSE {}
     IN  tab' = [tab EXCEPT !.fetching = (@ \ {f}) \cup got]
  /\ UNCHANGED <<ticket, assignees, messages, posted, server, errands, crossed>>

\* Its answer is added to the page.
AddRow(f) ==
  /\ f \in tab.fetching /\ f.state # "asked"
  /\ tab' = IF tab.kind = "ticket" THEN [tab EXCEPT !.fetching = @ \ {f}, !.shown = @ \cup {f.id}]
            ELSE [tab EXCEPT !.fetching = @ \ {f}, !.rows[f.id] = f.state]
  /\ UNCHANGED <<ticket, assignees, messages, posted, server, errands, crossed>>
-----------------------------------------------------------------------------
TicketsNext ==
  \/ \E s \in Servers : SaveTicket(s) \/ SaveMessage(s) \/ Assign(s) \/ Tell(s) \/ Answer(s)
  \/ \E s \in Servers, u \in People : \/ \E p \in Subjects : NewTicket(s, u, p)
                                      \/ \E t \in Tickets : PostMessage(s, u, t) \/ EditNotes(s, u, t)
                                      \/ \E t \in Tickets, open, mine \in BOOLEAN : ChangeStatus(s, u, t, open, mine)
  \/ \E t \in Tickets : OpenTicket(t)
  \/ \E list \in Lists : OpenList(list)
  \/ AskLastEvent \/ Render \/ TakeEvent
  \/ \E f \in tab.fetching : FetchRow(f) \/ AddRow(f)

TicketsSpec == TicketsInit /\ [][TicketsNext]_kvars
-----------------------------------------------------------------------------
Settled ==
  /\ \A s \in Servers : server[s] = NoErrand
  /\ tab.at = "live" /\ tab.last = Len(posted) /\ tab.fetching = {}

TicketIsShown ==
  /\ tab.shown \subseteq MessagesOf(tab.ticket)
  /\ MessagesOf(tab.ticket) \ tab.shown \subseteq (IF tab.bare THEN FirstOf(tab.ticket) ELSE {})
  /\ tab.ticket \in crossed \cup tab.passed \/ tab.open = ticket[tab.ticket].open

\* A problem's list is told of tickets about all problems.
ListIsShown ==
  LET rows == {t \in Tickets : tab.rows[t] # "none"}
  IN  /\ listed(tab.own, tab.about) \subseteq rows
      /\ tab.about = "all" => rows \subseteq listed(tab.own, tab.about)
      /\ \A t \in rows \ (crossed \cup tab.passed \cup tab.elsewhere) : tab.rows[t] = state(ticket[t].open)

\* When nothing is under way, a ticket that is followed shows all of its
\* messages, a list of tickets has a row for each that belongs there, and no
\* other unless it is a problem's list, and each shows the state its ticket is
\* in: whatever was read, asked, told, answered and fetched in which order.  The
\* excuses are a ticket that was opened before its first message was saved, one
\* that two requests changed at once, a change between the two reads of a view or
\* during the fetch of a row, and a tab elsewhere.
TicketsAreShown == Settled => IF tab.kind = "ticket" THEN TicketIsShown ELSE ListIsShown
=============================================================================
