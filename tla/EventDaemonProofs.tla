-------------------------- MODULE EventDaemonProofs --------------------------
(***************************************************************************)
(* Proofs about EventDaemon, for any number of pages, any length of the    *)
(* buffer and any bounds: nobody is left behind, and no page is told an    *)
(* event twice or out of order.                                            *)
(***************************************************************************)
EXTENDS EventDaemon, FiniteSetTheorems, SequenceTheorems, TLAPS

PageType == [at : Stages, shown : 0 .. Final, last : Nat, late : BOOLEAN,
             ajax : {"idle", "sent", "got", "pause", "stuck"},
             fetched : 0 .. Final, again : BOOLEAN]
Message == [id : Nat, sub : BOOLEAN]

\* What the daemon and its pages keep is well typed, and no id is of the future.
DaemonTypes ==
  /\ row \in 0 .. Final /\ message_id \in Nat
  /\ messages \in Seq(Message)
  /\ \A i \in 1 .. Len(messages) : messages[i].id <= message_id
  /\ page \in [Pages -> PageType]
  /\ \A p \in Pages : page[p].last <= message_id
  /\ inbox \in [Pages -> Seq(Nat)]

\* The daemon's followers are the open sockets, and its pollers the requests
\* that wait, each of them once.
Audience ==
  /\ followers = {p \in Pages : page[p].at = "websocket"}
  /\ pollers \in Seq(Pages)
  /\ \A i, j \in 1 .. Len(pollers) : pollers[i] = pollers[j] => i = j
  /\ \A p \in Pages : page[p].at = "waiting" <=> \E i \in 1 .. Len(pollers) : pollers[i] = p

\* Events are on their way in the order of their ids, after what the page had,
\* to open sockets, and one by one to requests that were answered.
Ordered(p) ==
  /\ \A i \in 1 .. Len(inbox[p]) : page[p].last < inbox[p][i] /\ inbox[p][i] <= message_id
  /\ \A i, j \in 1 .. Len(inbox[p]) : i < j => inbox[p][i] < inbox[p][j]
  /\ page[p].at \notin {"websocket", "answered"} => Len(inbox[p]) = 0
  /\ page[p].at = "answered" => Len(inbox[p]) = 1

IsEvent(id) == \E j \in 1 .. Len(messages) : messages[j].id = id /\ messages[j].sub
Has(p, id) == id <= page[p].last \/ \E i \in 1 .. Len(inbox[p]) : inbox[p][i] = id

\* Whoever answered for another poller stays a poller, and is not closed.
Polls(p) == page[p].at \in {"polling", "waiting", "answered"}
CaughtUp ==
  /\ \A p \in Pages : page[p].at = "websocket" =>
       \A id \in Nat : IsEvent(id) /\ id > page[p].last => Has(p, id)
  /\ \A p \in Pages : page[p].at = "waiting" =>
       \A id \in Nat : IsEvent(id) /\ id > page[p].last =>
         \E q \in Pages \ {p} : Polls(q) /\ Has(q, id)

EventInv ==
  /\ DaemonTypes
  /\ Audience
  /\ \A p \in Pages : Ordered(p)
  /\ CaughtUp

-----------------------------------------------------------------------------
\* What an event of the buffer newer than last is.
LEMMA NewerIs ==
  ASSUME DaemonTypes
  PROVE  /\ \A last, id : id \in Newer(last) <=> IsEvent(id) /\ id > last
         /\ \A id : IsEvent(id) => id \in Nat /\ id <= message_id
<1>1. /\ \A j \in 1 .. Len(messages) : messages[j] \in Message /\ messages[j].id <= message_id
      /\ DOMAIN messages = 1 .. Len(messages)
  BY DEF DaemonTypes
<1>2. \A j \in 1 .. Len(messages) : messages[j].id \in Nat
  BY <1>1 DEF Message
<1> QED
  BY <1>1, <1>2 DEF Newer, IsEvent

\* The type of a page's fields.
LEMMA PageFields ==
  ASSUME DaemonTypes, NEW p \in Pages
  PROVE  /\ page[p] \in PageType /\ page[p].at \in Stages /\ page[p].last \in Nat
         /\ inbox[p] \in Seq(Nat) /\ Len(inbox[p]) \in Nat /\ message_id \in Nat
         /\ page[p].last <= message_id
         /\ \A i \in 1 .. Len(inbox[p]) : inbox[p][i] \in Nat
<1>1. page[p] \in PageType /\ inbox[p] \in Seq(Nat)
  BY DEF DaemonTypes
<1> QED
  BY <1>1 DEF DaemonTypes, PageType

\* A step of one page, or about it, that takes nothing from it as a witness for
\* other pollers and leaves it caught up.
PageMoves(p) ==
  /\ UNCHANGED <<messages, message_id>> /\ row' \in 0 .. Final
  /\ page' \in [Pages -> PageType] /\ inbox' \in [Pages -> Seq(Nat)]
  /\ \A q \in Pages \ {p} : page'[q] = page[q] /\ inbox'[q] = inbox[q]
  /\ page'[p].last <= message_id /\ page[p].last <= page'[p].last
  /\ Ordered(p)' /\ Audience'
  /\ Polls(p) => Polls(p)' /\ \A id \in Nat : Has(p, id) => Has(p, id)'
  /\ page'[p].at = "websocket" =>
       \A id \in Nat : IsEvent(id) /\ id > page'[p].last => Has(p, id)'
  /\ page'[p].at = "waiting" =>
       page[p].at = "waiting" \/ \A id \in Nat : IsEvent(id) => id <= page'[p].last

\* Such a step keeps the invariant.
LEMMA OnePage ==
  ASSUME EventInv, NEW p \in Pages, PageMoves(p)
  PROVE  EventInv'
<1> USE DEF PageMoves
<1>1. DaemonTypes'
  <2>1. \A q \in Pages : page'[q].last <= message_id
    BY DEF EventInv, DaemonTypes
  <2> QED
    BY <2>1 DEF EventInv, DaemonTypes
<1>2. \A id : IsEvent(id)' <=> IsEvent(id)
  BY DEF IsEvent
<1>3. \A q \in Pages : Ordered(q)'
  BY DEF EventInv, Ordered
<1>4. \A q \in Pages : Polls(q) => Polls(q)' /\ \A id \in Nat : Has(q, id) => Has(q, id)'
  BY DEF Polls, Has
<1>5. ASSUME NEW q \in Pages, page'[q].at = "websocket",
             NEW id \in Nat, IsEvent(id), id > page'[q].last
      PROVE  Has(q, id)'
  <2>1. CASE q = p
    BY <1>5, <2>1
  <2>2. CASE q # p
    <3>1. Has(q, id)
      BY <1>5, <2>2 DEF EventInv, CaughtUp
    <3> QED
      BY <2>2, <3>1 DEF Has
  <2> QED
    BY <2>1, <2>2
<1>6. ASSUME NEW q \in Pages, page'[q].at = "waiting",
             NEW id \in Nat, IsEvent(id), id > page'[q].last
      PROVE  \E other \in Pages \ {q} : Polls(other)' /\ Has(other, id)'
  <2>1. page[q].last \in Nat /\ page'[q].last \in Nat /\ page[q].last <= page'[q].last
    <3>1. page'[q].last \in Nat /\ page[q].last \in Nat
      BY DEF EventInv, DaemonTypes, PageType
    <3>2. page[q].last <= page'[q].last
      <4>1. CASE q = p
        BY <4>1
      <4>2. CASE q # p
        BY <3>1, <4>2
      <4> QED
        BY <4>1, <4>2
    <3> QED
      BY <3>1, <3>2
  <2>2. page[q].at = "waiting" /\ id > page[q].last
    BY <1>6, <2>1
  <2>3. PICK other \in Pages \ {q} : Polls(other) /\ Has(other, id)
    BY <1>6, <2>2 DEF EventInv, CaughtUp
  <2> QED
    BY <1>4, <2>3
<1>7. CaughtUp'
  BY <1>2, <1>5, <1>6 DEF CaughtUp
<1> QED
  BY <1>1, <1>3, <1>7 DEF EventInv

\* What a page shows or fetches is not the daemon's business, nor is a page
\* that is not told anything yet.
LEMMA Quietly ==
  ASSUME EventInv, NEW p \in Pages, NEW r \in PageType, page' = [page EXCEPT ![p] = r],
         UNCHANGED <<daemon, inbox>>, row' \in 0 .. Final,
         \/ r.at = page[p].at /\ r.last = page[p].last
         \/ /\ {page[p].at, r.at} \cap {"websocket", "waiting", "answered"} = {}
            /\ page[p].at # "polling" /\ r.last \in {page[p].last, message_id}
  PROVE  EventInv'
<1>1. /\ page' \in [Pages -> PageType] /\ page'[p] = r
      /\ \A q \in Pages \ {p} : page'[q] = page[q]
      /\ inbox' \in [Pages -> Seq(Nat)] /\ UNCHANGED <<messages, message_id, followers, pollers, inbox>>
  BY DEF EventInv, DaemonTypes, daemon
<1>2. r.last \in Nat /\ r.last <= message_id /\ page[p].last <= r.last
  BY PageFields DEF EventInv, PageType
<1>a. /\ page[p].at = "websocket" <=> r.at = "websocket"
      /\ page[p].at = "waiting" <=> r.at = "waiting"
      /\ page[p].at = "answered" <=> r.at = "answered"
  OBVIOUS
<1>3. Audience'
  <2>1. \A q \in Pages : /\ page'[q].at = "websocket" <=> page[q].at = "websocket"
                         /\ page'[q].at = "waiting" <=> page[q].at = "waiting"
    BY <1>1, <1>a
  <2> QED
    BY <1>1, <2>1 DEF EventInv, Audience
<1>4. Ordered(p)'
  <2>1. Ordered(p) /\ UNCHANGED <<inbox, message_id>>
    BY <1>1 DEF EventInv
  <2>2. CASE r.last = page[p].last
    BY <1>1, <1>a, <2>1, <2>2 DEF Ordered
  <2>3. CASE Len(inbox[p]) = 0
    <3>1. \A i : i \notin 1 .. Len(inbox[p])
      BY <2>3
    <3> QED
      BY <1>1, <1>a, <2>1, <3>1, <2>3 DEF Ordered
  <2> QED
    BY <2>1, <2>2, <2>3 DEF Ordered
<1>5. Polls(p) => Polls(p)' /\ \A id \in Nat : Has(p, id) => Has(p, id)'
  BY <1>1 DEF Polls, Has
<1>6. ASSUME page'[p].at = "websocket", NEW id \in Nat, IsEvent(id), id > page'[p].last
      PROVE  Has(p, id)'
  <2>1. Has(p, id)
    BY <1>1, <1>6 DEF EventInv, CaughtUp
  <2> QED
    BY <1>1, <1>6, <2>1 DEF Has
<1>7. page'[p].at = "waiting" => page[p].at = "waiting"
  BY <1>1
<1>8. PageMoves(p)
  BY <1>1, <1>2, <1>3, <1>4, <1>5, <1>6, <1>7 DEF PageMoves
<1> QED
  BY <1>8, OnePage

-----------------------------------------------------------------------------
(* The steps of one page *)

\* A page that is rendered, connects or fetches moves quietly.
LEMMA ScriptKeeps ==
  ASSUME EventInv, NEW p \in Pages,
         \/ StartMsg(p) \/ FallBack(p) \/ LoadRow(p) \/ AskLast(p)
         \/ Fetch(p) \/ Show(p) \/ Resume(p) \/ FetchFails(p)
  PROVE  EventInv'
<1>1. /\ page \in [Pages -> PageType] /\ page[p] \in PageType /\ row \in 0 .. Final
      /\ message_id \in Nat
  BY DEF EventInv, DaemonTypes
<1>2. UNCHANGED <<row, daemon, inbox>>
  BY DEF StartMsg, FallBack, LoadRow, AskLast, Fetch, Show, Resume, FetchFails, bridge
<1>3. CASE StartMsg(p) \/ FallBack(p)
  <2> DEFINE to == IF StartMsg(p) THEN "started" ELSE "polling"
             r == [page[p] EXCEPT !.at = to]
  <2>1. page[p].at = "opening" /\ page' = [page EXCEPT ![p] = r]
    BY <1>3 DEF StartMsg, FallBack
  <2>2. r \in PageType /\ r.at \in {"started", "polling"} /\ r.last = page[p].last
    BY <1>1 DEF PageType, Stages
  <2> HIDE DEF r
  <2> QED
    BY <1>1, <1>2, <2>1, <2>2, Quietly
<1>4. CASE LoadRow(p)
  <2> DEFINE r == [page[p] EXCEPT !.at = "ask", !.shown = row]
  <2>1. page[p].at = "none" /\ page' = [page EXCEPT ![p] = r]
    BY <1>1, <1>4 DEF LoadRow
  <2>2. r \in PageType /\ r.at = "ask" /\ r.last = page[p].last
    BY <1>1 DEF PageType, Stages
  <2> HIDE DEF r
  <2> QED
    BY <1>1, <1>2, <2>1, <2>2, Quietly
<1>5. CASE AskLast(p)
  <2>1. PICK at \in {"static", "opening"}, last \in {page[p].last, message_id}, late \in BOOLEAN :
          page[p].at = "ask" /\ page' = [page EXCEPT ![p].at = at, ![p].last = last, ![p].late = late]
    <3>1. CASE page' = [page EXCEPT ![p].at = "static"]
      <4>1. page' = [page EXCEPT ![p].at = "static", ![p].last = page[p].last,
                                 ![p].late = page[p].late]
        BY <1>1, <3>1 DEF PageType
      <4>2. page[p].late \in BOOLEAN
        BY <1>1 DEF PageType
      <4> QED
        BY <1>5, <4>1, <4>2 DEF AskLast
    <3> QED
      BY <1>5, <3>1 DEF AskLast
  <2> DEFINE r == [page[p] EXCEPT !.at = at, !.last = last, !.late = late]
  <2>2. page' = [page EXCEPT ![p] = r]
    BY <1>1, <2>1
  <2>3. r \in PageType /\ r.at \in {"static", "opening"} /\ r.last \in {page[p].last, message_id}
    BY <1>1, <2>1 DEF PageType, Stages
  <2>4. {page[p].at, r.at} \cap {"websocket", "waiting", "answered"} = {} /\ page[p].at # "polling"
    BY <2>1, <2>3
  <2> HIDE DEF r
  <2> QED
    BY <1>1, <1>2, <2>2, <2>3, <2>4, Quietly
<1>6. CASE Fetch(p) \/ Show(p) \/ FetchFails(p) \/ Resume(p)
  <2>1. PICK r \in PageType : /\ page' = [page EXCEPT ![p] = r]
                              /\ r.at = page[p].at /\ r.last = page[p].last
    <3>1. CASE Fetch(p)
      <4> DEFINE r == [page[p] EXCEPT !.ajax = "got", !.fetched = row]
      <4>1. r \in PageType /\ r.at = page[p].at /\ r.last = page[p].last
        BY <1>1 DEF PageType
      <4> QED
        BY <1>1, <3>1, <4>1 DEF Fetch
    <3>2. CASE Show(p)
      <4> DEFINE r == [page[p] EXCEPT !.ajax = "pause", !.shown = page[p].fetched]
      <4>1. r \in PageType /\ r.at = page[p].at /\ r.last = page[p].last
        BY <1>1 DEF PageType
      <4> QED
        BY <1>1, <3>2, <4>1 DEF Show
    <3>3. CASE FetchFails(p)
      <4> DEFINE r == [page[p] EXCEPT !.ajax = "stuck"]
      <4>1. r \in PageType /\ r.at = page[p].at /\ r.last = page[p].last
        BY <1>1 DEF PageType
      <4> QED
        BY <1>1, <3>3, <4>1 DEF FetchFails
    <3>4. CASE Resume(p)
      <4> DEFINE q == [page[p] EXCEPT !.ajax = "idle"]
                 u == [q EXCEPT !.ajax = "sent", !.again = FALSE]
                 r == IF q.again THEN u ELSE q
      <4>1. q \in PageType /\ q.at = page[p].at /\ q.last = page[p].last /\ q.ajax = "idle"
        BY <1>1 DEF PageType
      <4>2. u \in PageType /\ u.at = page[p].at /\ u.last = page[p].last
        BY <4>1 DEF PageType
      <4>3. page' = [page EXCEPT ![p] = r]
        BY <3>4, <4>1 DEF Resume, Update
      <4> QED
        BY <4>1, <4>2, <4>3
    <3> QED
      BY <1>6, <3>1, <3>2, <3>3, <3>4
  <2> QED
    BY <1>1, <1>2, <2>1, Quietly
<1> QED
  BY <1>3, <1>4, <1>5, <1>6

\* A walk through finitely many ids in their order meets each of them.
LEMMA WalksAll ==
  ASSUME NEW ids \in SUBSET Nat, IsFiniteSet(ids), NEW walk \in InOrder(ids)
  PROVE  /\ walk \in Seq(Nat)
         /\ \A i \in 1 .. Len(walk) : walk[i] \in ids
         /\ \A i, j \in 1 .. Len(walk) : i < j => walk[i] < walk[j]
         /\ \A id \in ids : \E i \in 1 .. Len(walk) : walk[i] = id
<1> DEFINE n == Cardinality(ids)
<1>1. n \in Nat
  BY FS_CardinalityType
<1>2. /\ walk \in [1 .. n -> ids]
      /\ \A i, j \in 1 .. n : i < j => walk[i] < walk[j]
  BY DEF InOrder
<1> HIDE DEF n
<1>a. walk \in [1 .. n -> Nat]
  BY <1>2
<1>3. walk \in Seq(Nat) /\ Len(walk) = n
  BY <1>1, <1>a
<1>4. ASSUME NEW i \in 1 .. n, NEW j \in 1 .. n, walk[i] = walk[j] PROVE i = j
  <2>1. walk[i] \in Nat /\ walk[j] \in Nat /\ i \in Int /\ j \in Int
    BY <1>a
  <2> QED
    BY <1>2, <1>4, <2>1
<1>5. walk \in Injection(1 .. n, ids)
  BY <1>2, <1>4 DEF Injection, IsInjective
<1>6. Cardinality(1 .. n) = n
  BY <1>1, FS_Interval
<1>7. walk \in Surjection(1 .. n, ids)
  BY <1>5, <1>6, FS_Injection DEF n
<1> QED
  BY <1>2, <1>3, <1>7 DEF Surjection

\* set-filter tells the socket everything it has not had.
LEMMA SetFilterKeeps ==
  ASSUME EventInv, NEW p \in Pages, SetFilter(p)
  PROVE  EventInv'
<1>1. /\ page \in [Pages -> PageType] /\ page[p] \in PageType /\ row \in 0 .. Final
      /\ message_id \in Nat /\ DaemonTypes /\ Ordered(p) /\ Audience
      /\ page[p].last \in Nat /\ page[p].last <= message_id
  BY PageFields DEF EventInv, DaemonTypes
<1>2. PICK news \in InOrder(Newer(page[p].last)) :
        /\ inbox' = [inbox EXCEPT ![p] = inbox[p] \o news]
        /\ page[p].at = "started" /\ page' = [page EXCEPT ![p].at = "websocket"]
        /\ followers' = followers \cup {p} /\ UNCHANGED <<row, messages, message_id, pollers>>
  BY DEF SetFilter, bridge
<1>3. /\ Newer(page[p].last) \in SUBSET Nat /\ IsFiniteSet(Newer(page[p].last))
      /\ \A id \in Newer(page[p].last) : id > page[p].last /\ id <= message_id
  <2>1. Newer(page[p].last) \subseteq 0 .. message_id
    BY <1>1, NewerIs
  <2>2. IsFiniteSet(0 .. message_id)
    BY <1>1, FS_Interval
  <2> QED
    BY <1>1, <2>1, <2>2, FS_Subset, NewerIs
<1>4. /\ news \in Seq(Nat)
      /\ \A i \in 1 .. Len(news) : news[i] \in Newer(page[p].last)
      /\ \A i, j \in 1 .. Len(news) : i < j => news[i] < news[j]
      /\ \A id \in Newer(page[p].last) : \E i \in 1 .. Len(news) : news[i] = id
  BY <1>3, WalksAll
<1>5. inbox'[p] = news /\ inbox' \in [Pages -> Seq(Nat)]
  <2>1. inbox[p] \in Seq(Nat) /\ Len(inbox[p]) = 0
    BY <1>1, <1>2 DEF DaemonTypes, Ordered
  <2>3. inbox[p] = <<>>
    BY <2>1
  <2>2. inbox[p] \o news = news
    BY <1>4, <2>3
  <2> QED
    BY <1>1, <1>2, <1>4, <2>2 DEF DaemonTypes
<1>6. /\ page' \in [Pages -> PageType] /\ page'[p].last = page[p].last
      /\ page'[p].at = "websocket"
      /\ \A q \in Pages \ {p} : page'[q] = page[q] /\ inbox'[q] = inbox[q]
  BY <1>1, <1>2 DEF PageType, Stages, DaemonTypes
<1>7. Ordered(p)'
  BY <1>2, <1>3, <1>4, <1>5, <1>6 DEF Ordered
<1>8. Audience'
  BY <1>1, <1>2, <1>6 DEF Audience
<1>9. \A id \in Nat : IsEvent(id) /\ id > page'[p].last => Has(p, id)'
  BY <1>1, <1>4, <1>5, <1>6, NewerIs DEF Has
<1>10. ~Polls(p)
  BY <1>2 DEF Polls
<1> QED
  <2>1. PageMoves(p)
    BY <1>1, <1>2, <1>5, <1>6, <1>7, <1>8, <1>9, <1>10 DEF PageMoves
  <2> QED
    BY <2>1, OnePage

\* A poller waits with nothing to have, or is answered with the first event
\* it has not had.
LEMMA PollKeeps ==
  ASSUME EventInv, NEW p \in Pages, Poll(p)
  PROVE  EventInv'
<1>1. /\ page \in [Pages -> PageType] /\ page[p] \in PageType /\ row \in 0 .. Final
      /\ message_id \in Nat /\ DaemonTypes /\ Ordered(p) /\ Audience
      /\ page[p].last \in Nat /\ page[p].last <= message_id
      /\ page[p].at = "polling" /\ UNCHANGED <<row, messages, message_id, followers>>
      /\ inbox \in [Pages -> Seq(Nat)] /\ Len(inbox[p]) = 0 /\ pollers \in Seq(Pages)
  BY PageFields DEF EventInv, DaemonTypes, Poll, bridge, Ordered, Audience
<1>2. ASSUME NEW at \in {"answered", "waiting"}, page' = [page EXCEPT ![p].at = at]
      PROVE  /\ page' \in [Pages -> PageType] /\ page'[p].last = page[p].last
             /\ page'[p].at = at /\ \A q \in Pages \ {p} : page'[q] = page[q]
  BY <1>1, <1>2 DEF PageType, Stages
<1>3. CASE /\ UNCHANGED pollers
           /\ \E id \in First(Newer(page[p].last)) : inbox' = [inbox EXCEPT ![p] = <<id>>]
           /\ page' = [page EXCEPT ![p].at = "answered"]
  <2>1. PICK id \in Nat : /\ inbox' = [inbox EXCEPT ![p] = <<id>>]
                          /\ id > page[p].last /\ id <= message_id
    BY <1>1, <1>3, NewerIs DEF First
  <2>2. /\ page' \in [Pages -> PageType] /\ page'[p].last = page[p].last
        /\ page'[p].at = "answered" /\ \A q \in Pages \ {p} : page'[q] = page[q]
    BY <1>2, <1>3
  <2>3. /\ inbox' \in [Pages -> Seq(Nat)] /\ inbox'[p] = <<id>>
        /\ \A q \in Pages \ {p} : inbox'[q] = inbox[q]
    BY <1>1, <2>1
  <2>4. Ordered(p)'
    BY <1>1, <2>1, <2>2, <2>3 DEF Ordered
  <2>5. Audience'
    BY <1>1, <1>3, <2>2 DEF Audience
  <2>6. Polls(p)' /\ \A other \in Nat : Has(p, other) => Has(p, other)'
    BY <1>1, <2>2 DEF Polls, Has
  <2>7. PageMoves(p)
    BY <1>1, <2>2, <2>3, <2>4, <2>5, <2>6 DEF PageMoves
  <2> QED
    BY <2>7, OnePage
<1>4. CASE /\ Newer(page[p].last) = {} /\ pollers' = Append(pollers, p) /\ UNCHANGED inbox
           /\ page' = [page EXCEPT ![p].at = "waiting"]
  <2>1. /\ page' \in [Pages -> PageType] /\ page'[p].last = page[p].last
        /\ page'[p].at = "waiting" /\ \A q \in Pages \ {p} : page'[q] = page[q]
    BY <1>2, <1>4
  <2>2. \A id \in Nat : IsEvent(id) => id <= page'[p].last
    <3>1. \A id \in Nat : IsEvent(id) => ~(id > page[p].last)
      BY <1>1, <1>4, NewerIs
    <3> QED
      BY <1>1, <2>1, <3>1
  <2>3. Ordered(p)'
    BY <1>1, <1>4, <2>1 DEF Ordered
  <2>4. Audience'
    <3>1. \A i \in 1 .. Len(pollers) : pollers[i] # p
      BY <1>1 DEF Audience
    <3>2. /\ pollers' \in Seq(Pages) /\ Len(pollers') = Len(pollers) + 1
          /\ pollers'[Len(pollers) + 1] = p /\ Len(pollers) \in Nat
          /\ \A i \in 1 .. Len(pollers) : pollers'[i] = pollers[i]
      BY <1>1, <1>4
    <3>3. \A i, j \in 1 .. Len(pollers') : pollers'[i] = pollers'[j] => i = j
      <4>1. \A i, j \in 1 .. Len(pollers) : pollers[i] = pollers[j] => i = j
        BY <1>1 DEF Audience
      <4>2. \A i \in 1 .. Len(pollers') : i \in 1 .. Len(pollers) \/ i = Len(pollers) + 1
        BY <3>2
      <4> QED
        BY <3>1, <3>2, <4>1, <4>2
    <3>4. \A q \in Pages :
            page'[q].at = "waiting" <=> \E i \in 1 .. Len(pollers') : pollers'[i] = q
      <4>1. ASSUME NEW q \in Pages \ {p}
            PROVE  page[q].at = "waiting" <=> \E i \in 1 .. Len(pollers') : pollers'[i] = q
        <5>1. page[q].at = "waiting" <=> \E i \in 1 .. Len(pollers) : pollers[i] = q
          BY <1>1 DEF Audience
        <5>2. \A i \in 1 .. Len(pollers') : i \in 1 .. Len(pollers) \/ i = Len(pollers) + 1
          BY <3>2
        <5>3. \A i \in 1 .. Len(pollers) : i \in 1 .. Len(pollers')
          BY <3>2
        <5> QED
          BY <3>2, <5>1, <5>2, <5>3
      <4>2. \E i \in 1 .. Len(pollers') : pollers'[i] = p
        BY <3>2
      <4> QED
        BY <2>1, <4>1, <4>2
    <3>5. followers' = {q \in Pages : page'[q].at = "websocket"}
      <4>1. \A q \in Pages : page'[q].at = "websocket" <=> page[q].at = "websocket"
        BY <1>1, <2>1
      <4> QED
        BY <1>1, <4>1 DEF Audience
    <3> QED
      BY <3>2, <3>3, <3>4, <3>5 DEF Audience
  <2>5. Polls(p)' /\ \A id \in Nat : Has(p, id) => Has(p, id)'
    BY <1>4, <2>1 DEF Polls, Has
  <2>6. PageMoves(p)
    BY <1>1, <1>4, <2>1, <2>2, <2>3, <2>4, <2>5 DEF PageMoves
  <2> QED
    BY <2>6, OnePage
<1> QED
  BY <1>3, <1>4 DEF Poll

\* Removing one element keeps the others, in their order.
LEMMA RemoveAtFacts ==
  ASSUME NEW S, NEW seq \in Seq(S), NEW i \in 1 .. Len(seq)
  PROVE  /\ RemoveAt(seq, i) \in Seq(S)
         /\ Len(RemoveAt(seq, i)) = Len(seq) - 1 /\ Len(seq) \in Nat
         /\ \A j \in 1 .. (Len(seq) - 1) :
              RemoveAt(seq, i)[j] = IF j < i THEN seq[j] ELSE seq[j + 1]
<1> DEFINE a == SubSeq(seq, 1, i - 1)
           b == SubSeq(seq, i + 1, Len(seq))
<1>1. a \in Seq(S) /\ Len(a) = i - 1 /\ \A j \in 1 .. (i - 1) : a[j] = seq[j]
  OBVIOUS
<1>2. /\ b \in Seq(S) /\ Len(b) = Len(seq) - i
      /\ \A j \in 1 .. (Len(seq) - i) : b[j] = seq[i + j]
  OBVIOUS
<1>3. RemoveAt(seq, i) = a \o b
  BY DEF RemoveAt
<1> HIDE DEF a, b
<1>4. /\ (a \o b) \in Seq(S) /\ Len(a \o b) = Len(a) + Len(b)
      /\ \A j \in 1 .. (Len(a) + Len(b)) : (a \o b)[j] = IF j <= Len(a) THEN a[j] ELSE b[j - Len(a)]
  BY <1>1, <1>2, ConcatProperties
<1>6. Len(seq) \in Nat /\ i \in Nat
  OBVIOUS
<1>7. ASSUME NEW j \in 1 .. (Len(seq) - 1)
      PROVE  (a \o b)[j] = IF j < i THEN seq[j] ELSE seq[j + 1]
  <2>1. CASE j < i
    BY <1>1, <1>2, <1>4, <1>6, <2>1
  <2>2. CASE ~(j < i)
    <3>1. j - (i - 1) \in 1 .. (Len(seq) - i) /\ i + (j - (i - 1)) = j + 1
      BY <1>6, <2>2
    <3>2. (a \o b)[j] = b[j - (i - 1)]
      BY <1>1, <1>2, <1>4, <1>6, <2>2
    <3> QED
      BY <1>2, <1>6, <2>2, <3>1, <3>2
  <2> QED
    BY <2>1, <2>2
<1>8. Len(a \o b) = Len(seq) - 1
  <2>1. Len(a) = i - 1 /\ Len(b) = Len(seq) - i /\ Len(a \o b) = Len(a) + Len(b)
    BY <1>1, <1>2, <1>4
  <2> QED
    BY <1>6, <2>1
<1>9. (a \o b) \in Seq(S)
  BY <1>4
<1> QED
  BY <1>3, <1>6, <1>7, <1>8, <1>9

\* A long poll that times out leaves the pollers, and asks again.
LEMMA PollTimeoutKeeps ==
  ASSUME EventInv, NEW p \in Pages, PollTimeout(p)
  PROVE  EventInv'
<1>1. /\ page \in [Pages -> PageType] /\ page[p] \in PageType /\ row \in 0 .. Final
      /\ message_id \in Nat /\ DaemonTypes /\ Ordered(p) /\ Audience
      /\ page[p].last \in Nat /\ page[p].last <= message_id
      /\ page[p].at = "waiting" /\ UNCHANGED <<row, messages, message_id, followers, inbox>>
      /\ inbox \in [Pages -> Seq(Nat)] /\ Len(inbox[p]) = 0 /\ pollers \in Seq(Pages)
  BY PageFields DEF EventInv, DaemonTypes, PollTimeout, bridge, Ordered, Audience
<1>2. /\ page' \in [Pages -> PageType] /\ page'[p].last = page[p].last
      /\ page'[p].at = "polling" /\ \A q \in Pages \ {p} : page'[q] = page[q]
  BY <1>1 DEF PageType, Stages, PollTimeout
<1>3. PICK i \in 1 .. Len(pollers) : pollers[i] = p /\ pollers' = RemoveAt(pollers, i)
  <2>1. DOMAIN pollers = 1 .. Len(pollers)
    BY <1>1
  <2> QED
    BY <2>1 DEF PollTimeout
<1>4. /\ pollers' \in Seq(Pages) /\ Len(pollers') = Len(pollers) - 1 /\ Len(pollers) \in Nat
      /\ \A j \in 1 .. (Len(pollers) - 1) :
           pollers'[j] = IF j < i THEN pollers[j] ELSE pollers[j + 1]
  <2>1. Len(pollers) \in Nat
    BY <1>1
  <2>2. /\ RemoveAt(pollers, i) \in Seq(Pages) /\ Len(RemoveAt(pollers, i)) = Len(pollers) - 1
        /\ \A j \in 1 .. (Len(pollers) - 1) :
             RemoveAt(pollers, i)[j] = IF j < i THEN pollers[j] ELSE pollers[j + 1]
    BY <1>1, RemoveAtFacts
  <2> QED
    BY <1>1, <1>3, <2>1, <2>2
<1>5. Audience'
  <2>1. \A j, k \in 1 .. Len(pollers) : pollers[j] = pollers[k] => j = k
    BY <1>1 DEF Audience
  <2>2. \A j, k \in 1 .. Len(pollers') : pollers'[j] = pollers'[k] => j = k
    BY <1>4, <2>1
  <2>3. \A j \in 1 .. Len(pollers') : pollers'[j] # p
    BY <1>3, <1>4, <2>1
  <2>4. ASSUME NEW q \in Pages \ {p}, page[q].at = "waiting"
        PROVE  \E j \in 1 .. Len(pollers') : pollers'[j] = q
    <3>1. PICK k \in 1 .. Len(pollers) : pollers[k] = q
      BY <1>1, <2>4 DEF Audience
    <3>2. k # i
      BY <1>3, <3>1
    <3>3. CASE k < i
      BY <1>4, <3>1, <3>3
    <3>4. CASE k > i
      <4>1. k - 1 \in 1 .. Len(pollers') /\ ~(k - 1 < i) /\ (k - 1) + 1 = k
        BY <1>4, <3>4
      <4> QED
        BY <1>4, <3>1, <4>1
    <3> QED
      BY <3>2, <3>3, <3>4
  <2>5. ASSUME NEW q \in Pages \ {p}, NEW j \in 1 .. Len(pollers'), pollers'[j] = q
        PROVE  page[q].at = "waiting"
    <3>1. \E k \in 1 .. Len(pollers) : pollers[k] = q
      BY <1>4, <2>5
    <3> QED
      BY <1>1, <3>1 DEF Audience
  <2>6. \A q \in Pages : page'[q].at = "waiting" <=> \E j \in 1 .. Len(pollers') : pollers'[j] = q
    BY <1>2, <2>3, <2>4, <2>5
  <2>7. followers' = {q \in Pages : page'[q].at = "websocket"}
    <3>1. \A q \in Pages : page'[q].at = "websocket" <=> page[q].at = "websocket"
      BY <1>1, <1>2
    <3> QED
      BY <1>1, <3>1 DEF Audience
  <2> QED
    BY <1>4, <2>2, <2>6, <2>7 DEF Audience
<1>6. Ordered(p)'
  BY <1>1, <1>2 DEF Ordered
<1>7. Polls(p)' /\ \A id \in Nat : Has(p, id) => Has(p, id)'
  BY <1>1, <1>2 DEF Polls, Has
<1>8. PageMoves(p)
  BY <1>1, <1>2, <1>5, <1>6, <1>7 DEF PageMoves
<1> QED
  BY <1>8, OnePage

\* A socket that closes is told nothing more.
LEMMA SocketClosesKeeps ==
  ASSUME EventInv, NEW p \in Pages, SocketCloses(p)
  PROVE  EventInv'
<1>1. /\ page \in [Pages -> PageType] /\ page[p] \in PageType /\ row \in 0 .. Final
      /\ message_id \in Nat /\ Audience
      /\ page[p].last \in Nat /\ page[p].last <= message_id
      /\ page[p].at \in {"started", "websocket"}
      /\ UNCHANGED <<row, messages, message_id, pollers>>
      /\ inbox \in [Pages -> Seq(Nat)]
  BY PageFields DEF EventInv, DaemonTypes, SocketCloses, bridge
<1>2. /\ page' \in [Pages -> PageType] /\ page'[p].last = page[p].last
      /\ page'[p].at = "closed" /\ \A q \in Pages \ {p} : page'[q] = page[q]
  BY <1>1 DEF PageType, Stages, SocketCloses
<1>3. /\ inbox' \in [Pages -> Seq(Nat)] /\ Len(inbox'[p]) = 0
      /\ \A q \in Pages \ {p} : inbox'[q] = inbox[q]
  BY <1>1 DEF SocketCloses
<1>4. Audience'
  BY <1>1, <1>2 DEF Audience, SocketCloses
<1>5. Ordered(p)'
  BY <1>1, <1>2, <1>3 DEF Ordered
<1>6. ~Polls(p)
  BY <1>1 DEF Polls
<1>7. PageMoves(p)
  BY <1>1, <1>2, <1>3, <1>4, <1>5, <1>6 DEF PageMoves
<1> QED
  BY <1>7, OnePage

\* An event that is received is the newest the page has had.
LEMMA ReceiveKeeps ==
  ASSUME EventInv, NEW p \in Pages, Receive(p)
  PROVE  EventInv' /\ page'[p].last > page[p].last
<1>1. /\ page \in [Pages -> PageType] /\ page[p] \in PageType /\ row \in 0 .. Final
      /\ message_id \in Nat /\ Audience /\ Ordered(p) /\ DaemonTypes
      /\ page[p].last \in Nat /\ page[p].last <= message_id
      /\ inbox \in [Pages -> Seq(Nat)] /\ inbox[p] \in Seq(Nat)
      /\ UNCHANGED <<row, messages, message_id, pollers, followers>>
  BY PageFields DEF EventInv, DaemonTypes, Receive, bridge, daemon
<1>2. /\ inbox[p] # <<>> /\ inbox' = [inbox EXCEPT ![p] = Tail(inbox[p])]
      /\ Len(inbox[p]) \in Nat /\ Len(inbox[p]) > 0
  BY <1>1 DEF Receive
<1>3. /\ Tail(inbox[p]) \in Seq(Nat) /\ Len(Tail(inbox[p])) = Len(inbox[p]) - 1
      /\ Head(inbox[p]) = inbox[p][1]
      /\ \A i \in 1 .. (Len(inbox[p]) - 1) : Tail(inbox[p])[i] = inbox[p][i + 1]
  BY <1>1, <1>2
<1>4. /\ inbox' \in [Pages -> Seq(Nat)] /\ inbox'[p] = Tail(inbox[p])
      /\ \A q \in Pages \ {p} : inbox'[q] = inbox[q]
  BY <1>1, <1>2, <1>3
<1>5. /\ inbox[p][1] \in Nat /\ inbox[p][1] > page[p].last /\ inbox[p][1] <= message_id
      /\ \A i \in 2 .. Len(inbox[p]) : inbox[p][1] < inbox[p][i] /\ inbox[p][i] <= message_id
      /\ page[p].at \in {"websocket", "answered"}
  BY <1>1, <1>2 DEF Ordered
<1> DEFINE u == Update(page[p])
           at == IF page[p].at = "answered" THEN "polling" ELSE page[p].at
           r == [u EXCEPT !.last = Head(inbox[p]), !.at = at]
<1>6. u \in PageType /\ u.at = page[p].at
  <2>1. [page[p] EXCEPT !.ajax = "sent", !.again = FALSE] \in PageType
    BY <1>1 DEF PageType
  <2>2. [page[p] EXCEPT !.again = TRUE] \in PageType
    BY <1>1 DEF PageType
  <2> QED
    BY <1>1, <2>1, <2>2 DEF Update, PageType
<1>7. at \in {"polling", "websocket"} /\ at \in Stages
  BY <1>5 DEF Stages
<1>8. page' = [page EXCEPT ![p] = r]
  BY <1>1 DEF Receive
<1> HIDE DEF u
<1>9. r \in PageType /\ r.at = at /\ r.last = inbox[p][1]
  BY <1>3, <1>5, <1>6, <1>7 DEF PageType
<1>10. /\ page' \in [Pages -> PageType] /\ page'[p].last = inbox[p][1] /\ page'[p].at = at
       /\ \A q \in Pages \ {p} : page'[q] = page[q]
  BY <1>1, <1>8, <1>9
<1> HIDE DEF r
<1>11. Ordered(p)'
  <2>1. page[p].at = "answered" => Len(inbox[p]) = 1
    BY <1>1 DEF Ordered
  <2>2. \A i, j \in 1 .. Len(inbox[p]) : i < j => inbox[p][i] < inbox[p][j]
    BY <1>1 DEF Ordered
  <2>3. \A i, j \in 1 .. Len(inbox'[p]) : i < j => inbox'[p][i] < inbox'[p][j]
    BY <1>2, <1>3, <1>4, <2>2
  <2>4. \A i \in 1 .. Len(inbox'[p]) :
          page'[p].last < inbox'[p][i] /\ inbox'[p][i] <= message_id'
    BY <1>1, <1>2, <1>3, <1>4, <1>5, <1>10
  <2>5. page'[p].at \notin {"websocket", "answered"} => Len(inbox'[p]) = 0
    BY <1>2, <1>3, <1>4, <1>5, <1>10, <2>1
  <2>6. page'[p].at # "answered"
    BY <1>7, <1>10
  <2> QED
    BY <2>3, <2>4, <2>5, <2>6 DEF Ordered
<1>12. Audience'
  <2>1. \A q \in Pages : /\ page'[q].at = "websocket" <=> page[q].at = "websocket"
                         /\ page'[q].at = "waiting" <=> page[q].at = "waiting"
    BY <1>5, <1>10
  <2> QED
    BY <1>1, <2>1 DEF Audience
<1>13. ASSUME NEW id \in Nat, Has(p, id) PROVE Has(p, id)'
  <2>1. CASE id <= page[p].last
    <3>1. Has(p, id)' <=> \/ id <= inbox[p][1]
                          \/ \E i \in 1 .. Len(inbox'[p]) : inbox'[p][i] = id
      BY <1>10 DEF Has
    <3> QED
      BY <1>1, <1>5, <2>1, <3>1
  <2>2. CASE \E i \in 1 .. Len(inbox[p]) : inbox[p][i] = id
    <3>1. PICK i \in 1 .. Len(inbox[p]) : inbox[p][i] = id
      BY <2>2
    <3>2. CASE i = 1
      BY <1>5, <1>10, <3>1, <3>2 DEF Has
    <3>3. CASE i > 1
      <4>1. i - 1 \in 1 .. Len(inbox'[p]) /\ inbox'[p][i - 1] = id
        BY <1>2, <1>3, <1>4, <3>1, <3>3
      <4> QED
        BY <4>1 DEF Has
    <3> QED
      BY <3>2, <3>3
  <2> QED
    BY <1>13, <2>1, <2>2 DEF Has
<1>14. page'[p].at = "websocket" =>
         \A id \in Nat : IsEvent(id) /\ id > page'[p].last => Has(p, id)'
  <2> SUFFICES ASSUME page'[p].at = "websocket", NEW id \in Nat, IsEvent(id), id > page'[p].last
               PROVE  Has(p, id)'
    OBVIOUS
  <2>1. page[p].at = "websocket" /\ id > page[p].last
    BY <1>1, <1>5, <1>10, NewerIs
  <2> QED
    BY <1>13, <2>1 DEF EventInv, CaughtUp
<1>15. Polls(p) => Polls(p)'
  BY <1>5, <1>10 DEF Polls
<1>16. page'[p].at # "waiting"
  BY <1>7, <1>10
<1>17. PageMoves(p)
  BY <1>1, <1>4, <1>5, <1>10, <1>11, <1>12, <1>13, <1>14, <1>15, <1>16 DEF PageMoves
<1> QED
  BY <1>5, <1>10, <1>17, OnePage

-----------------------------------------------------------------------------
(* The steps that reach many pages *)

\* Every other poller is answered, and the ones between them are passed over.
LEMMA EveryOther ==
  ASSUME NEW S, NEW seq \in Seq(S),
         \A i, j \in 1 .. Len(seq) : seq[i] = seq[j] => i = j
  PROVE  /\ PassedOver(seq) \in Seq(S)
         /\ \A i, j \in 1 .. Len(PassedOver(seq)) :
              PassedOver(seq)[i] = PassedOver(seq)[j] => i = j
         /\ \A i \in 1 .. Len(seq) : seq[i] \in Answered(seq) <=> i % 2 = 1
         /\ \A i \in 1 .. Len(PassedOver(seq)) :
              \E j \in 1 .. Len(seq) : /\ PassedOver(seq)[i] = seq[j] /\ j % 2 = 0
                                       /\ j - 1 \in 1 .. Len(seq) /\ (j - 1) % 2 = 1
         /\ \A j \in 1 .. Len(seq) : j % 2 = 0 =>
              \E i \in 1 .. Len(PassedOver(seq)) : PassedOver(seq)[i] = seq[j]
         /\ \A x \in Answered(seq) : \E i \in 1 .. Len(seq) : seq[i] = x
<1> DEFINE n == Len(seq)
           m == n \div 2
<1>1. n \in Nat /\ m \in Nat /\ 2 * m <= n /\ n <= 2 * m + 1 /\ DOMAIN seq = 1 .. n
  OBVIOUS
<1>2. \A i \in 1 .. m : 2 * i \in 1 .. n /\ 2 * i - 1 \in 1 .. n
                        /\ (2 * i) % 2 = 0 /\ (2 * i - 1) % 2 = 1
  BY <1>1
<1>3. PassedOver(seq) = [i \in 1 .. m |-> seq[2 * i]]
  BY DEF PassedOver
<1>4. \A i \in 1 .. n : seq[i] \in S
  BY <1>1
<1> HIDE DEF m, n
<1>5. PassedOver(seq) \in Seq(S) /\ Len(PassedOver(seq)) = m
  <2>1. PassedOver(seq) \in [1 .. m -> S]
    BY <1>2, <1>3, <1>4
  <2> QED
    BY <1>1, <2>1
<1>6. \A i \in 1 .. m : PassedOver(seq)[i] = seq[2 * i]
  BY <1>3
<1>7. \A i, j \in 1 .. n : seq[i] = seq[j] => i = j
  BY DEF n
<1>8. \A i, j \in 1 .. m : PassedOver(seq)[i] = PassedOver(seq)[j] => i = j
  BY <1>2, <1>6, <1>7
<1>9. \A i \in 1 .. n : seq[i] \in Answered(seq) <=> i % 2 = 1
  BY <1>1, <1>7 DEF Answered
<1>10. \A i \in 1 .. m : \E j \in 1 .. n : /\ PassedOver(seq)[i] = seq[j] /\ j % 2 = 0
                                           /\ j - 1 \in 1 .. n /\ (j - 1) % 2 = 1
  <2> SUFFICES ASSUME NEW i \in 1 .. m
               PROVE  \E j \in 1 .. n : /\ PassedOver(seq)[i] = seq[j] /\ j % 2 = 0
                                        /\ j - 1 \in 1 .. n /\ (j - 1) % 2 = 1
    OBVIOUS
  <2>1. 2 * i \in 1 .. n
    BY <1>2
  <2> QED
    BY <1>2, <1>6, <2>1
<1>11. ASSUME NEW j \in 1 .. n, j % 2 = 0
       PROVE  \E i \in 1 .. m : PassedOver(seq)[i] = seq[j]
  <2>1. j \div 2 \in 1 .. m /\ 2 * (j \div 2) = j
    BY <1>1, <1>11
  <2> QED
    BY <1>6, <2>1
<1>12. \A x \in Answered(seq) : \E i \in 1 .. n : seq[i] = x
  BY <1>1 DEF Answered
<1> QED
  BY <1>5, <1>8, <1>9, <1>10, <1>11, <1>12 DEF n

\* An event is told to every open socket and to every other poller.
LEMMA PostKeeps ==
  ASSUME EventInv, NEW sub \in BOOLEAN, Post(sub), UNCHANGED row
  PROVE  /\ EventInv'
         /\ \A p \in Pages : Len(inbox[p]) <= Len(inbox'[p])
<1>0. PICK id \in Nat : id = message_id + 1
  <2>1. message_id \in Nat
    BY DEF EventInv, DaemonTypes
  <2> QED
    BY <2>1
<1> DEFINE told == IF sub THEN followers \cup Answered(pollers) ELSE {}
           message == [id |-> id, sub |-> sub]
           all == Append(messages, message)
<1>1. /\ DaemonTypes /\ Audience /\ CaughtUp /\ message_id \in Nat /\ id \in Nat
      /\ page \in [Pages -> PageType] /\ inbox \in [Pages -> Seq(Nat)] /\ pollers \in Seq(Pages)
      /\ \A i, j \in 1 .. Len(pollers) : pollers[i] = pollers[j] => i = j
      /\ \A p \in Pages : page[p].last <= message_id /\ Ordered(p) /\ page[p].last \in Nat
  BY <1>0, PageFields DEF EventInv, DaemonTypes, Audience
<1>2. /\ message_id' = id /\ UNCHANGED followers
      /\ messages' = IF Len(all) > max_queue THEN Tail(all) ELSE all
      /\ inbox' = [p \in Pages |-> IF p \in told THEN Append(inbox[p], id) ELSE inbox[p]]
      /\ pollers' = IF sub THEN PassedOver(pollers) ELSE pollers
      /\ page' = [p \in Pages |-> IF p \in told \ followers
                                  THEN [page[p] EXCEPT !.at = "answered"] ELSE page[p]]
  BY <1>0 DEF Post
<1>3. /\ messages' \in Seq(Message)
      /\ \A j \in 1 .. Len(messages') :
           \/ \E k \in 1 .. Len(messages) : messages'[j] = messages[k]
           \/ messages'[j] = message
  <2>1. /\ messages \in Seq(Message) /\ message \in Message
    BY <1>1 DEF DaemonTypes, Message
  <2> HIDE DEF message
  <2>2. /\ all \in Seq(Message) /\ Len(all) = Len(messages) + 1 /\ Len(messages) \in Nat
        /\ \A j \in 1 .. Len(messages) : all[j] = messages[j]
        /\ all[Len(messages) + 1] = message
    BY <2>1
  <2>3. \A j \in 1 .. Len(all) : \/ \E k \in 1 .. Len(messages) : all[j] = messages[k]
                                 \/ all[j] = message
    <3>1. \A j \in 1 .. Len(all) : j \in 1 .. Len(messages) \/ j = Len(messages) + 1
      BY <2>2
    <3> QED
      BY <2>2, <3>1
  <2> HIDE DEF all
  <2>4. /\ Tail(all) \in Seq(Message) /\ Len(Tail(all)) = Len(messages)
        /\ \A j \in 1 .. Len(messages) : Tail(all)[j] = all[j + 1] /\ j + 1 \in 1 .. Len(all)
    BY <2>2
  <2> QED
    BY <1>2, <2>2, <2>3, <2>4
<1>4. \A x \in Nat : IsEvent(x)' => IsEvent(x) \/ (sub /\ x = id)
  BY <1>3 DEF IsEvent
<1>5. \A j \in 1 .. Len(messages') : messages'[j].id <= message_id'
  <2>1. \A k \in 1 .. Len(messages) : messages[k] \in Message /\ messages[k].id <= message_id
    BY <1>1 DEF DaemonTypes
  <2>2. \A k \in 1 .. Len(messages) : messages[k].id \in Nat /\ messages[k].id <= message_id
    BY <2>1 DEF Message
  <2>3. message.id = id /\ id <= message_id' /\ message_id <= message_id'
    BY <1>0, <1>1, <1>2
  <2> HIDE DEF message
  <2> SUFFICES ASSUME NEW j \in 1 .. Len(messages') PROVE messages'[j].id <= message_id'
    OBVIOUS
  <2>4. CASE \E k \in 1 .. Len(messages) : messages'[j] = messages[k]
    BY <1>0, <1>1, <1>2, <2>2, <2>3, <2>4
  <2>5. CASE messages'[j] = message
    BY <2>3, <2>5
  <2> QED
    BY <1>3, <2>4, <2>5
<1> HIDE DEF message, all
<1>6. ASSUME NEW p \in Pages
      PROVE  /\ page'[p] \in PageType /\ page'[p].last = page[p].last
             /\ page'[p].at = IF p \in told \ followers THEN "answered" ELSE page[p].at
  <2>1. page[p] \in PageType /\ [page[p] EXCEPT !.at = "answered"] \in PageType
    BY <1>1 DEF PageType, Stages
  <2> HIDE DEF told
  <2> QED
    BY <1>2, <2>1 DEF PageType
<1>7. /\ \A x \in Answered(pollers) : \E i \in 1 .. Len(pollers) : pollers[i] = x
      /\ PassedOver(pollers) \in Seq(Pages)
      /\ \A i, j \in 1 .. Len(PassedOver(pollers)) :
           PassedOver(pollers)[i] = PassedOver(pollers)[j] => i = j
      /\ \A i \in 1 .. Len(pollers) : pollers[i] \in Answered(pollers) <=> i % 2 = 1
      /\ \A i \in 1 .. Len(PassedOver(pollers)) :
           \E j \in 1 .. Len(pollers) : /\ PassedOver(pollers)[i] = pollers[j] /\ j % 2 = 0
                                        /\ j - 1 \in 1 .. Len(pollers) /\ (j - 1) % 2 = 1
      /\ \A j \in 1 .. Len(pollers) : j % 2 = 0 =>
           \E i \in 1 .. Len(PassedOver(pollers)) : PassedOver(pollers)[i] = pollers[j]
  BY <1>1, EveryOther
<1>8. /\ \A p \in Pages : p \in followers <=> page[p].at = "websocket"
      /\ \A p \in Pages : page[p].at = "waiting" <=> \E i \in 1 .. Len(pollers) : pollers[i] = p
      /\ \A p \in Answered(pollers) : p \in Pages /\ page[p].at = "waiting"
  <2>1. \A i \in 1 .. Len(pollers) : pollers[i] \in Pages
    BY <1>1
  <2>2. /\ \A p \in Pages : p \in followers <=> page[p].at = "websocket"
        /\ \A p \in Pages : page[p].at = "waiting" <=> \E i \in 1 .. Len(pollers) : pollers[i] = p
    BY <1>1 DEF Audience
  <2>3. ASSUME NEW p \in Answered(pollers) PROVE p \in Pages /\ page[p].at = "waiting"
    <3>1. PICK i \in 1 .. Len(pollers) : pollers[i] = p
      BY <1>7
    <3> QED
      BY <2>1, <2>2, <3>1
  <2> QED
    BY <2>2, <2>3
<1>9. \A p \in told : p \in Pages /\ page[p].at \in {"websocket", "waiting"}
  BY <1>1, <1>8 DEF Audience
<1>10. ASSUME NEW p \in Pages
       PROVE  /\ inbox'[p] \in Seq(Nat) /\ Len(inbox[p]) \in Nat
              /\ \A i \in 1 .. Len(inbox[p]) : inbox'[p][i] = inbox[p][i] /\ i \in 1 .. Len(inbox'[p])
              /\ p \notin told => inbox'[p] = inbox[p]
              /\ p \in told => /\ Len(inbox'[p]) = Len(inbox[p]) + 1
                               /\ inbox'[p][Len(inbox[p]) + 1] = id
  <2>1. inbox[p] \in Seq(Nat) /\ id \in Nat
    BY <1>1
  <2>2. inbox'[p] = IF p \in told THEN Append(inbox[p], id) ELSE inbox[p]
    BY <1>2
  <2> HIDE DEF told
  <2>3. CASE p \in told
    BY <2>1, <2>2, <2>3
  <2>4. CASE p \notin told
    BY <2>1, <2>2, <2>4
  <2> QED
    BY <2>3, <2>4
<1>11. DaemonTypes'
  <2>1. page' \in [Pages -> PageType] /\ inbox' \in [Pages -> Seq(Nat)]
    BY <1>2, <1>6, <1>10
  <2>2. \A p \in Pages : page'[p].last <= message_id'
    BY <1>0, <1>1, <1>2, <1>6
  <2> QED
    BY <1>1, <1>2, <1>3, <1>5, <2>1, <2>2 DEF DaemonTypes
<1>12. \A p \in Pages : p \in told /\ page[p].at = "waiting" <=> sub /\ p \in Answered(pollers)
  BY <1>8
<1>13. \A p \in Pages : p \in told /\ page[p].at = "websocket" <=> sub /\ page[p].at = "websocket"
  BY <1>8
<1>14. ASSUME NEW p \in Pages
       PROVE  /\ page'[p].at = "websocket" <=> page[p].at = "websocket"
              /\ page'[p].at = "waiting" <=>
                   page[p].at = "waiting" /\ ~(sub /\ p \in Answered(pollers))
              /\ page'[p].at = page[p].at \/ (page[p].at = "waiting" /\ page'[p].at = "answered" /\ p \in told)
              /\ p \in told => page'[p].at \in {"websocket", "answered"}
  <2> HIDE DEF told
  <2> QED
    BY <1>6, <1>8, <1>9, <1>12, <1>13
<1>15. Audience'
  <2>1. followers' = {p \in Pages : page'[p].at = "websocket"}
    BY <1>1, <1>2, <1>14 DEF Audience
  <2>2. /\ pollers' \in Seq(Pages)
        /\ \A i, j \in 1 .. Len(pollers') : pollers'[i] = pollers'[j] => i = j
    BY <1>1, <1>2, <1>7
  <2>3. ASSUME NEW p \in Pages
        PROVE  page'[p].at = "waiting" <=> \E i \in 1 .. Len(pollers') : pollers'[i] = p
    <3>1. CASE ~sub
      BY <1>2, <1>8, <1>14, <3>1
    <3>2. CASE sub
      <4>1. ASSUME page'[p].at = "waiting" PROVE \E i \in 1 .. Len(pollers') : pollers'[i] = p
        <5>1. PICK j \in 1 .. Len(pollers) : pollers[j] = p
          BY <1>8, <1>14, <4>1
        <5>2. j % 2 # 1
          BY <1>7, <1>14, <3>2, <4>1, <5>1
        <5>3. j % 2 = 0
          <6>1. j \in Int
            OBVIOUS
          <6> QED
            BY <5>2, <6>1
        <5> QED
          BY <1>2, <1>7, <3>2, <5>1, <5>3
      <4>2. ASSUME NEW i \in 1 .. Len(pollers'), pollers'[i] = p PROVE page'[p].at = "waiting"
        <5>1. PICK j \in 1 .. Len(pollers) : pollers[j] = p /\ j % 2 = 0
          BY <1>2, <1>7, <3>2, <4>2
        <5>2. p \notin Answered(pollers)
          BY <1>7, <5>1
        <5> QED
          BY <1>8, <1>14, <5>1, <5>2
      <4> QED
        BY <4>1, <4>2
    <3> QED
      BY <3>1, <3>2
  <2> QED
    BY <2>1, <2>2, <2>3 DEF Audience
<1> HIDE DEF told
<1>16. ASSUME NEW p \in Pages PROVE Ordered(p)'
  <2>1. /\ \A i \in 1 .. Len(inbox[p]) : /\ page[p].last < inbox[p][i]
                                         /\ inbox[p][i] <= message_id /\ inbox[p][i] \in Nat
        /\ \A i, j \in 1 .. Len(inbox[p]) : i < j => inbox[p][i] < inbox[p][j]
        /\ page[p].at \notin {"websocket", "answered"} => Len(inbox[p]) = 0
        /\ page[p].at = "answered" => Len(inbox[p]) = 1
    BY <1>1 DEF Ordered
  <2>2. page'[p].last = page[p].last /\ page[p].last <= message_id /\ page[p].last \in Nat
        /\ message_id \in Nat /\ message_id' = id /\ message_id < id /\ id \in Nat
    BY <1>0, <1>1, <1>2, <1>6
  <2>3. CASE p \notin told
    <3>1. inbox'[p] = inbox[p] /\ page'[p].at = page[p].at
      BY <1>10, <1>14, <2>3
    <3>2. \A i \in 1 .. Len(inbox[p]) : inbox[p][i] <= message_id'
      BY <2>1, <2>2
    <3> QED
      BY <2>1, <2>2, <3>1, <3>2 DEF Ordered
  <2>4. CASE p \in told
    <3>1. \A i \in 1 .. Len(inbox'[p]) : i \in 1 .. Len(inbox[p]) \/ i = Len(inbox[p]) + 1
      BY <1>10, <2>4
    <3>2. \A i \in 1 .. Len(inbox'[p]) : page'[p].last < inbox'[p][i] /\ inbox'[p][i] <= message_id'
      <4> SUFFICES ASSUME NEW i \in 1 .. Len(inbox'[p])
                   PROVE  page'[p].last < inbox'[p][i] /\ inbox'[p][i] <= message_id'
        OBVIOUS
      <4>1. CASE i \in 1 .. Len(inbox[p])
        <5>1. inbox'[p][i] = inbox[p][i]
          BY <1>10, <4>1
        <5>2. page[p].last < inbox[p][i] /\ inbox[p][i] <= message_id /\ inbox[p][i] \in Nat
          BY <2>1, <4>1
        <5> QED
          BY <2>2, <5>1, <5>2
      <4>2. CASE i = Len(inbox[p]) + 1
        BY <1>10, <2>2, <2>4, <4>2
      <4> QED
        BY <3>1, <4>1, <4>2
    <3>3. \A i, j \in 1 .. Len(inbox'[p]) : i < j => inbox'[p][i] < inbox'[p][j]
      <4> SUFFICES ASSUME NEW i \in 1 .. Len(inbox'[p]), NEW j \in 1 .. Len(inbox'[p]), i < j
                   PROVE  inbox'[p][i] < inbox'[p][j]
        OBVIOUS
      <4>1. i \in 1 .. Len(inbox[p])
        BY <1>10, <2>4
      <4>2. inbox'[p][i] = inbox[p][i]
        BY <1>10, <4>1
      <4>3. CASE j \in 1 .. Len(inbox[p])
        BY <1>10, <2>1, <4>1, <4>2, <4>3
      <4>4. CASE j = Len(inbox[p]) + 1
        BY <1>10, <2>1, <2>2, <2>4, <4>1, <4>2, <4>4
      <4> QED
        BY <3>1, <4>3, <4>4
    <3>4. page'[p].at = "answered" => Len(inbox'[p]) = 1
      <4>1. page'[p].at = "answered" => page[p].at = "waiting"
        <5>1. page[p].at # "answered"
          BY <1>9, <2>4
        <5> QED
          BY <1>14, <5>1
      <4>2. page[p].at = "waiting" => Len(inbox[p]) = 0
        BY <2>1
      <4> QED
        <5>1. Len(inbox'[p]) = Len(inbox[p]) + 1
          BY <1>10, <2>4
        <5>2. page'[p].at = "answered" => Len(inbox[p]) = 0
          BY <4>1, <4>2
        <5> QED
          BY <5>1, <5>2
    <3> QED
      BY <1>14, <2>4, <3>2, <3>3, <3>4 DEF Ordered
  <2> QED
    BY <2>3, <2>4
<1>17. ASSUME NEW p \in Pages, NEW x \in Nat, Has(p, x) PROVE Has(p, x)'
  BY <1>6, <1>10, <1>17 DEF Has
<1>18. ASSUME NEW p \in Pages, p \in told PROVE Has(p, id)'
  <2>1. Len(inbox[p]) + 1 \in 1 .. Len(inbox'[p])
    BY <1>10, <1>18
  <2>2. \E i \in 1 .. Len(inbox'[p]) : inbox'[p][i] = id
    BY <1>10, <1>18, <2>1
  <2> QED
    BY <2>2 DEF Has
<1>19. ASSUME NEW p \in Pages, page'[p].at = "websocket",
              NEW x \in Nat, IsEvent(x)', x > page'[p].last
       PROVE  Has(p, x)'
  <2>1. page[p].at = "websocket" /\ x > page[p].last
    BY <1>6, <1>14, <1>19
  <2>2. CASE IsEvent(x)
    BY <1>1, <1>17, <2>1, <2>2 DEF CaughtUp
  <2>3. CASE sub /\ x = id
    BY <1>13, <1>18, <2>1, <2>3
  <2> QED
    BY <1>4, <1>19, <2>2, <2>3
<1>20. ASSUME NEW p \in Pages, page'[p].at = "waiting",
              NEW x \in Nat, IsEvent(x)', x > page'[p].last
       PROVE  \E q \in Pages \ {p} : Polls(q)' /\ Has(q, x)'
  <2>1. page[p].at = "waiting" /\ x > page[p].last
    BY <1>6, <1>14, <1>20
  <2>2. CASE IsEvent(x)
    <3>1. PICK q \in Pages \ {p} : Polls(q) /\ Has(q, x)
      BY <1>1, <2>1, <2>2 DEF CaughtUp
    <3>2. Polls(q)'
      BY <1>14, <3>1 DEF Polls
    <3> QED
      BY <1>17, <3>1, <3>2
  <2>3. CASE sub /\ x = id
    <3>1. PICK i \in 1 .. Len(PassedOver(pollers)) : PassedOver(pollers)[i] = p
      <4>1. \E i \in 1 .. Len(pollers') : pollers'[i] = p
        BY <1>15, <1>20 DEF Audience
      <4> QED
        BY <1>2, <2>3, <4>1
    <3>2. PICK j \in 1 .. Len(pollers) : /\ pollers[j] = p
                                         /\ j - 1 \in 1 .. Len(pollers) /\ (j - 1) % 2 = 1
      BY <1>7, <3>1
    <3>3. pollers[j - 1] \in Answered(pollers) /\ j - 1 # j
      BY <1>7, <3>2
    <3>4. pollers[j - 1] \in Pages \ {p}
      BY <1>1, <1>8, <3>2, <3>3
    <3>5. pollers[j - 1] \in told /\ page'[pollers[j - 1]].at = "answered"
      BY <1>8, <1>12, <1>14, <2>3, <3>3, <3>4
    <3> QED
      BY <1>18, <2>3, <3>4, <3>5 DEF Polls
  <2> QED
    BY <1>4, <1>20, <2>2, <2>3
<1>21. CaughtUp'
  BY <1>19, <1>20 DEF CaughtUp
<1>22. \A p \in Pages : Len(inbox[p]) <= Len(inbox'[p])
  <2> SUFFICES ASSUME NEW p \in Pages PROVE Len(inbox[p]) <= Len(inbox'[p])
    OBVIOUS
  <2> QED
    BY <1>10
<1> QED
  BY <1>11, <1>15, <1>16, <1>21, <1>22 DEF EventInv

\* A daemon that starts anew has no events, no followers and no pollers.
LEMMA DaemonRestartsKeeps ==
  ASSUME EventInv, DaemonRestarts
  PROVE  /\ EventInv'
         /\ \A p \in Pages : Len(inbox'[p]) < Len(inbox[p]) => page'[p].at = "closed"
<1>1. /\ DaemonTypes /\ message_id \in Nat
      /\ page \in [Pages -> PageType] /\ inbox \in [Pages -> Seq(Nat)]
  BY DEF EventInv, DaemonTypes
<1>2. /\ messages' = <<>> /\ message_id' = message_id + 1 /\ followers' = {} /\ pollers' = <<>>
      /\ page' = [p \in Pages |->
                   CASE page[p].at \in {"started", "websocket"} -> [page[p] EXCEPT !.at = "closed"]
                     [] page[p].at = "waiting" -> [page[p] EXCEPT !.at = "polling"]
                     [] OTHER -> page[p]]
      /\ inbox' = [p \in Pages |-> IF page[p].at = "websocket" THEN <<>> ELSE inbox[p]]
      /\ UNCHANGED row
  BY DEF DaemonRestarts, bridge
<1>3. ASSUME NEW p \in Pages
      PROVE  /\ page'[p] \in PageType /\ page'[p].last = page[p].last
             /\ page[p].at \in {"started", "websocket"} => page'[p].at = "closed"
             /\ page[p].at = "waiting" => page'[p].at = "polling"
             /\ page[p].at \notin {"started", "websocket", "waiting"} => page'[p] = page[p]
  <2>1. page[p] \in PageType
    BY <1>1
  <2>2. /\ [page[p] EXCEPT !.at = "closed"] \in PageType
        /\ [page[p] EXCEPT !.at = "polling"] \in PageType
    BY <2>1 DEF PageType, Stages
  <2>3. CASE page[p].at \in {"started", "websocket"}
    <3>1. page'[p] = [page[p] EXCEPT !.at = "closed"]
      BY <1>2, <2>3
    <3> QED
      BY <2>1, <2>2, <2>3, <3>1 DEF PageType
  <2>4. CASE page[p].at = "waiting"
    <3>1. page'[p] = [page[p] EXCEPT !.at = "polling"]
      BY <1>2, <2>4
    <3> QED
      BY <2>1, <2>2, <2>4, <3>1 DEF PageType
  <2>5. CASE page[p].at \notin {"started", "websocket", "waiting"}
    <3>1. page'[p] = page[p]
      BY <1>2, <2>5
    <3> QED
      BY <2>1, <2>5, <3>1
  <2> QED
    BY <2>3, <2>4, <2>5
<1>4. ASSUME NEW p \in Pages
      PROVE  /\ page'[p].at \notin {"websocket", "waiting"}
             /\ page'[p].at = "answered" => page[p].at = "answered"
  <2>1. page[p].at \in {"started", "websocket"} \/ page[p].at = "waiting"
        \/ page[p].at \notin {"started", "websocket", "waiting"}
    OBVIOUS
  <2> QED
    BY <1>3, <2>1
<1>5. ASSUME NEW p \in Pages
      PROVE  inbox'[p] \in Seq(Nat) /\ inbox'[p] = IF page[p].at = "websocket" THEN <<>> ELSE inbox[p]
  BY <1>1, <1>2
<1>6. DaemonTypes'
  <2>1. page' \in [Pages -> PageType] /\ inbox' \in [Pages -> Seq(Nat)]
    BY <1>2, <1>3, <1>5
  <2>2. \A p \in Pages : page'[p].last <= message_id'
    <3> SUFFICES ASSUME NEW p \in Pages PROVE page'[p].last <= message_id'
      OBVIOUS
    <3> QED
      BY <1>1, <1>2, <1>3, PageFields
  <2>3. messages' \in Seq(Message) /\ \A i \in 1 .. Len(messages') : messages'[i].id <= message_id'
    BY <1>2
  <2> QED
    BY <1>1, <1>2, <2>1, <2>2, <2>3 DEF DaemonTypes
<1>7. Audience'
  BY <1>2, <1>4 DEF Audience
<1>8. ASSUME NEW p \in Pages PROVE Ordered(p)'
  <2>1. Ordered(p) /\ page[p].last \in Nat /\ \A i \in 1 .. Len(inbox[p]) : inbox[p][i] \in Nat
    BY <1>1, PageFields DEF EventInv
  <2>2. CASE page[p].at = "websocket"
    <3>1. inbox'[p] = <<>> /\ page'[p].at # "answered"
      BY <1>4, <1>5, <2>2
    <3> QED
      BY <3>1 DEF Ordered
  <2>3. CASE page[p].at # "websocket"
    <3>1. inbox'[p] = inbox[p] /\ page'[p].last = page[p].last
      BY <1>3, <1>5, <2>3
    <3>2. \A i \in 1 .. Len(inbox[p]) : inbox[p][i] <= message_id'
      BY <1>1, <1>2, <2>1 DEF Ordered
    <3>3. /\ page'[p].at \notin {"websocket", "answered"} => Len(inbox[p]) = 0
          /\ page'[p].at = "answered" => Len(inbox[p]) = 1
      <4>1. CASE page[p].at = "answered"
        <5>1. page'[p].at = "answered"
          BY <1>3, <4>1
        <5> QED
          BY <2>1, <4>1, <5>1 DEF Ordered
      <4>2. CASE page[p].at # "answered"
        BY <1>4, <2>1, <2>3, <4>2 DEF Ordered
      <4> QED
        BY <4>1, <4>2
    <3> QED
      BY <1>4, <2>1, <3>1, <3>2, <3>3 DEF Ordered
  <2> QED
    BY <2>2, <2>3
<1>9. CaughtUp'
  BY <1>4 DEF CaughtUp
<1>10. ASSUME NEW p \in Pages, Len(inbox'[p]) < Len(inbox[p]) PROVE page'[p].at = "closed"
  <2>1. CASE page[p].at = "websocket"
    BY <1>3, <2>1
  <2>2. CASE page[p].at # "websocket"
    BY <1>1, <1>5, <1>10, <2>2
  <2> QED
    BY <2>1, <2>2
<1> QED
  BY <1>6, <1>7, <1>8, <1>9, <1>10 DEF EventInv

-----------------------------------------------------------------------------
(* All steps *)

\* No page has been told anything before it is rendered.
LEMMA EventsStart == Init => EventInv
<1> SUFFICES ASSUME Init PROVE EventInv
  OBVIOUS
<1>1. /\ row = 0 /\ messages = <<>> /\ message_id = 1 /\ followers = {} /\ pollers = <<>>
      /\ page = [p \in Pages |-> NewPage] /\ inbox = [p \in Pages |-> <<>>]
  BY DEF Init
<1>2. NewPage \in PageType /\ NewPage.at = "none" /\ NewPage.last = 0 /\ 0 \in 0 .. Final
  BY BoundsAssumption DEF NewPage, PageType, Stages
<1>3. \A p \in Pages : page[p].at = "none" /\ page[p].last = 0 /\ inbox[p] = <<>>
  BY <1>1, <1>2
<1>4. DaemonTypes
  <2>1. page \in [Pages -> PageType] /\ inbox \in [Pages -> Seq(Nat)]
    BY <1>1, <1>2
  <2> QED
    BY <1>1, <1>2, <1>3, <2>1 DEF DaemonTypes
<1>5. Audience
  BY <1>1, <1>3 DEF Audience
<1>6. \A p \in Pages : Ordered(p)
  <2> SUFFICES ASSUME NEW p \in Pages PROVE Ordered(p)
    OBVIOUS
  <2> QED
    BY <1>3 DEF Ordered
<1>7. CaughtUp
  BY <1>3 DEF CaughtUp
<1> QED
  BY <1>4, <1>5, <1>6, <1>7 DEF EventInv

\* A step that leaves the daemon and its pages alone.
LEMMA RowMoves ==
  ASSUME EventInv, UNCHANGED <<daemon, page, inbox>>, row' \in 0 .. Final
  PROVE  EventInv'
<1>1. UNCHANGED <<messages, message_id, followers, pollers, page, inbox>>
  BY DEF daemon
<1>2. DaemonTypes' /\ Audience'
  BY <1>1 DEF EventInv, DaemonTypes, Audience
<1>3. \A p \in Pages : Ordered(p)'
  BY <1>1 DEF EventInv, Ordered
<1>4. /\ \A id \in Nat : IsEvent(id)' <=> IsEvent(id)
      /\ \A p \in Pages : Polls(p)' <=> Polls(p)
      /\ \A p \in Pages, id \in Nat : Has(p, id)' <=> Has(p, id)
  BY <1>1 DEF IsEvent, Polls, Has
<1>5. CaughtUp'
  BY <1>1, <1>4 DEF EventInv, CaughtUp
<1> QED
  BY <1>2, <1>3, <1>5 DEF EventInv

\* What is on its way to a page gets less only when the page takes it, later
\* than what it had, or stops following.
InboxStep == \A p \in Pages :
  Len(inbox'[p]) < Len(inbox[p]) /\ page'[p].at # "closed" => page'[p].last > page[p].last

\* Every step keeps the invariant and takes events in order.
LEMMA EventStep == EventInv /\ [Next]_vars => EventInv' /\ InboxStep
<1> SUFFICES ASSUME EventInv, [Next]_vars PROVE EventInv' /\ InboxStep
  OBVIOUS
<1>1. /\ row \in 0 .. Final /\ inbox \in [Pages -> Seq(Nat)]
      /\ \A p \in Pages : Len(inbox[p]) \in Nat
  BY PageFields DEF EventInv, DaemonTypes
<1>2. EventInv' /\ (\A p \in Pages : Len(inbox[p]) <= Len(inbox'[p])) => InboxStep
  <2> SUFFICES ASSUME EventInv', \A p \in Pages : Len(inbox[p]) <= Len(inbox'[p]),
                      NEW p \in Pages, Len(inbox'[p]) < Len(inbox[p])
               PROVE  FALSE
    BY DEF InboxStep
  <2>1. inbox'[p] \in Seq(Nat)
    BY DEF EventInv, DaemonTypes
  <2> QED
    BY <1>1, <2>1
<1>3. inbox' = inbox => InboxStep
  BY <1>1 DEF InboxStep
<1>4. CASE Save
  <2>1. row' \in 0 .. Final /\ UNCHANGED <<daemon, page, inbox>>
    BY <1>1, <1>4, BoundsAssumption DEF Save
  <2> QED
    BY <1>3, <2>1, RowMoves
<1>5. CASE PostEvent
  <2>1. UNCHANGED row
    BY <1>5 DEF PostEvent
  <2>2. CASE Post(TRUE)
    BY <1>2, <2>1, <2>2, PostKeeps
  <2>3. CASE UNCHANGED <<daemon, page, inbox>>
    BY <1>1, <1>3, <2>1, <2>3, RowMoves
  <2> QED
    BY <1>5, <2>2, <2>3 DEF PostEvent
<1>6. CASE PostOther
  <2>1. UNCHANGED row /\ Post(FALSE)
    BY <1>6 DEF PostOther, bridge
  <2> QED
    BY <1>2, <2>1, PostKeeps
<1>7. CASE DaemonRestarts
  BY <1>7, DaemonRestartsKeeps DEF InboxStep
<1>8. ASSUME NEW p \in Pages,
             \/ LoadRow(p) \/ AskLast(p) \/ StartMsg(p) \/ FallBack(p)
             \/ Fetch(p) \/ Show(p) \/ Resume(p) \/ FetchFails(p)
      PROVE  EventInv' /\ InboxStep
  <2>1. inbox' = inbox
    BY <1>8 DEF LoadRow, AskLast, StartMsg, FallBack, Fetch, Show, Resume, FetchFails
  <2> QED
    BY <1>3, <1>8, <2>1, ScriptKeeps
<1>9. ASSUME NEW p \in Pages, SetFilter(p) PROVE EventInv' /\ InboxStep
  <2>1. EventInv'
    BY <1>9, SetFilterKeeps
  <2>2. \A q \in Pages : Len(inbox[q]) <= Len(inbox'[q])
    <3>1. PICK news \in InOrder(Newer(page[p].last)) : inbox' = [inbox EXCEPT ![p] = inbox[p] \o news]
      BY <1>9 DEF SetFilter
    <3>2. CASE inbox[p] = <<>>
      <4>1. inbox[p] \o news \in Seq(Nat)
        BY <1>1, <2>1, <3>1 DEF EventInv, DaemonTypes
      <4>2. \A q \in Pages : inbox'[q] \in Seq(Nat) /\ (q = p \/ inbox'[q] = inbox[q])
        BY <1>1, <3>1, <4>1
      <4> SUFFICES ASSUME NEW q \in Pages PROVE Len(inbox[q]) <= Len(inbox'[q])
        OBVIOUS
      <4>3. CASE q = p
        BY <3>2, <4>2, <4>3
      <4>4. CASE q # p
        BY <1>1, <4>2, <4>4
      <4> QED
        BY <4>3, <4>4
    <3>3. inbox[p] = <<>>
      <4>1. page[p].at = "started" /\ Ordered(p)
        BY <1>9 DEF SetFilter, EventInv
      <4>2. Len(inbox[p]) = 0
        BY <4>1 DEF Ordered
      <4> QED
        BY <1>1, <4>2
    <3> QED
      BY <3>2, <3>3
  <2> QED
    BY <1>2, <2>1, <2>2
<1>10. ASSUME NEW p \in Pages, Poll(p) PROVE EventInv' /\ InboxStep
  <2>1. EventInv'
    BY <1>10, PollKeeps
  <2>2. CASE inbox' = inbox
    BY <1>3, <2>1, <2>2
  <2>3. ASSUME NEW id, inbox' = [inbox EXCEPT ![p] = <<id>>] PROVE InboxStep
    <3>1. Len(inbox[p]) = 0
      <4>1. page[p].at = "polling" /\ Ordered(p)
        BY <1>10 DEF Poll, EventInv
      <4> QED
        BY <4>1 DEF Ordered
    <3>2. inbox'[p] \in Seq(Nat) /\ \A q \in Pages \ {p} : inbox'[q] = inbox[q]
      BY <1>1, <2>1, <2>3 DEF EventInv, DaemonTypes
    <3>3. \A q \in Pages : Len(inbox[q]) <= Len(inbox'[q])
      <4> SUFFICES ASSUME NEW q \in Pages PROVE Len(inbox[q]) <= Len(inbox'[q])
        OBVIOUS
      <4>1. CASE q = p
        BY <3>1, <3>2, <4>1
      <4>2. CASE q # p
        BY <1>1, <3>2, <4>2
      <4> QED
        BY <4>1, <4>2
    <3> QED
      BY <1>2, <2>1, <3>3
  <2> QED
    BY <1>10, <2>1, <2>2, <2>3 DEF Poll
<1>11. ASSUME NEW p \in Pages, PollTimeout(p) PROVE EventInv' /\ InboxStep
  <2>1. inbox' = inbox
    BY <1>11 DEF PollTimeout
  <2> QED
    BY <1>3, <1>11, <2>1, PollTimeoutKeeps
<1>12. ASSUME NEW p \in Pages, SocketCloses(p) PROVE EventInv' /\ InboxStep
  <2>1. EventInv'
    BY <1>12, SocketClosesKeeps
  <2>2. /\ inbox' = [inbox EXCEPT ![p] = <<>>] /\ page' = [page EXCEPT ![p].at = "closed"]
        /\ page \in [Pages -> PageType]
    BY <1>12 DEF SocketCloses, EventInv, DaemonTypes
  <2>3. page'[p].at = "closed"
    BY <2>2 DEF PageType
  <2>4. \A q \in Pages \ {p} : inbox'[q] = inbox[q]
    BY <1>1, <2>2
  <2> QED
    BY <1>1, <2>1, <2>3, <2>4 DEF InboxStep
<1>13. ASSUME NEW p \in Pages, Receive(p) PROVE EventInv' /\ InboxStep
  <2>1. EventInv' /\ page'[p].last > page[p].last
    BY <1>13, ReceiveKeeps
  <2>2. \A q \in Pages \ {p} : inbox'[q] = inbox[q]
    BY <1>1, <1>13 DEF Receive
  <2> QED
    BY <1>1, <2>1, <2>2 DEF InboxStep
<1>14. CASE UNCHANGED vars
  <2>1. row' \in 0 .. Final /\ UNCHANGED <<daemon, page, inbox>>
    BY <1>1, <1>14 DEF vars, daemon
  <2> QED
    BY <1>3, <2>1, RowMoves
<1> QED
  BY <1>4, <1>5, <1>6, <1>7, <1>8, <1>9, <1>10, <1>11, <1>12, <1>13, <1>14 DEF Next, Connect

\* The invariant holds in every reachable state, whatever is fair.
LEMMA EventsHold == Spec => []EventInv
<1>1. EventInv /\ [Next]_vars => EventInv'
  BY EventStep
<1> QED
  BY <1>1, EventsStart, PTL DEF Spec

\* No follower lacks an event of the buffer, and no poller that waits lacks one
\* that no other page was told in its place.
THEOREM NobodyIsLeftBehind == Spec => []NobodyIsBehind
<1>1. EventInv => NobodyIsBehind
  <2> SUFFICES ASSUME EventInv PROVE NobodyIsBehind
    OBVIOUS
  <2>1. DaemonTypes /\ Audience /\ CaughtUp /\ inbox \in [Pages -> Seq(Nat)]
    BY DEF EventInv, DaemonTypes
  <2>2. \A last, id : id \in Newer(last) <=> IsEvent(id) /\ id > last
    BY <2>1, NewerIs
  <2>3. \A id : IsEvent(id) => id \in Nat
    BY <2>1, NewerIs
  <2>4. ASSUME NEW p \in Pages, NEW id, Has(p, id) PROVE Told(p, id)
    <3>1. DOMAIN inbox[p] = 1 .. Len(inbox[p])
      BY <2>1
    <3> QED
      BY <2>4, <3>1 DEF Has, Told, Range
  <2>5. ASSUME NEW p \in followers, NEW id \in Newer(page[p].last) PROVE Told(p, id)
    <3>1. p \in Pages /\ page[p].at = "websocket"
      BY <2>1 DEF Audience
    <3> QED
      BY <2>1, <2>2, <2>3, <2>4, <3>1 DEF CaughtUp
  <2>6. ASSUME NEW p \in Range(pollers), NEW id \in Newer(page[p].last)
        PROVE  \E q \in Pages \ {p} : Told(q, id)
    <3>1. PICK i \in 1 .. Len(pollers) : pollers[i] = p
      BY <2>1 DEF Audience, Range
    <3>2. p \in Pages /\ page[p].at = "waiting"
      BY <2>1, <3>1 DEF Audience
    <3>3. \E q \in Pages \ {p} : Polls(q) /\ Has(q, id)
      BY <2>1, <2>2, <2>3, <3>2 DEF CaughtUp
    <3> QED
      BY <2>4, <3>3
  <2> QED
    BY <2>5, <2>6 DEF NobodyIsBehind
<1> QED
  BY <1>1, EventsHold, PTL

\* Catching up, following, polling and restarts of the daemon tell a page every
\* event at most once and in order.
THEOREM EventsComeInOrder == Spec => EventsInOrder
<1>1. EventInv /\ [Next]_vars =>
        [\A p \in Pages : Len(inbox'[p]) < Len(inbox[p]) /\ page'[p].at # "closed"
                            => page'[p].last > page[p].last]_vars
  BY EventStep DEF InboxStep
<1> QED
  BY <1>1, EventsHold, PTL DEF Spec, EventsInOrder
=============================================================================
