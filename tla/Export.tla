-------------------------------- MODULE Export --------------------------------
(***************************************************************************)
(* The download of a user's data: the page that orders it, the task that   *)
(* writes the archive, and the status that the one learns of the other.    *)
(*                                                                         *)
(* All tasks of a user write the same file.  Two things keep them apart:   *)
(* the cache names the last task, and the profile the time it was ordered  *)
(* at, which counts only once there is a file.  The cache may drop a name  *)
(* at any time, a worker may die, and other requests save the profile as a *)
(* whole.  The user is not muted, downloads are switched on, a task's      *)
(* status is remembered, and nothing but the task touches the file.        *)
(* excuses does not exist in the program: it says which accidents happened *)
(* that the guards cannot help.                                            *)
(***************************************************************************)
EXTENDS Naturals, Sequences, FiniteSets

CONSTANTS Handed, Remarks,     \* submissions and comments of the user
          ResultOf, CodeOf,   \* result and problem of a submission
          Forms,              \* bound: what the form may say
          Clients,            \* web processes
          RateLimit,
          MaxOrders, MaxClock,    \* bounds
          MaxAccidents        \* bound: kinds of accidents in one behaviour

ASSUME ExportAssumption ==
  /\ RateLimit \in Nat /\ MaxOrders \in Nat /\ MaxAccidents \in Nat /\ MaxClock \in Nat
  /\ Handed \cap Remarks = {}

VARIABLES exports,      \* the tasks, in the order they were sent to the broker
          archive,      \* the file
          downloaded,   \* data_last_downloaded; 0 is None
          named,        \* the task that the cache names, or 0
          stored,       \* submissions that are not deleted
          asking,       \* the requests
          orders,       \* how many
          clock, excuses

xvars == <<exports, archive, downloaded, named, stored, asking, orders, clock, excuses>>

NoArchive == [of |-> 0, pieces |-> {}, infos |-> {}, closed |-> FALSE, mixed |-> FALSE]
NoRequest == [at |-> "free", now |-> 0, early |-> FALSE, copy |-> 0]
Parts == {"submissions", "comments"}
Kind(p) == IF p = "comments" THEN Remarks ELSE Handed
PartsOf(pieces) == {p \in Parts : pieces \cap Kind(p) # {}}
Exists == archive.of # 0
AtWork(t) == exports[t].at \in {"queued", "closing"} \cup Parts
-----------------------------------------------------------------------------
(* The status of a task.                                                   *)

\* task_status_by_id: who has not reported anything is pending.
status(t) == exports[t].status
\* Broken: a task that waits in the broker is not in progress.
in_progress_when_begun == named # 0 /\ status(named) \in {"PROGRESS", "STARTED"}
in_progress_url == named # 0 /\ status(named) \in {"PENDING", "PROGRESS", "STARTED"}

get_task_status(t) ==
  IF status(t) \in {"PROGRESS", "SUCCESS", "FAILURE"} THEN status(t) ELSE "WORKING"
task_status_redirects(t) == get_task_status(t) = "SUCCESS"

\* Progress: a report says how much is done, which is left out.  Up to nineteen
\* pieces, all are reported.
Reported == "PROGRESS"
-----------------------------------------------------------------------------
(* The page.                                                               *)

Lapsed == downloaded + RateLimit < clock
can_prepare_data == downloaded = 0 \/ Lapsed \/ ~Exists

Valid(form) == form.comment_download \/ form.submission_download

\* The page says that the archive is ready, or offers it beside the form.
LinkIsShown == ~in_progress_url /\ Exists

\* UserDownloadData gives the file as it is.
download_found == Exists

Ordering(c) == asking[c].at \in {"limit", "granted", "saved", "sent"}

\* post: first the time, then the task that the cache names.
CheckLimit(c) ==
  /\ asking[c].at = "free" /\ orders < MaxOrders /\ orders' = orders + 1 /\ can_prepare_data
  /\ asking' = [asking EXCEPT ![c].at = "limit", ![c].now = IF downloaded = 0 THEN 0 ELSE clock,
                               ![c].early = downloaded # 0 /\ ~Lapsed]
  /\ excuses' = excuses \cup (IF \E d \in Clients : Ordering(d) THEN {"raced"} ELSE {})
  /\ UNCHANGED <<exports, archive, downloaded, named, stored, clock>>

CheckProgress(c) ==
  /\ asking[c].at = "limit"
  /\ asking' = IF in_progress_url THEN [asking EXCEPT ![c] = NoRequest] ELSE [asking EXCEPT ![c].at = "granted"]
  /\ UNCHANGED <<exports, archive, downloaded, named, stored, orders, clock, excuses>>

\* form_valid: the time, the task, the cache.
SaveDate(c) ==
  /\ asking[c].at = "granted"
  /\ LET now == IF asking[c].now = 0 THEN clock ELSE asking[c].now
     IN  /\ downloaded' = now
         /\ asking' = [asking EXCEPT ![c].at = "saved", ![c].now = now]
  /\ UNCHANGED <<exports, archive, named, stored, orders, clock, excuses>>

FormInvalid(c) ==
  /\ asking[c].at = "granted" /\ \E form \in Forms : ~Valid(form)
  /\ asking' = [asking EXCEPT ![c] = NoRequest]
  /\ UNCHANGED <<exports, archive, downloaded, named, stored, orders, clock, excuses>>

Delay(c, form) ==
  /\ asking[c].at = "saved" /\ Valid(form)
  /\ exports' = Append(exports, [at |-> "queued", status |-> "PENDING", form |-> form, chosen |-> {},
                                 todo |-> {}, now |-> asking[c].now, early |-> asking[c].early])
  /\ asking' = [asking EXCEPT ![c].at = "sent", ![c].copy = Len(exports) + 1]
  /\ UNCHANGED <<archive, downloaded, named, stored, orders, clock, excuses>>

SetCache(c) ==
  /\ asking[c].at = "sent"
  /\ named' = asking[c].copy
  /\ asking' = [asking EXCEPT ![c] = NoRequest]
  /\ UNCHANGED <<exports, archive, downloaded, stored, orders, clock, excuses>>

\* The request ends between two statements: the broker is out of reach, or the process dies.
Break(c) ==
  /\ asking[c].at \in {"saved", "sent"}
  /\ asking' = [asking EXCEPT ![c] = NoRequest]
  /\ excuses' = excuses \cup (IF asking[c].at = "sent" THEN {"dropped"} ELSE {})
  /\ UNCHANGED <<exports, archive, downloaded, named, stored, orders, clock>>

\* Another request of the user that loads the profile and saves all of it.
LoadWhole(c) ==
  /\ asking[c].at = "free" /\ orders < MaxOrders /\ orders' = orders + 1
  /\ asking' = [asking EXCEPT ![c].at = "other", ![c].copy = downloaded]
  /\ UNCHANGED <<exports, archive, downloaded, named, stored, clock, excuses>>

SaveWhole(c) ==
  /\ asking[c].at = "other"
  /\ downloaded' = asking[c].copy
  /\ asking' = [asking EXCEPT ![c] = NoRequest]
  /\ excuses' = excuses \cup (IF asking[c].copy # downloaded THEN {"undone"} ELSE {})
  /\ UNCHANGED <<exports, archive, named, stored, orders, clock>>
-----------------------------------------------------------------------------
(* The task.                                                               *)

apply_submission_filter(form) ==
  IF ~form.submission_download THEN {}
  ELSE {s \in stored : /\ form.submission_results = {} \/ ResultOf[s] \in form.submission_results
                     /\ CodeOf[s] \in form.submission_problem_glob}
apply_comment_filter(form) == IF form.comment_download THEN Remarks ELSE {}

\* What comes after the submissions, and after the comments.
StageOf(todo) == IF todo \cap Handed # {} THEN "submissions" ELSE IF todo # {} THEN "comments" ELSE "closing"

\* Another task than the one that emptied the file last writes at its own place.
Written(t, file) == IF archive.of = t THEN file ELSE [archive EXCEPT !.mixed = TRUE]

\* ZipFile(mode='w') empties the file.
Begin(t) ==
  /\ exports[t].at = "queued"
  /\ LET chosen == apply_submission_filter(exports[t].form) \cup apply_comment_filter(exports[t].form)
     IN  exports' = [exports EXCEPT ![t].at = StageOf(chosen), ![t].chosen = chosen, ![t].todo = chosen]
  /\ archive' = [NoArchive EXCEPT !.of = t]
  /\ UNCHANGED <<downloaded, named, stored, asking, orders, clock, excuses>>

\* One piece.  The source of a submission is read only now.
Write(t, piece) ==
  /\ exports[t].at \in Parts /\ piece \in exports[t].todo
  /\ exports[t].at = "submissions" => piece \in Handed \cap stored
  /\ exports' = [exports EXCEPT ![t].todo = @ \ {piece}, ![t].status = Reported]
  /\ archive' = Written(t, [archive EXCEPT !.pieces = @ \cup {piece}])
  /\ UNCHANGED <<downloaded, named, stored, asking, orders, clock, excuses>>

\* info.json of a part, when all of the part is written.
WriteInfo(t) ==
  /\ exports[t].at \in Parts
  /\ StageOf(exports[t].todo) # exports[t].at
  /\ archive' = Written(t, [archive EXCEPT !.infos = @ \cup {exports[t].at}])
  /\ exports' = [exports EXCEPT ![t].at = StageOf(exports[t].todo)]
  /\ UNCHANGED <<downloaded, named, stored, asking, orders, clock, excuses>>

\* The end of the archive is written when the file is closed.
Close(t) ==
  /\ exports[t].at = "closing"
  /\ exports' = [exports EXCEPT ![t].at = "ended", ![t].status = "SUCCESS"]
  /\ archive' = Written(t, [archive EXCEPT !.closed = TRUE])
  /\ UNCHANGED <<downloaded, named, stored, asking, orders, clock, excuses>>

\* A submission is gone: the file is closed as it is.
FailAt(t, piece) ==
  /\ exports[t].at = "submissions" /\ piece \in exports[t].todo \cap (Handed \ stored)
  /\ exports' = [exports EXCEPT ![t].at = "ended", ![t].status = "FAILURE"]
  /\ archive' = Written(t, [archive EXCEPT !.closed = TRUE])
  /\ UNCHANGED <<downloaded, named, stored, asking, orders, clock, excuses>>

\* The worker dies, and its status stays.
Die(t) ==
  /\ exports[t].at \in Parts \cup {"closing"}
  /\ exports' = [exports EXCEPT ![t].at = "lost"]
  /\ UNCHANGED <<archive, downloaded, named, stored, asking, orders, clock, excuses>>

TaskNext == \E t \in DOMAIN exports :
  \/ Begin(t) \/ WriteInfo(t) \/ Close(t) \/ Die(t)
  \/ \E piece \in Handed \cup Remarks : Write(t, piece) \/ FailAt(t, piece)
-----------------------------------------------------------------------------
Forget ==
  /\ named # 0 /\ named' = 0
  /\ excuses' = excuses \cup (IF AtWork(named) THEN {"dropped"} ELSE {})
  /\ UNCHANGED <<exports, archive, downloaded, stored, asking, orders, clock>>

Delete(s) ==
  /\ s \in stored
  /\ stored' = stored \ {s}
  /\ UNCHANGED <<exports, archive, downloaded, named, asking, orders, clock, excuses>>

Tick ==
  /\ clock < MaxClock /\ clock' = clock + 1
  /\ UNCHANGED <<exports, archive, downloaded, named, stored, asking, orders, excuses>>

ExportInit ==
  /\ exports = <<>> /\ archive = NoArchive /\ downloaded = 0 /\ named = 0 /\ stored = Handed
  /\ asking = [c \in Clients |-> NoRequest] /\ orders = 0 /\ clock = 1 /\ excuses = {}

AskNext == \E c \in Clients :
  \/ CheckLimit(c) \/ CheckProgress(c) \/ SaveDate(c) \/ FormInvalid(c) \/ SetCache(c) \/ Break(c)
  \/ \E form \in Forms : Delay(c, form)
  \/ LoadWhole(c) \/ SaveWhole(c)

ExportNext ==
  /\ AskNext \/ TaskNext \/ Forget \/ Tick \/ \E s \in Handed : Delete(s)
  /\ Cardinality(excuses') <= MaxAccidents

ExportSpec == ExportInit /\ [][ExportNext]_xvars
-----------------------------------------------------------------------------
(* Properties.                                                             *)

Tasks == DOMAIN exports
NoExcuse(E) == excuses \cap E = {}

\* At most one task of a user is at work, so that no two write the file at once:
\* unless two requests were checked at once, or the cache lost the name of a task.
OneAtWork == NoExcuse({"raced", "dropped"}) => \A t, u \in Tasks : AtWork(t) /\ AtWork(u) => t = u

\* What the page offers then is what one task wrote and closed, all that was asked
\* for if it succeeded.  A worker that died leaves its file behind, though, and a
\* task may begin before the request that sent it has named it.
LinkIsWhole ==
  NoExcuse({"raced", "dropped"}) /\ LinkIsShown =>
    LET t == archive.of
        task == exports[t]
    IN  /\ ~archive.mixed
        /\ \/ task.at = "lost"
           \/ \E c \in Clients : asking[c].at = "sent" /\ asking[c].copy = t
           \/ /\ task.at = "ended" /\ archive.closed
              /\ task.status = "SUCCESS" =>
                   /\ archive.pieces = task.chosen
                   /\ archive.infos = PartsOf(task.chosen)

\* Tasks are ordered RateLimit apart, or there was no file when the later one was
\* ordered: unless two requests were checked at once, or another request wrote
\* the profile back as it was.
LimitIsKept ==
  NoExcuse({"raced", "undone"}) =>
    \A t, u \in Tasks : t < u => exports[u].now > exports[t].now + RateLimit \/ exports[u].early

\* Who is sent back to the page for a success finds a file to download.
SuccessHasFile == \A t \in Tasks : task_status_redirects(t) => download_found

ExportHolds == OneAtWork /\ LinkIsWhole /\ LimitIsKept /\ SuccessHasFile
=============================================================================
