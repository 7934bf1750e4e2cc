------------------------------ MODULE PageCache ------------------------------
(***************************************************************************)
(* Pieces of pages that are kept: fragments of templates, descriptions of  *)
(* feeds, the PDF of a statement.  A request that finds none makes one of  *)
(* the row it has read.  A signal drops them when a row is saved, which is *)
(* before the transaction of the form commits; and the statistics of a     *)
(* problem are saved with the whole row, without that signal.              *)
(*                                                                         *)
(* The row is a problem or a post of the blog; rows do not concern each    *)
(* other.  Contents are numbers: each edit writes the next.  outrun and    *)
(* reverted do not exist in the program: the pieces made of a row that was *)
(* read before an edit and kept after it, and whether the statistics put   *)
(* back an old text.                                                       *)
(***************************************************************************)
EXTENDS Naturals

CONSTANTS Readers,    \* requests that may be under way at once
          NoPiece,
          MaxEdits    \* bound: edits of the row

ASSUME NoPieceAssumption == NoPiece \notin Nat
ASSUME MaxEditsAssumption == MaxEdits \in Nat

\* html stands for what is kept of a statement: the text, the authors, the
\* summary, the limits of languages.
PiecesOf == [problem |-> {"html", "feed", "pdf"}, post |-> {"content", "feed"}]
Kinds == DOMAIN PiecesOf
AllPieces == UNION {PiecesOf[r] : r \in Kinds}

VARIABLES row,       \* which kind of row this is
          text,      \* its committed contents
          kept,      \* the cache, and the directory of the PDFs
          saving,    \* whether a form is being saved
          meanwhile, \* history: pieces kept since the signal of that form
          reader,    \* what each request has read of the row it is about
          stats,     \* the text in the copy of the problem the bridge will save
          outrun, reverted

pvars == <<row, text, kept, saving, meanwhile, reader, stats, outrun, reverted>>

NotReading == [piece |-> "none", seen |-> 0]

PageCacheTypeOK ==
  /\ row \in Kinds /\ text \in 0 .. MaxEdits
  /\ kept \in [AllPieces -> {NoPiece} \cup (0 .. MaxEdits)]
  /\ saving \in BOOLEAN /\ reverted \in BOOLEAN
  /\ reader \in [Readers -> [piece : AllPieces \cup {"none"}, seen : 0 .. MaxEdits]]
  /\ stats \in {NoPiece} \cup (0 .. MaxEdits)
  /\ outrun \cup meanwhile \subseteq PiecesOf[row]

PageCacheInit ==
  /\ row \in Kinds /\ text = 0
  /\ kept = [p \in AllPieces |-> NoPiece]
  /\ saving = FALSE /\ meanwhile = {}
  /\ reader = [v \in Readers |-> NotReading]
  /\ stats = NoPiece
  /\ outrun = {} /\ reverted = FALSE
-----------------------------------------------------------------------------
\* Broken: the files are forgotten.
DroppedKeys == IF row = "problem" THEN {"html"} ELSE {"feed"}

\* What problem_update and post_update delete.  The feed of problems, and the
\* content and the summary of a post, are kept under other keys than these.
Dropped == IF row = "problem" THEN {"html", "pdf"} ELSE {"feed"}

\* A form of the admin site: the row is written and the signal is sent, ...
SaveForm ==
  /\ ~saving /\ text < MaxEdits
  /\ saving' = TRUE /\ meanwhile' = {}
  /\ kept' = [p \in AllPieces |-> IF p \in Dropped THEN NoPiece ELSE kept[p]]
  /\ outrun' = outrun \ Dropped
  /\ reverted' = FALSE
  /\ UNCHANGED <<row, text, reader, stats>>

\* ... and others see it when all of the form is written.
CommitForm ==
  /\ saving
  /\ text' = text + 1
  /\ outrun' = outrun \cup meanwhile
  /\ saving' = FALSE /\ meanwhile' = {}
  /\ UNCHANGED <<row, kept, reader, stats, reverted>>
-----------------------------------------------------------------------------
\* A view has read its row and finds that a piece of its page is not kept.
MissPiece(v, p) ==
  /\ reader[v] = NotReading /\ kept[p] = NoPiece
  /\ reader' = [reader EXCEPT ![v] = [piece |-> p, seen |-> text]]
  /\ UNCHANGED <<row, text, kept, saving, meanwhile, stats, outrun, reverted>>

KeepPiece(v) ==
  LET p == reader[v].piece
  IN  /\ reader[v] # NotReading
      /\ kept' = [kept EXCEPT ![p] = reader[v].seen]
      /\ outrun' = IF reader[v].seen # text THEN outrun \cup {p} ELSE outrun \ {p}
      /\ meanwhile' = IF saving THEN meanwhile \cup {p} ELSE meanwhile
      /\ reader' = [reader EXCEPT ![v] = NotReading]
      /\ UNCHANGED <<row, text, saving, stats, reverted>>

\* Only a PDF may fail to be made.
RenderingFails(v) ==
  /\ reader[v].piece = "pdf"
  /\ reader' = [reader EXCEPT ![v] = NotReading]
  /\ UNCHANGED <<row, text, kept, saving, meanwhile, stats, outrun, reverted>>

\* Entries of the cache live for an hour or a day; a PDF stays.
Expire(p) ==
  /\ p # "pdf" /\ kept[p] # NoPiece
  /\ kept' = [kept EXCEPT ![p] = NoPiece]
  /\ outrun' = outrun \ {p}
  /\ UNCHANGED <<row, text, saving, meanwhile, reader, stats, reverted>>
-----------------------------------------------------------------------------
\* on_grading_end reads submission.problem, and Problem.update_stats saves all of
\* it with _updating_stats_only set; a form that holds the row is waited for.
LoadProblem ==
  /\ row = "problem" /\ stats = NoPiece
  /\ stats' = text
  /\ UNCHANGED <<row, text, kept, saving, meanwhile, reader, outrun, reverted>>

UpdateStats ==
  /\ stats # NoPiece /\ ~saving
  /\ text' = stats /\ stats' = NoPiece
  /\ reverted' = (reverted \/ stats # text)
  /\ UNCHANGED <<row, kept, saving, meanwhile, reader, outrun>>
-----------------------------------------------------------------------------
PageCacheNext ==
  \/ \E v \in Readers, p \in PiecesOf[row] : MissPiece(v, p)
  \/ \E v \in Readers : KeepPiece(v) \/ RenderingFails(v)
  \/ \E p \in PiecesOf[row] : Expire(p)
  \/ SaveForm \/ CommitForm \/ LoadProblem \/ UpdateStats

PageCacheSpec == PageCacheInit /\ [][PageCacheNext]_pvars
-----------------------------------------------------------------------------
\* A piece the signals drop shows the row as it is, unless it was made of a row
\* that was read before an edit and kept after the edit's signal, or the
\* statistics put back an old text, which only the next edit repairs.
PiecesAreFresh ==
  ~saving /\ ~reverted =>
    \A p \in ({"html", "pdf"} \cup (IF row = "post" THEN {"feed"} ELSE {})) \ outrun :
      kept[p] \in {NoPiece, text}
=============================================================================
