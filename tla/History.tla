------------------------------- MODULE History -------------------------------
(***************************************************************************)
(* What the undo facility of fbuf_undo.cpp promises, with no edit records: *)
(* a line of committed documents with a position in it, and the document   *)
(* on the screen.  Undo and Redo move to the neighbouring committed        *)
(* document and change none of them; an edit made in the past gives up the *)
(* documents after the position; old documents may be forgotten.           *)
(***************************************************************************)
EXTENDS Naturals, Sequences

CONSTANT Docs   \* the documents a buffer may hold

VARIABLES
  docs,  \* the committed documents, oldest first
  pos,   \* the position in docs
  doc,   \* the document on the screen
  open   \* TRUE: edits were recorded since docs[pos] was committed

hvars == <<pos, open, doc, docs>>

Type ==
  /\ docs \in Seq(Docs)
  /\ pos \in 0 .. Len(docs)
  /\ doc \in Docs
  /\ open \in BOOLEAN

Init ==
  /\ doc \in Docs
  /\ docs = <<doc>>
  /\ pos = 1
  /\ open = FALSE

\* An edit of the document gives up the documents after the position.
Edit ==
  /\ open' = TRUE
  /\ pos' = pos
  /\ doc' \in Docs
  /\ docs' = SubSeq(docs, 1, pos)

\* The next command commits the edits made so far as one step.
Commit ==
  /\ open
  /\ open' = FALSE
  /\ pos' = pos + 1
  /\ doc' = doc
  /\ docs' = Append(docs, doc)

\* Undo and redo start from a committed document.
Move(to) ==
  /\ ~open
  /\ pos' = to
  /\ to \in 1 .. Len(docs)
  /\ doc' = docs[to]
  /\ UNCHANGED <<open, docs>>
Undo == Move(pos - 1)
Redo == Move(pos + 1)

\* The oldest document is given up, never the one at the position.
Forget ==
  /\ pos > 1
  /\ pos' = pos - 1
  /\ docs' = Tail(docs)
  /\ UNCHANGED <<doc, open>>

\* The buffer is emptied and filled anew.
Restart ==
  /\ open' = FALSE
  /\ pos' = 1
  /\ doc' \in Docs
  /\ docs' = <<doc'>>

Next == Edit \/ Commit \/ Undo \/ Redo \/ Forget \/ Restart

Spec == Init /\ [][Next]_hvars
=============================================================================
