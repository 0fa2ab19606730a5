----------------------------- MODULE UndoHistory -----------------------------
(***************************************************************************)
(* UndoRedo implements History.  A history variable remembers, beside each *)
(* boundary record, the document that was on the screen when the boundary  *)
(* was made; the refinement says that undo and redo show exactly these     *)
(* documents again, whatever edits, walks, prunes and discards came        *)
(* between.                                                                *)
(***************************************************************************)
EXTENDS UndoRedo

VARIABLE snaps   \* snaps[k]: the document when boundary edits[k] was made

historyVars == <<vars, snaps>>

\* A record that joins the list discards the snapshots above the current one.
Snapped(d) ==
  snaps' = IF cur' > cur THEN Append(SubSeq(snaps, 1, cur), d) ELSE snaps

HistoryInit == Init /\ snaps = <<DocOf(fb)>>

HistoryNext ==
  \/ UndoInsBoundary /\ Snapped(DocOf(fb))
  \/ Edit /\ Snapped(<<>>)
  \/ PruneStep /\ snaps' = IF cur' < cur THEN Tail(snaps) ELSE snaps
  \/ ReadFromDisk /\ snaps' = <<DocOf(fb')>>
  \/ (Command \/ Walk \/ OtherSync) /\ UNCHANGED snaps

HistorySpec == HistoryInit /\ [][HistoryNext]_historyVars
-----------------------------------------------------------------------------
NumBoundaries(k) == Cardinality(BoundariesIn(edits, 1, k))
BoundaryAt(i) ==
  CHOOSE k \in 1 .. Len(edits) : IsBoundary(edits[k]) /\ NumBoundaries(k) = i

\* The committed documents are the snapshots at the boundaries.  A walk counts
\* as finished from its start: the position is already that of the boundary
\* it will stop at.
histDocs == [i \in 1 .. NumBoundaries(Len(edits)) |-> snaps[BoundaryAt(i)]]
histPos ==
  CASE pc = "undo" -> NumBoundaries(cur - 1)
    [] pc = "redo" -> NumBoundaries(cur) + 1
    [] OTHER       -> NumBoundaries(cur)
histDoc == IF pc \in {"undo", "redo"} THEN histDocs[histPos] ELSE DocOf(fb)
histOpen == pc \notin {"undo", "redo"} /\ ~IsBoundary(edits[cur])

AllDocs == Seq(Content)

Abstract == INSTANCE History
              WITH Docs <- AllDocs, docs <- histDocs, pos <- histPos,
                   doc <- histDoc, open <- histOpen

\* Undo and redo are exact: at every boundary the user gets back to, the
\* buffer holds the document that was there when the boundary was made
\* (fbuf_undo.cpp: EdOpAltLineContent, EdOpLineRangeInsert,
\* EdOpLineRangeDelete, Undo_AddNewEditOpToListHead, UndoInsBoundary).
ImplementsHistory == Abstract!Spec
=============================================================================
