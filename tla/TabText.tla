------------------------------ MODULE TabText ------------------------------
(***************************************************************************)
(* The tab arithmetic of fbuf_edit.cpp and ed_core.h: where the characters *)
(* of a line are on the screen, what a line is once its tabs are blanks,   *)
(* and how blanks become tabs again when a line is written.  Columns and   *)
(* indices count from 0, as in the code; tw is the tab width.              *)
(***************************************************************************)
EXTENDS Integers, Sequences, SequencesExt

Blank == " "
HTab == "tab"
Letter == "x"   \* any character that is typed
Quote == "\""
Escape == "\\"

\* FoldLeft as a function of the prefix's length, which is evaluated in one pass.
Fold(Op(_, _), base, s) ==
  LET done[n \in 0 .. Len(s)] == IF n = 0 THEN base ELSE Op(done[n - 1], s[n])
  IN  done[Len(s)]

Blanks(n) == [i \in 1 .. (IF n > 0 THEN n ELSE 0) |-> Blank]
PadTo(s, n) == s \o Blanks(n - Len(s))
Upto(s, n) == SubSeq(s, 1, IF n < Len(s) THEN n ELSE Len(s))
From(s, n) == SubSeq(s, n + 1, Len(s))

ColOfNextTabStop(tw, col) == col + (tw - (col % tw))
ColAtTabStop(tw, col) == col % tw = 0
ColAfter(tw, col, ch) == IF ch = HTab THEN ColOfNextTabStop(tw, col) ELSE col + 1

\* The column of index ix, counted on from the column of another index.
ColOfFreeIdx(tw, s, ix, startIx, startCol) ==
  LET ix0 == IF startIx > ix THEN 0 ELSE startIx
      col0 == IF startIx > ix THEN 0 ELSE startCol
      col == Fold(LAMBDA c, ch: ColAfter(tw, c, ch), col0, From(Upto(s, ix), ix0))
  IN  IF ix < Len(s) THEN col ELSE col + (ix - Len(s))

ColOf(tw, s, ix) == ColOfFreeIdx(tw, s, ix, 0, 0)
StrCols(tw, s) == ColOf(tw, s, Len(s))

\* A bug to be caught: a search for a column left of the last one goes on from it.
FreeIdxOfColOnward(tw, s, col, start) ==
  LET from == start
      ColAt(ix) == ColOfFreeIdx(tw, s, ix, from.ix, from.col)
      past == {ix \in from.ix .. Len(s) - 1 : ColAt(ix + 1) > col}
      ix == CHOOSE i \in past : \A j \in past : i <= j
      end == ColAt(Len(s))
  IN  CASE col <= 0 -> [ix |-> 0, start |-> start]
        [] col > 0 /\ past # {} -> [ix |-> ix, start |-> [col |-> ColAt(ix), ix |-> ix]]
        [] OTHER -> [ix |-> Len(s) + (col - end), start |-> [col |-> end, ix |-> Len(s)]]

\* The index a column belongs to, and the pair of a column and an index that
\* the next search starts from.
FreeIdxOfCol(tw, s, col, start) ==
  LET from == IF start.col > col THEN [col |-> 0, ix |-> 0] ELSE start
      ColAt(ix) == ColOfFreeIdx(tw, s, ix, from.ix, from.col)
      past == {ix \in from.ix .. Len(s) - 1 : ColAt(ix + 1) > col}
      ix == CHOOSE i \in past : \A j \in past : i <= j
      end == ColAt(Len(s))
  IN  CASE col <= 0 -> [ix |-> 0, start |-> start]
        [] col > 0 /\ past # {} -> [ix |-> ix, start |-> [col |-> ColAt(ix), ix |-> ix]]
        [] OTHER -> [ix |-> Len(s) + (col - end), start |-> [col |-> end, ix |-> Len(s)]]

IdxOf(tw, s, col) == FreeIdxOfCol(tw, s, col, [col |-> 0, ix |-> 0]).ix
TabAlignedCol(tw, s, col) == ColOf(tw, s, IdxOf(tw, s, col))
ColOfNextChar(tw, s, col) == ColOf(tw, s, IdxOf(tw, s, col) + 1)
FirstNonBlankOrEnd(s) ==
  LET ixs == {i \in 0 .. Len(s) - 1 : s[i + 1] \notin {Blank, HTab}}
  IN  IF ixs = {} THEN Len(s) ELSE CHOOSE i \in ixs : \A j \in ixs : i <= j

\* A line as DupLineTabs2Spcs copies it: a tab is the blanks up to its stop.
Expand(tw, s) ==
  Fold(LAMBDA cells, ch: IF ch = HTab THEN PadTo(cells, ColOfNextTabStop(tw, Len(cells)))
                             ELSE Append(cells, ch),
           <<>>, s)
-----------------------------------------------------------------------------
\* A bug to be caught: the blanks before a stop are kept with their tab.
HoldKeepsRun(tw, acc) ==
  LET col == acc.col + 1
      run == acc.run + 1
  IN  IF ColAtTabStop(tw, col)
      THEN [acc EXCEPT !.out = Append(@, IF run = 1 THEN Blank ELSE HTab), !.col = col]
      ELSE [acc EXCEPT !.col = col, !.run = run]

\* The three conversions of blanks to tabs.  A run of blanks is held back until
\* it reaches a tab stop, and becomes a tab there unless it is one blank long.
Hold(tw, acc) ==
  LET col == acc.col + 1
      run == acc.run + 1
  IN  IF ColAtTabStop(tw, col)
      THEN [acc EXCEPT !.out = Append(@, IF run = 1 THEN Blank ELSE HTab), !.col = col, !.run = 0]
      ELSE [acc EXCEPT !.col = col, !.run = run]

KeepTab(tw, acc) ==
  [acc EXCEPT !.out = Append(@, HTab), !.col = ColOfNextTabStop(tw, @), !.run = 0]

Flushed(acc) == [acc EXCEPT !.out = @ \o Blanks(acc.run), !.run = 0]

\* A character outside of a run; a tab that is copied counts for one column.
Copy(acc, ch) == [Flushed(acc) EXCEPT !.out = Append(@, ch), !.col = @ + 1]

\* Only a double quote opens a quotation: the case of the single one breaks off.
Quoting(acc, ch) ==
  CASE acc.escaped -> [acc EXCEPT !.escaped = FALSE]
    [] ~acc.escaped /\ ch = Escape -> [acc EXCEPT !.escaped = TRUE]
    [] ~acc.escaped /\ ch = Quote -> [acc EXCEPT !.quoted = ~@]
    [] OTHER -> acc

\* Blanks are converted everywhere, until the first other character, or where
\* they are neither quoted nor escaped.
Open(mode, acc) ==
  CASE mode = "all" -> TRUE
    [] mode = "leading" -> acc.leading
    [] mode = "exoquote" -> ~acc.quoted /\ ~acc.escaped

Entabbed(mode, tw, s) ==
  LET Step(acc, ch) ==
        IF Open(mode, acc) /\ ch \in {Blank, HTab}
        THEN IF ch = HTab THEN KeepTab(tw, acc) ELSE Hold(tw, acc)
        ELSE [Quoting(Copy(acc, ch), ch) EXCEPT !.leading = FALSE]
      start == [out |-> <<>>, col |-> 0, run |-> 0, leading |-> TRUE,
                quoted |-> FALSE, escaped |-> FALSE]
  IN  IF mode = "none" THEN s ELSE Flushed(Fold(Step, start, s)).out

TrailingBlanksRemoved(s) ==
  LET last == {i \in 1 .. Len(s) : s[i] \notin {Blank, HTab}}
  IN  IF last = {} THEN <<>> ELSE Upto(s, CHOOSE i \in last : \A j \in last : i >= j)
-----------------------------------------------------------------------------
\* A line opened for n columns at column x, and padded up to it when it is shorter.
DupLineForInsert(tw, s, x, n) ==
  LET cells == PadTo(Expand(tw, s), x)
  IN  Upto(cells, x) \o Blanks(n) \o From(cells, x)

\* A line without width of its columns, or with blanks in their place.
LineWithSegRemoved(tw, s, xLeft, width, collapse) ==
  LET cells == Expand(tw, s)
  IN  CASE Len(cells) <= xLeft -> cells
        [] Len(cells) > xLeft /\ xLeft + width >= Len(cells) -> Upto(cells, xLeft)
        [] OTHER -> Upto(cells, xLeft) \o (IF collapse THEN <<>> ELSE Blanks(width))
                      \o From(cells, xLeft + width)
=============================================================================
