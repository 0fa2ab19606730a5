------------------------------ MODULE Cursors ------------------------------
(***************************************************************************)
(* The lines that views and marks point at while a buffer changes under    *)
(* them: the cursors of ed_core.h's View, the scrolling of cursor.cpp and  *)
(* display.cpp, the tailing of a growing buffer, and mark.cpp.  Several    *)
(* windows show one buffer.  Only the line half of a position is modelled; *)
(* the place that savecur keeps, which no edit moves, is left out.          *)
(***************************************************************************)
EXTENDS Integers, Sequences, SequencesExt, FiniteSets

CONSTANTS Lines,     \* the lines there may be: an identity each
          Windows,   \* each has one view, and all the views show one buffer
          Layouts,   \* heights (d_Size.lin) the windows may have together
          EditLines, \* EditScreenLines()
          Scrolls,   \* values of the vscroll switch
          Hikes,     \* values of the hike switch
          Names,     \* names of marks
          MaxLine,   \* bound on where a place may be pushed by insertions
          Returners  \* windows whose user goes back to the previous place: only theirs is kept

ASSUME CursorsAssumption ==
  /\ EditLines \in Nat
  /\ Layouts \subseteq [Windows -> 3 .. EditLines] \* MIN_WIN_HEIGHT is 10, of which scrolling needs 3
  /\ Scrolls \subseteq 1 .. EditLines - 1 /\ Hikes \subseteq 1 .. 99
  /\ IsFiniteSet(Lines) /\ MaxLine \in Nat /\ Returners \subseteq Windows

VARIABLES doc,      \* the buffer's lines; line y of the code is doc[y + 1]
          cur,      \* the window with the focus
          height,   \* d_Size.lin of each window
          current,  \* d_current of each view: Origin, Cursor, fValid
          prev,     \* d_prev of the Returners
          marks,    \* d_MarkHead
          vscroll,  \* g_iVscroll
          hike      \* g_iHike

vars == <<doc, cur, height, current, prev, marks, vscroll, hike>>
switches == <<vscroll, hike>>

LineCount == Len(doc)
LastLine == LineCount - 1
LineNumbers == 0 .. LastLine
AtLeast(a, b) == IF a > b THEN a ELSE b
AtMost(a, b) == IF a < b THEN a ELSE b
Constrain(lo, x, hi) == AtLeast(lo, AtMost(x, hi))
-----------------------------------------------------------------------------
\* View::ScrollOriginAndCursor_

OriginMaxBare(w) == LastLine - height[w] + vscroll

OriginMax(w) == LastLine - height[w] + vscroll + (height[w] \div 3)

ScrolledTo(w, origin, cursor) ==
  LET o == Constrain(0, origin, OriginMax(w))
  IN  [current[w] EXCEPT !.origin = o, !.cursor = Constrain(o, cursor, o + height[w] - 1)]

ScrollOriginAndCursor(w, origin, cursor) == current' = [current EXCEPT ![w] = ScrolledTo(w, origin, cursor)]

\* View::MoveCursor_: the window follows by vscroll, or by hike when that is not enough.
VScroll(w) == AtLeast(1, (vscroll * height[w]) \div EditLines)
HikeLines(w) == AtLeast(1, (height[w] * hike) \div 100)

OriginFor(w, y) ==
  LET o == current[w].origin
      v == VScroll(w)
      row == y - o
  IN  IF -v <= row /\ row < height[w] + v
      THEN IF row < 0 THEN o - v ELSE IF row >= height[w] THEN o + v ELSE o
      ELSE y - HikeLines(w)

MoveTo(w, y) == ScrollOriginAndCursor(w, OriginFor(w, AtLeast(0, y)), AtLeast(0, y))
-----------------------------------------------------------------------------
\* What a command does to the view that has the focus.

NoEdit == UNCHANGED <<doc, cur, height, marks, switches>>

MoveCursor(y) == MoveTo(cur, y) /\ NoEdit /\ UNCHANGED prev

ScrollByPages(dir) ==
  LET u == current[cur]
      by == dir * height[cur]
  IN  ScrollOriginAndCursor(cur, u.origin + by, u.cursor + by) /\ NoEdit /\ UNCHANGED prev

\* ARG::plines, mlines and setwindow: the window moves and takes the cursor along.
ScrollOriginY(y) == ScrollOriginAndCursor(cur, y, current[cur].cursor) /\ NoEdit /\ UNCHANGED prev

ScrollToPrev ==
  /\ cur \in Returners
  /\ ScrollOriginAndCursor(cur, prev[cur].origin, prev[cur].cursor)
  /\ prev' = [prev EXCEPT ![cur] = current[cur]]
  /\ NoEdit
-----------------------------------------------------------------------------
\* FBUF::FBufEvent_LineInsDel: what follows a change of the lines from line y on.

AddLineDelta(var, y, delta) == IF y <= var THEN AtLeast(0, var + delta) ELSE var

ShiftPastOnly(u, y, delta) ==
  [u EXCEPT !.origin = IF y < @ THEN AtLeast(0, @ + delta) ELSE @,
            !.cursor = IF y < @ THEN AtLeast(0, @ + delta) ELSE @]

Shifted(u, y, delta) == [u EXCEPT !.origin = AddLineDelta(@, y, delta), !.cursor = AddLineDelta(@, y, delta)]

\* NamedPointListAddLineOfsPast, whose flag stops the shifting at the first mark past the line.
MarksShifted(y, delta) ==
  [i \in DOMAIN marks |->
     IF \E j \in 1 .. i : marks[j].lin > y THEN marks[i] ELSE [marks[i] EXCEPT !.lin = @ + delta]]

LineInsDel(y, delta) ==
  /\ current' = [w \in Windows |-> IF w = cur THEN current[w] ELSE Shifted(current[w], y, delta)]
  /\ prev' = [w \in Returners |-> IF w = cur THEN prev[w] ELSE Shifted(prev[w], y, delta)]
  /\ marks' = IF delta > 0 THEN MarksShifted(y, delta) ELSE marks
  /\ UNCHANGED <<cur, height, switches>>

\* FBUF::InsertLines__ before an existing line; past the end it only makes room.
InsertLines(y, new) ==
  /\ y \in LineNumbers
  /\ \A w \in Windows : current[w].cursor + Len(new) <= MaxLine
  /\ \A w \in Returners : prev[w].cursor + Len(new) <= MaxLine
  /\ doc' = SubSeq(doc, 1, y) \o new \o SubSeq(doc, y + 1, LineCount)
  /\ LineInsDel(y, Len(new))

\* FBUF::DeleteLines__
DeleteLines(first, last) ==
  /\ first \in LineNumbers
  /\ LET l == AtMost(last, LastLine)
     IN  /\ doc' = SubSeq(doc, 1, first) \o SubSeq(doc, l + 2, LineCount)
         /\ LineInsDel(first, first - l - 1)

\* PutLastLogLine: FBUF::PutLineRaw past the end, between the capture of the
\* line count and MoveCursorToEofAllWindows.  Growing the buffer is no LineInsDel.
TailingAlways(w) == TRUE

Tailing(w) == current[w].cursor >= LineCount

PutLastLine(line) ==
  /\ doc' = Append(doc, line)
  /\ current' = [w \in Windows |->
       LET y == LineCount + 1
           o == AtLeast(y - height[w] + 1, 0)
           max == OriginMax(w) + 1
           oo == Constrain(0, o, max)
       IN  IF Tailing(w)
           THEN [current[w] EXCEPT !.origin = oo, !.cursor = Constrain(oo, y, oo + height[w] - 1)]
           ELSE current[w]]
  /\ UNCHANGED <<cur, height, prev, marks, switches>>
-----------------------------------------------------------------------------
\* View::ULC_Cursor::EnsureWinContainsCursor does nothing to a place that is not fValid.
Ensured(u, h) ==
  IF u.valid /\ u.cursor - u.origin > h - 1 THEN [u EXCEPT !.origin = u.cursor - h + 1] ELSE u

\* SetWindowSetValidView and View::PutFocusOn
SwitchWindow(w) ==
  /\ w # cur
  /\ cur' = w
  /\ current' = [current EXCEPT ![w] = Ensured(@, height[w])]
  /\ prev' = [x \in Returners |-> IF x = w THEN Ensured(prev[x], height[x]) ELSE prev[x]]
  /\ UNCHANGED <<doc, height, marks, switches>>

\* Wins_ScreenSizeChanged or a split: Win::Event_Win_Resized of each window.
Resize(layout) ==
  /\ layout # height
  /\ height' = layout
  /\ current' = [w \in Windows |-> Ensured(current[w], layout[w])]
  /\ prev' = [w \in Returners |-> Ensured(prev[w], layout[w])]
  /\ UNCHANGED <<doc, cur, marks, switches>>
-----------------------------------------------------------------------------
\* The n-th of the positions I: n of them are up to it.
Nth(I, n) == CHOOSE i \in I : Cardinality({j \in I : j <= i}) = n

Others(name) ==
  LET I == {i \in DOMAIN marks : marks[i].name # name}
  IN  [n \in 1 .. Cardinality(I) |-> marks[Nth(I, n)]]

\* MarkDefineAtCurPos: the old mark of the name goes, the new one is put in order.
DefineMark(name) ==
  LET ms == Others(name)
      new == [name |-> name, lin |-> current[cur].cursor]
      at == Cardinality({i \in DOMAIN ms : \A j \in 1 .. i : ms[j].lin <= new.lin})
  IN  /\ marks' = InsertAt(ms, at + 1, new)
      /\ UNCHANGED <<doc, cur, height, current, prev, switches>>

DeleteMark(name) ==
  /\ marks' = Others(name)
  /\ UNCHANGED <<doc, cur, height, current, prev, switches>>

\* MarkGoto and FBufLocn::ScrollToOk
MarkGoto(name) == \E i \in DOMAIN marks : marks[i].name = name /\ MoveCursor(marks[i].lin)
-----------------------------------------------------------------------------
Home == [origin |-> 0, cursor |-> 0, valid |-> FALSE]

Init ==
  /\ doc \in {<<>>} \cup {SetToSeq(S) : S \in SUBSET Lines}
  /\ cur \in Windows
  /\ height \in Layouts
  /\ current = [w \in Windows |-> Home] /\ prev = [w \in Returners |-> Home]
  /\ marks = <<>>
  /\ vscroll \in Scrolls /\ hike \in Hikes

Unused == Lines \ Range(doc)

Next ==
  \/ \E y \in 0 .. LineCount + 1 : MoveCursor(y) \/ ScrollOriginY(y)
  \/ \E dir \in {-1, 1} : ScrollByPages(dir)
  \/ ScrollToPrev
  \/ \E y \in LineNumbers, l \in Unused : InsertLines(y, <<l>>)
  \/ \E y \in LineNumbers, l, k \in Unused : l # k /\ InsertLines(y, <<l, k>>)
  \/ \E y \in LineNumbers : \E z \in y .. y + 1 : DeleteLines(y, z)
  \/ \E l \in Unused : PutLastLine(l)
  \/ \E w \in Windows : SwitchWindow(w)
  \/ \E layout \in Layouts : Resize(layout)
  \/ \E n \in Names : DefineMark(n) \/ DeleteMark(n) \/ MarkGoto(n)

Spec == Init /\ [][Next]_vars
-----------------------------------------------------------------------------
InWindow(u, h) == u.origin <= u.cursor /\ u.cursor < u.origin + h

\* A line that outlives a step is where the number that named it then says it is.
SameLine(n, m) == (n < LineCount /\ doc[n + 1] \in Range(doc')) => (m < Len(doc') /\ doc[n + 1] = doc'[m + 1])

SamePlace(u, v) == SameLine(u.origin, v.origin) /\ SameLine(u.cursor, v.cursor)

(***************************************************************************)
(* Lines inserted or deleted by the window with the focus leave every      *)
(* other view, and the place it would go back to, on the lines they were   *)
(* on (View::ViewEvent_LineInsDel: "maintain the apparent/relative         *)
(* location of that View's cursor").                                       *)
(***************************************************************************)
OthersKeepTheirLines ==
  [][\A w \in Windows :
       (w # cur /\ (\E y \in LineNumbers : \/ \E l \in Lines : InsertLines(y, <<l>>)
                                           \/ \E l, k \in Lines : InsertLines(y, <<l, k>>)
                                           \/ \E z \in y .. y + 1 : DeleteLines(y, z)))
         => (SamePlace(current[w], current'[w]) /\ (w \in Returners => SamePlace(prev[w], prev'[w])))]_vars

(***************************************************************************)
(* A cursor sent to a line of the buffer, or to the one after the last,    *)
(* arrives there, and the window shows it, wherever the window was, however *)
(* high it is and whatever vscroll and hike are (View::MoveCursor_).       *)
(***************************************************************************)
CursorArrives ==
  [][\A y \in 0 .. LineCount :
       MoveCursor(y) => (current'[cur].cursor = y /\ InWindow(current'[cur], height[cur]))]_vars

(***************************************************************************)
(* When a buffer grows, the windows that were past its last line go on     *)
(* showing the new end, and the others stay on their line                  *)
(* (MoveCursorToEofAllWindows: "if the user has moved the cursor above the *)
(* tail line, don't molest the cursor").                                   *)
(***************************************************************************)
TailIsFollowed ==
  [][\A l \in Lines : PutLastLine(l) =>
       \A w \in Windows :
         IF current[w].cursor < LineCount
         THEN SamePlace(current[w], current'[w])
         ELSE current'[w].cursor = Len(doc') /\ InWindow(current'[w], height[w])]_vars

=============================================================================
