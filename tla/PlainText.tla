----------------------------- MODULE PlainText -----------------------------
(***************************************************************************)
(* What the commands on selections promise: the text is a grid of cells,   *)
(* without tabs, without blanks at the end of a row and without empty rows *)
(* at its end, and a command takes cells out of it or puts cells into it.  *)
(* A selection is the cells between two points, whichever of them the      *)
(* cursor is at: as a stream, or as the box the points are the corners of, *)
(* or, for points in one column, as lines.  A command c takes the cells s   *)
(* to one of the u with Done(s, u, c): the text, the board with the rows   *)
(* that were copied, and the kind of selection they were.                  *)
(***************************************************************************)
EXTENDS TabText

Trim(s) ==
  LET full == {i \in 1 .. Len(s) : s[i] # Blank}
  IN  IF full = {} THEN <<>> ELSE Upto(s, CHOOSE i \in full : \A j \in full : i >= j)

Tidy(t) ==
  LET full == {y \in DOMAIN t : Trim(t[y]) # <<>>}
  IN  IF full = {} THEN <<>>
      ELSE SubSeq([y \in DOMAIN t |-> Trim(t[y])], 1, CHOOSE y \in full : \A z \in full : y >= z)

Row(t, y) == IF y < Len(t) THEN t[y + 1] ELSE <<>>
Rows(t, n) == [y \in 1 .. n |-> Row(t, y - 1)]

\* The rows from yMin to yMax replaced by others.
Spliced(t, yMin, yMax, rows) == Tidy(Rows(t, yMin) \o rows \o From(t, yMax + 1))

\* The same change made to each of the rows of a box.
Changed(t, yMin, yMax, New(_, _)) ==
  Spliced(t, yMin, yMax, [i \in 1 .. yMax - yMin + 1 |-> New(Row(t, yMin + i - 1), i)])
-----------------------------------------------------------------------------
Lesser(m, n) == IF m < n THEN m ELSE n
Greater(m, n) == IF m < n THEN n ELSE m
Before(p, q) == p.lin < q.lin \/ (p.lin = q.lin /\ p.col < q.col)

First(c) == IF Before(c.anchor, c.at) THEN c.anchor ELSE c.at
Second(c) == IF Before(c.anchor, c.at) THEN c.at ELSE c.anchor
XMin(c) == Lesser(c.anchor.col, c.at.col)
XMax(c) == Greater(c.anchor.col, c.at.col)
YMin(c) == First(c).lin
YMax(c) == Second(c).lin

\* Lines and boxes are told apart by the columns, streams by the mode.
LinesOrBox(c) == IF c.anchor.col = c.at.col THEN "LINE" ELSE "BOX"
AsShown(c) == IF c.box THEN LinesOrBox(c) ELSE "STREAM"
Null(c) == c.sel /\ c.anchor = c.at

Region(t, shape, a, b) ==
  CASE shape = "LINE" -> [i \in 1 .. b.lin - a.lin + 1 |-> Row(t, a.lin + i - 1)]
    [] shape = "BOX" -> [i \in 1 .. b.lin - a.lin + 1 |->
                           From(Upto(PadTo(Row(t, a.lin + i - 1), b.col), b.col), a.col)]
    [] shape = "STREAM" ->
         IF a.lin = b.lin THEN << From(Upto(PadTo(Row(t, a.lin), b.col), b.col), a.col) >>
         ELSE << From(Row(t, a.lin), a.col) >>
                \o [i \in 1 .. b.lin - a.lin - 1 |-> Row(t, a.lin + i)]
                \o << PadTo(Upto(Row(t, b.lin), b.col), b.col) >>

Without(t, shape, a, b) ==
  CASE shape = "LINE" -> Spliced(t, a.lin, b.lin, <<>>)
    [] shape = "BOX" -> Changed(t, a.lin, b.lin, LAMBDA r, i: Upto(r, a.col) \o From(r, b.col))
    [] shape = "STREAM" ->
         Spliced(t, a.lin, b.lin, << Upto(Row(t, a.lin), a.col) \o From(Row(t, b.lin), b.col) >>)

Blanked(t, a, b) ==
  Changed(t, a.lin, b.lin, LAMBDA r, i: Upto(r, a.col) \o Blanks(b.col - a.col) \o From(r, b.col))

With(t, shape, p, rows) ==
  LET Padded(r) == Upto(PadTo(r, p.col), p.col)
      n == Len(rows)
      row == Row(t, p.lin)
  IN  CASE shape = "LINE" -> Spliced(t, p.lin, p.lin - 1, rows)
        [] shape = "BOX" -> Changed(t, p.lin, p.lin + n - 1, LAMBDA r, i:
                              Padded(r) \o rows[i] \o From(r, p.col))
        [] shape = "STREAM" ->
             Spliced(t, p.lin, p.lin,
               IF n = 1 THEN << Padded(row) \o rows[1] \o From(row, p.col) >>
               ELSE << Padded(row) \o rows[1] >> \o SubSeq(rows, 2, n - 1)
                      \o << rows[n] \o From(row, p.col) >>)

\* The corners of a shape: what is at the second one is not part of it.
At(lin, col) == [lin |-> lin, col |-> col]
Corner1(c, shape) == IF shape = "STREAM" THEN First(c) ELSE At(YMin(c), XMin(c))
Corner2(c, shape) == IF shape = "STREAM" THEN Second(c) ELSE At(YMax(c), XMax(c))

\* Where the text goes that replaces a selection.
Place(c, shape) ==
  CASE ~c.sel -> c.at
    [] c.sel /\ shape = "LINE" -> At(YMin(c), c.at.col)
    [] OTHER -> Corner1(c, shape)

Unselected(t, c) ==
  IF c.sel THEN Without(t, AsShown(c), Corner1(c, AsShown(c)), Corner2(c, AsShown(c))) ELSE t
-----------------------------------------------------------------------------
KeepBoard(s, u) == u.board = s.board /\ u.kind = s.kind
Becomes(s, u, text) == u.text = text /\ KeepBoard(s, u)

\* The first row of a copied stream that begins at the end of its row may begin
\* with the cell before.
Taken(t, shape, a, b) ==
  LET region == Region(t, shape, a, b)
      cell == From(Upto(PadTo(Row(t, a.lin), a.col), a.col), a.col - 1)
  IN  IF shape = "STREAM" /\ a.lin < b.lin /\ a.col > 0 /\ a.col >= Len(Row(t, a.lin))
      THEN {region, [region EXCEPT ![1] = cell]} ELSE {region}

\* Nothing is promised of a stream that begins on an empty row and is copied.
Unpromised(t, shape, a, b) ==
  shape = "STREAM" /\ a.lin < b.lin /\ a.col = 0 /\ Row(t, a.lin) = <<>>

Copied(s, u, c, shape, a, b) == u.board \in Taken(s.text, shape, a, b) /\ u.kind = shape

Cut(s, u, c, shape, a, b) ==
  \/ Unpromised(s.text, shape, a, b) /\ ~c.meta /\ u = s
  \/ /\ c.meta \/ ~Unpromised(s.text, shape, a, b)
     /\ u.text = Without(s.text, shape, a, b)
     /\ IF c.meta THEN KeepBoard(s, u) ELSE Copied(s, u, c, shape, a, b)

CutSelected(s, u, c, shape) == Cut(s, u, c, shape, Corner1(c, shape), Corner2(c, shape))

\* One cell, or the blanks a tab may have been.
Rubbed(s, u, y, x) ==
  IF x >= Len(Row(s.text, y)) THEN u.text = s.text
  ELSE \/ u.text = Without(s.text, "BOX", At(y, x), At(y, x + 1))
       \/ \E p \in 0 .. x, q \in x + 1 .. Len(Row(s.text, y)) :
            /\ \A i \in p + 1 .. q : Row(s.text, y)[i] = Blank
            /\ u.text = Without(s.text, "BOX", At(y, p), At(y, q))

Sdelete(s, u, c) ==
  CASE ~c.sel -> Rubbed(s, u, c.at.lin, c.at.col) /\ KeepBoard(s, u)
    [] Null(c) -> Cut(s, u, c, "STREAM", c.at, At(c.at.lin + 1, 0))
    [] OTHER -> CutSelected(s, u, c, "STREAM")

\* The rest of a row is copied with one blank more.
CutHere(s, u, c) ==
  LET row == Row(s.text, c.at.lin)
  IN  CASE ~c.sel -> Cut(s, u, c, "LINE", At(c.at.lin, 0), At(c.at.lin, 0))
        [] Null(c) /\ c.at.col > Len(row) -> u = s
        [] Null(c) /\ c.at.col <= Len(row) -> Cut(s, u, c, "BOX", c.at, At(c.at.lin, Len(row) + 1))

Ldelete(s, u, c) ==
  IF ~c.sel \/ Null(c) THEN CutHere(s, u, c) ELSE CutSelected(s, u, c, LinesOrBox(c))

Udelete(s, u, c) ==
  CASE ~c.sel \/ Null(c) -> CutHere(s, u, c)
    [] c.sel /\ ~Null(c) /\ c.twice /\ AsShown(c) = "BOX" ->
         /\ u.text = Blanked(s.text, Corner1(c, "BOX"), Corner2(c, "BOX"))
         /\ IF c.meta THEN KeepBoard(s, u)
            ELSE Copied(s, u, c, "BOX", Corner1(c, "BOX"), Corner2(c, "BOX"))
    [] OTHER -> CutSelected(s, u, c, AsShown(c))

CopyRegion(s, u, c) ==
  LET shape == IF c.sel THEN AsShown(c) ELSE "LINE"
      a == IF c.sel THEN Corner1(c, shape) ELSE At(c.at.lin, 0)
      b == IF c.sel THEN Corner2(c, shape) ELSE At(c.at.lin, 0)
  IN  /\ u.text = s.text
      /\ IF Unpromised(s.text, shape, a, b) THEN KeepBoard(s, u)
         ELSE Copied(s, u, c, shape, a, b)
-----------------------------------------------------------------------------
BlankRows(n, width) == [i \in 1 .. n |-> Blanks(width)]
BlankStream(a, b) ==
  IF a.lin = b.lin THEN <<Blanks(b.col - a.col)>>
  ELSE BlankRows(b.lin - a.lin, 0) \o <<Blanks(b.col)>>

Sinsert(s, u, c) ==
  CASE ~c.sel -> Becomes(s, u, With(s.text, "BOX", c.at, <<Blanks(1)>>))
    [] Null(c) -> Becomes(s, u, With(s.text, "STREAM", c.at, BlankStream(c.at, At(c.at.lin + 1, 0))))
    [] OTHER -> Becomes(s, u, With(s.text, "STREAM", First(c), BlankStream(First(c), Second(c))))

\* The cells of a row, and where a null argument moves it: not always to the cursor.
Margin(row) == Len(row) - Len(Trim(Reverse(row)))

Linsert(s, u, c) ==
  LET n == YMax(c) - YMin(c) + 1
      row == Row(s.text, c.at.lin)
  IN  CASE ~c.sel -> Becomes(s, u, With(s.text, "LINE", c.at, <<<<>>>>))
        [] Null(c) -> /\ KeepBoard(s, u)
                      /\ \E m \in 0 .. Margin(row) + c.at.col :
                           u.text = Spliced(s.text, c.at.lin, c.at.lin,
                                           << Blanks(m) \o From(row, Margin(row)) >>)
        [] OTHER -> IF LinesOrBox(c) = "LINE"
                    THEN Becomes(s, u, With(s.text, "LINE", Corner1(c, "LINE"), BlankRows(n, 0)))
                    ELSE Becomes(s, u, With(s.text, "BOX", Corner1(c, "BOX"),
                                      BlankRows(n, XMax(c) - XMin(c))))

Paste(s, u, c) ==
  LET place == Place(c, AsShown(c))
      unpromised == s.kind = "STREAM" /\ Len(s.board) > 1 /\ s.board[1] = <<>>
  IN  /\ KeepBoard(s, u)
      /\ u.text = IF unpromised THEN s.text
                 ELSE IF s.kind = "none" \/ s.board = <<>> THEN Unselected(s.text, c)
                 ELSE With(Unselected(s.text, c), s.kind, place, s.board)

Graphic(s, u, c) ==
  Becomes(s, u, With(Unselected(s.text, c), "BOX", Place(c, AsShown(c)), << <<Letter>> >>))

\* The second of the quotes stands behind the last cell that is not blank; where
\* there is none, before, on or in the blanks.
Ends(row, xMin, xMax) ==
  LET seg == Trim(From(Upto(row, xMax), xMin))
  IN  IF seg = <<>> THEN 0 .. xMax ELSE {xMin + Len(seg)}

Quoted(row, xMin, xEnd) ==
  LET Put(r, x) == Upto(PadTo(r, x), x) \o <<Quote>> \o From(r, x)
  IN  Put(Put(row, xEnd), xMin)

Surround(s, u, c) ==
  LET a == First(c)
      b == Second(c)
      n == YMax(c) - YMin(c) + 1
  IN  /\ KeepBoard(s, u)
      /\ IF AsShown(c) = "STREAM"
         THEN u.text = With(With(s.text, "BOX", b, << <<Quote>> >>), "BOX", a, << <<Quote>> >>)
         ELSE /\ u.text = Spliced(s.text, YMin(c), YMax(c),
                                  [i \in 1 .. n |-> Row(u.text, YMin(c) + i - 1)])
              /\ \A y \in YMin(c) .. YMax(c) : \E xEnd \in Ends(Row(s.text, y), XMin(c), XMax(c)) :
                   Row(u.text, y) = Trim(Quoted(Row(s.text, y), XMin(c), xEnd))

Rubout(s, u, c, joins) ==
  /\ KeepBoard(s, u)
  /\ CASE c.at.col > 0 -> Rubbed(s, u, c.at.lin, c.at.col - 1)
       [] c.at.col = 0 /\ (c.at.lin = 0 \/ ~joins) -> u.text = s.text
       [] c.at.col = 0 /\ c.at.lin > 0 /\ joins ->
            LET eol == At(c.at.lin - 1, Len(Row(s.text, c.at.lin - 1)))
            IN  u.text = Without(s.text, "STREAM", eol, c.at)

Indent(t, y) ==
  CASE Row(t, y + 1) # <<>> -> Margin(Row(t, y + 1))
    [] Row(t, y + 1) = <<>> -> Margin(Row(t, y))

Emacsnewl(s, u, c) ==
  LET below == At(c.at.lin + 1, Indent(s.text, c.at.lin))
  IN  Becomes(s, u, With(s.text, "STREAM", c.at, BlankStream(c.at, below)))
-----------------------------------------------------------------------------
Done(s, u, c) ==
  CASE c.cmd = "sdelete" -> Sdelete(s, u, c)
    [] c.cmd = "ldelete" -> Ldelete(s, u, c)
    [] c.cmd = "udelete" -> Udelete(s, u, c)
    [] c.cmd = "copy" -> CopyRegion(s, u, c)
    [] c.cmd = "sinsert" -> Sinsert(s, u, c)
    [] c.cmd = "linsert" -> Linsert(s, u, c)
    [] c.cmd = "paste" -> Paste(s, u, c)
    [] c.cmd = "graphic" -> Graphic(s, u, c)
    [] c.cmd = "surround" -> Surround(s, u, c)
    [] c.cmd = "cdelete" -> Rubout(s, u, c, FALSE)
    [] c.cmd = "emacscdel" -> Rubout(s, u, c, TRUE)
    [] c.cmd = "emacsnewl" -> Emacsnewl(s, u, c)
=============================================================================
