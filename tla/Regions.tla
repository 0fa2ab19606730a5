------------------------------ MODULE Regions ------------------------------
(***************************************************************************)
(* The commands that insert, delete, copy and paste what is selected       *)
(* (fbuf_edit.cpp), with the arguments a selection gives them              *)
(* (buildexecute.cpp).  A buffer is its lines and the settings that decide *)
(* how a line is written into it; a region runs from min to max.           *)
(***************************************************************************)
EXTENDS TabText, FiniteSets

CONSTANTS TabWidth,    \* of the file being edited
          ClipWidth,   \* of <clipboard>
          EntabModes,  \* how the file's blanks become tabs: none, leading, exoquote, all
          Texts,       \* what the file may hold at first: sequences of lines
          Points,      \* where anchor and cursor may be put, one set for each step
          Script       \* the commands that may be used, one set for each step

ASSUME WidthsAssumption == TabWidth \in 1 .. 8 /\ ClipWidth \in 1 .. 8

VARIABLES doc,       \* the lines of the file
          entab,     \* its d_Entab
          clip,      \* the lines of <clipboard>
          clipType,  \* g_ClipboardType
          cursor,
          call,      \* the last command, and the ARG it was given
          thrown     \* a string operation has thrown: nothing catches it

\* The calls made so far do not tell states apart, nor does the cursor, which the
\* next call is given anew.
View == <<doc, entab, clip, clipType, Len(call), thrown>>
vars == <<doc, entab, clip, clipType, cursor, call, thrown>>

EmptyLines(n) == [i \in 1 .. (IF n > 0 THEN n ELSE 0) |-> <<>>]
Line(lines, y) == IF y < Len(lines) THEN lines[y + 1] ELSE <<>>

\* doc and clip with what the writing of a line looks at.
Doc == [lines |-> doc, tw |-> TabWidth, entab |-> entab, keep |-> FALSE]
Clip == [lines |-> clip, tw |-> ClipWidth, entab |-> "none", keep |-> TRUE]
EmptyClip == [Clip EXCEPT !.lines = <<>>]

Expanded(b, y) == Expand(b.tw, Line(b.lines, y))
LineCols(b, y) == StrCols(b.tw, Line(b.lines, y))
OpenedAt(b, y, x, n) == DupLineForInsert(b.tw, Line(b.lines, y), x, n)
-----------------------------------------------------------------------------
PutLineRaw(b, y, s) ==
  LET kept == IF b.keep THEN s ELSE TrailingBlanksRemoved(s)
  IN  [b EXCEPT !.lines = Upto(@, y) \o EmptyLines(y - Len(@)) \o <<kept>> \o From(@, y + 1)]

PutLineEntab(b, y, s) == PutLineRaw(b, y, Entabbed(b.entab, b.tw, s))

\* Lines inserted at the end of a buffer only reserve room for them.
InsertLines(b, y, n) ==
  IF n <= 0 \/ y >= Len(b.lines) THEN b
  ELSE [b EXCEPT !.lines = Upto(@, y) \o EmptyLines(n) \o From(@, y)]

DelLines(b, yMin, yMax) ==
  IF yMin >= Len(b.lines) THEN b
  ELSE [b EXCEPT !.lines = Upto(@, yMin) \o From(@, yMax + 1)]

\* Line by line, from yTop on: Put writes line y of the buffer it is given.
EachLine(b, yTop, yBottom, Put(_, _)) ==
  Fold(LAMBDA buf, i: Put(buf, yTop + i - 1), b, [i \in 1 .. yBottom - yTop + 1 |-> i])

DelBox(b, min, max, collapse) ==
  IF max.col < min.col THEN b
  ELSE EachLine(b, min.lin, max.lin, LAMBDA buf, y:
         PutLineEntab(buf, y, LineWithSegRemoved(buf.tw, Line(buf.lines, y), min.col,
                                                 max.col - min.col + 1, collapse)))

\* The character at max is not part of a stream.
DelStream(b, min, max) ==
  IF min.lin = max.lin THEN DelBox(b, min, [max EXCEPT !.col = @ - 1], TRUE)
  ELSE LET first == Upto(Expanded(b, min.lin), min.col)
           below == DelLines(b, min.lin, max.lin - 1)
       IN  PutLineEntab(below, min.lin, first \o From(Expanded(below, min.lin), max.col))
-----------------------------------------------------------------------------
\* The source of a copy is a buffer, or no buffer, for blanks.
NoBuf == [lines |-> <<>>, tw |-> 0, entab |-> "none", keep |-> TRUE]
BlankSource(src) == src = NoBuf

CopyLines(dst, yDst, src, yMin, yMax) ==
  LET opened == InsertLines(dst, yDst, yMax - yMin + 1)
  IN  IF yMin > yMax THEN dst
      ELSE IF BlankSource(src) THEN opened
      ELSE EachLine(opened, yDst, yDst + yMax - yMin, LAMBDA buf, y:
             PutLineEntab(buf, y, Line(src.lines, yMin + y - yDst)))

CopyBox(dst, at, src, min, max) ==
  LET width == max.col - min.col + 1
      Source(y) == IF BlankSource(src) THEN Blanks(width)
                   ELSE SubSeq(OpenedAt(src, y, max.col + 1, 0), min.col + 1, max.col + 1)
  IN  IF max.col < min.col THEN dst
      ELSE EachLine(dst, at.lin, at.lin + max.lin - min.lin, LAMBDA buf, y:
             LET line == OpenedAt(buf, y, at.col, 0)
             IN  PutLineEntab(buf, y, Upto(line, at.col) \o Source(min.lin + y - at.lin)
                                        \o From(line, at.col)))

\* A stream that begins on an empty line, in its first column, gives the string
\* replacement a position past the end of the string: it throws.
StreamThrows(src, min, max) ==
  /\ min.lin < max.lin /\ ~BlankSource(src)
  /\ OpenedAt(src, min.lin, min.col, 0) = <<>>

\* The index the first line's text is taken from is one of its characters.
CopyStream(dst, at, src, min, max) ==
  LET opened == CopyLines(dst, at.lin + 1, src, min.lin + 1, max.lin)
      line == OpenedAt(opened, at.lin, at.col, 0)
      lastLine == IF BlankSource(src) THEN Blanks(max.col)
                  ELSE Upto(OpenedAt(src, max.lin, max.col, 0), max.col)
      firstLine == OpenedAt(src, min.lin, min.col, 0)
      ix == IF min.col < Len(firstLine) THEN min.col ELSE Len(firstLine) - 1
      ended == PutLineEntab(opened, at.lin + max.lin - min.lin, lastLine \o From(line, at.col))
  IN  CASE min.lin > max.lin -> dst
        [] min.lin = max.lin -> CopyBox(dst, at, src, min, [max EXCEPT !.col = @ - 1])
        [] OTHER -> PutLineEntab(ended, at.lin, Upto(line, at.col)
                      \o (IF BlankSource(src) THEN <<>> ELSE From(firstLine, ix)))
-----------------------------------------------------------------------------
\* ARG::FillArgStruct: the argument the anchor and the cursor make of a
\* selection, the corners of a box without its last column.
Pt(lin, col) == [lin |-> lin, col |-> col]
Before(p, q) == p.lin < q.lin \/ (p.lin = q.lin /\ p.col < q.col)
Lesser(m, n) == IF m < n THEN m ELSE n
Greater(m, n) == IF m < n THEN n ELSE m

FillArgStruct(anchor, at, boxMode) ==
  LET xMin == Lesser(anchor.col, at.col)
      xMax == Greater(anchor.col, at.col)
      yMin == Lesser(anchor.lin, at.lin)
      yMax == Greater(anchor.lin, at.lin)
  IN  CASE anchor = at -> [type |-> "NULL", min |-> at, max |-> at]
        [] anchor # at /\ boxMode /\ anchor.col = at.col ->
             [type |-> "LINE", min |-> Pt(yMin, 0), max |-> Pt(yMax, 0)]
        [] anchor # at /\ boxMode /\ anchor.col # at.col ->
             [type |-> "BOX", min |-> Pt(yMin, xMin), max |-> Pt(yMax, xMax - 1)]
        [] OTHER -> IF Before(anchor, at) THEN [type |-> "STREAM", min |-> anchor, max |-> at]
                    ELSE [type |-> "STREAM", min |-> at, max |-> anchor]

NoArg(at) == [type |-> "NO", min |-> at, max |-> at]

ConvertLineOrBoxArgToStreamArg(arg, anchor) ==
  LET forward == [type |-> "STREAM", min |-> arg.min, max |-> Pt(arg.max.lin, arg.max.col + 1)]
      backward == [type |-> "STREAM", min |-> Pt(arg.min.lin, arg.max.col + 1),
                   max |-> Pt(arg.max.lin, arg.min.col)]
  IN  CASE arg.type = "LINE" -> [type |-> "STREAM", min |-> Pt(arg.min.lin, anchor.col),
                                 max |-> Pt(arg.max.lin, anchor.col)]
        [] arg.type = "BOX" -> IF anchor = arg.min \/ anchor = forward.max THEN forward ELSE backward
        [] OTHER -> arg

ConvertStreamargToLineargOrBoxarg(arg) ==
  CASE arg.type # "STREAM" -> arg
    [] arg.type = "STREAM" /\ arg.min.col = arg.max.col ->
         [type |-> "LINE", min |-> Pt(arg.min.lin, 0), max |-> Pt(arg.max.lin, 0)]
    [] OTHER -> [type |-> "BOX", min |-> Pt(arg.min.lin, Lesser(arg.min.col, arg.max.col)),
                 max |-> Pt(arg.max.lin, Greater(arg.min.col, arg.max.col) - 1)]
-----------------------------------------------------------------------------
\* A command is called without an argument, or with a selection: from the anchor
\* to the cursor, in box mode or not, in either case with meta or a second arg.
Calls(cmd, sels, metas, twices) ==
  LET n == Len(call) + 1
      points == IF n <= Len(Script) /\ cmd \in Script[n] THEN Points[n] ELSE {}
  IN  [cmd : {cmd}, sel : sels, anchor : points, at : points, box : BOOLEAN, meta : metas,
       twice : twices]

Arg(c) == IF c.sel THEN FillArgStruct(c.anchor, c.at, c.box) ELSE NoArg(c.at)

\* What does not tell calls apart is left at one value.
Given(c) == c.sel \/ (c.anchor = c.at /\ c.box)

Init ==
  /\ doc \in Texts /\ entab \in EntabModes
  /\ clip = <<>> /\ clipType = "none"
  /\ cursor = Pt(0, 0)
  /\ call = <<>> /\ thrown = FALSE

\* The n-th command; the cursor is where it was put for it.
Called(c) ==
  /\ ~thrown /\ Given(c)
  /\ call' = Append(call, c)
  /\ UNCHANGED entab

KeepsClip == UNCHANGED <<clip, clipType>>
Writes(b, at) == doc' = b.lines /\ cursor' = at /\ UNCHANGED thrown

\* No handler anywhere: the program ends.
Throws == thrown' = TRUE /\ UNCHANGED <<doc, clip, clipType, cursor>>

Clipped(arg) ==
  CASE arg.type = "LINE" -> CopyLines(EmptyClip, 0, Doc, arg.min.lin, arg.max.lin)
    [] arg.type = "BOX" -> CopyBox(EmptyClip, Pt(0, 0), Doc, arg.min, arg.max)
    [] arg.type = "STREAM" -> CopyStream(EmptyClip, Pt(0, 0), Doc, arg.min, arg.max)

ToClip(arg) == clip' = Clipped(arg).lines /\ clipType' = arg.type
CopyThrows(arg) == arg.type = "STREAM" /\ StreamThrows(Doc, arg.min, arg.max)

Deleted(arg, collapse) ==
  CASE arg.type = "LINE" -> DelLines(Doc, arg.min.lin, arg.max.lin)
    [] arg.type = "BOX" -> DelBox(Doc, arg.min, arg.max, collapse)
    [] arg.type = "STREAM" -> DelStream(Doc, arg.min, arg.max)
    [] OTHER -> Doc

CursorOf(arg, at) ==
  CASE arg.type = "LINE" -> Pt(arg.min.lin, at.col)
    [] arg.type \in {"BOX", "STREAM"} -> arg.min
    [] OTHER -> at

Delete(arg, at, copies, collapse) ==
  IF copies /\ CopyThrows(arg) THEN Throws
  ELSE /\ Writes(Deleted(arg, collapse), CursorOf(arg, at))
       /\ IF copies THEN ToClip(arg) ELSE KeepsClip

\* The character at a column: all the columns of a tab.
DelChar(b, y, x) ==
  LET line == Line(b.lines, y)
      at == TabAlignedCol(b.tw, line, x)
      next == ColOfNextChar(b.tw, line, at)
  IN  IF at >= StrCols(b.tw, line) THEN [buf |-> b, cols |-> 0]
      ELSE [buf |-> DelBox(b, Pt(y, at), Pt(y, next - 1), TRUE), cols |-> next - at]
-----------------------------------------------------------------------------
ToEol(at) == [type |-> "BOX", min |-> at, max |-> Pt(at.lin, LineCols(Doc, at.lin))]
LineArg(at) == [type |-> "LINE", min |-> Pt(at.lin, 0), max |-> Pt(at.lin, 0)]
PastEol(at) == at.col > LineCols(Doc, at.lin)

Sdelete(c) ==
  LET arg == Arg(c)
      stream == IF arg.type = "NULL" THEN [type |-> "STREAM", min |-> c.at, max |-> Pt(c.at.lin + 1, 0)]
                ELSE ConvertLineOrBoxArgToStreamArg(arg, c.anchor)
  IN  /\ Called(c)
      /\ IF arg.type = "NO"
         THEN Writes(DelChar(Doc, c.at.lin, c.at.col).buf, c.at) /\ KeepsClip
         ELSE Delete(stream, c.at, ~c.meta, TRUE)

\* Without a selection: the line, or what is right of the cursor.
DeleteAtCursor(arg, c) ==
  CASE arg.type = "NO" -> Delete(LineArg(c.at), c.at, ~c.meta, TRUE)
    [] arg.type = "NULL" /\ PastEol(c.at) -> Writes(Doc, c.at) /\ KeepsClip
    [] arg.type = "NULL" /\ ~PastEol(c.at) -> Delete(ToEol(c.at), c.at, ~c.meta, TRUE)

Ldelete(c) ==
  LET arg == ConvertStreamargToLineargOrBoxarg(Arg(c))
  IN  /\ Called(c)
      /\ IF arg.type \in {"NO", "NULL"} THEN DeleteAtCursor(arg, c)
         ELSE Delete(arg, c.at, ~c.meta, TRUE)

\* A second arg leaves blanks where a box was.
Udelete(c) ==
  LET arg == Arg(c)
  IN  /\ Called(c)
      /\ IF arg.type \in {"NO", "NULL"} THEN DeleteAtCursor(arg, c)
         ELSE Delete(arg, c.at, ~c.meta, ~c.twice)

CopyRegion(c) ==
  LET arg == Arg(c)
      taken == IF arg.type = "NO" THEN LineArg(c.at) ELSE arg
  IN  /\ Called(c) /\ arg.type # "NULL"
      /\ IF CopyThrows(taken) THEN Throws
         ELSE ToClip(taken) /\ Writes(Doc, c.at)

Sinsert(c) ==
  LET arg == Arg(c)
      stream == ConvertLineOrBoxArgToStreamArg(arg, c.anchor)
      inserted == CASE arg.type = "NO" -> CopyBox(Doc, c.at, NoBuf, c.at, c.at)
                    [] arg.type = "NULL" -> CopyStream(Doc, c.at, NoBuf, c.at, Pt(c.at.lin + 1, 0))
                    [] OTHER -> CopyStream(Doc, stream.min, NoBuf, stream.min, stream.max)
  IN  Called(c) /\ Writes(inserted, c.at) /\ KeepsClip

\* A null argument moves the line's text to the cursor; where the text is, the
\* code takes from an index it has used as a column.  An empty line's is npos, past
\* every cursor, and nothing of the line is left to write.
Aligned(at) ==
  LET line == Line(doc, at.lin)
      ix == IdxOf(TabWidth, line, FirstNonBlankOrEnd(line))
      xNonb == Lesser(ix, Len(line) - 1)
  IN  CASE line # <<>> /\ xNonb > at.col -> LineWithSegRemoved(TabWidth, line, at.col, xNonb - at.col, TRUE)
        [] line # <<>> /\ xNonb < at.col -> OpenedAt(Doc, at.lin, xNonb, at.col - xNonb)
        [] OTHER -> <<>>

Linsert(c) ==
  LET arg == ConvertStreamargToLineargOrBoxarg(Arg(c))
      inserted ==
        CASE arg.type = "NO" -> InsertLines(Doc, c.at.lin, 1)
          [] arg.type = "NULL" -> IF Aligned(c.at) = <<>> THEN Doc
                                  ELSE PutLineEntab(Doc, c.at.lin, Aligned(c.at))
          [] arg.type = "LINE" -> InsertLines(Doc, arg.min.lin, arg.max.lin - arg.min.lin + 1)
          [] arg.type = "BOX" -> CopyBox(Doc, arg.min, NoBuf, arg.min, arg.max)
  IN  Called(c) /\ Writes(inserted, c.at) /\ KeepsClip

Pasted(b, at, from, type) ==
  LET last == Len(from.lines) - 1
  IN  CASE last < 0 \/ type = "none" -> b
        [] last >= 0 /\ type = "LINE" -> CopyLines(b, at.lin, from, 0, last)
        [] last >= 0 /\ type = "STREAM" ->
             CopyStream(b, at, from, Pt(0, 0), Pt(last, LineCols(from, last)))
        [] last >= 0 /\ type = "BOX" ->
             CopyBox(b, at, from, Pt(0, 0), Pt(last, LineCols(from, 0) - 1))

\* What is selected is replaced.
Paste(c) ==
  LET arg == Arg(c)
      at == CursorOf(arg, c.at)
  IN  /\ Called(c) /\ arg.type # "NULL"
      /\ IF clipType = "STREAM" /\ StreamThrows(Clip, Pt(0, 0), Pt(Len(clip) - 1, 0)) THEN Throws
         ELSE Writes(Pasted(Deleted(arg, TRUE), at, Clip, clipType), at) /\ KeepsClip
-----------------------------------------------------------------------------
InsertChar(b, y, x, ch) ==
  LET line == OpenedAt(b, y, x, 0)
  IN  PutLineEntab(b, y, Append(Upto(line, x), ch) \o From(line, x))

Graphic(c) ==
  LET arg == Arg(c)
      at == CursorOf(arg, c.at)
  IN  /\ Called(c) /\ arg.type # "NULL"
      /\ Writes(InsertChar(Deleted(arg, TRUE), at.lin, at.col, Letter), Pt(at.lin, at.col + 1))
      /\ KeepsClip

\* Where a line's part of a box ends, without its trailing blanks.
SegEnd(line, xMin, xMax) ==
  LET min == FreeIdxOfCol(TabWidth, line, xMin, [col |-> 0, ix |-> 0])
      max == FreeIdxOfCol(TabWidth, line, xMax, min.start)
      seg == TrailingBlanksRemoved(SubSeq(line, min.ix + 1, Lesser(max.ix, Len(line))))
  IN  IF min.ix < Len(line) THEN ColOf(TabWidth, line, min.ix + Len(seg)) ELSE xMax

\* A quote typed over a selection is put at both its ends.
Surround(c) ==
  LET arg == Arg(c)
      At(b, y, x) == InsertChar(b, y, x, Quote)
  IN  /\ Called(c) /\ arg.type \in {"BOX", "STREAM"}
      /\ Writes(IF arg.type = "STREAM"
                THEN At(At(Doc, arg.max.lin, arg.max.col), arg.min.lin, arg.min.col)
                ELSE EachLine(Doc, arg.min.lin, arg.max.lin, LAMBDA buf, y:
                       At(At(buf, y, SegEnd(Line(doc, y), arg.min.col, arg.max.col + 1)),
                          y, arg.min.col)),
                c.at)
      /\ KeepsClip

\* The character before the cursor; before a line's first one is, for emacscdel,
\* the end of the line above.
DeletePrevChar(c, emacs) ==
  LET xCol == LineCols(Doc, c.at.lin - 1)
      deleted == DelChar(Doc, c.at.lin, c.at.col - 1)
  IN  /\ Called(c) /\ KeepsClip
      /\ CASE c.at.col = 0 /\ c.at.lin = 0 -> Writes(Doc, c.at)
           [] c.at.col = 0 /\ c.at.lin > 0 ->
                Writes(IF emacs THEN DelStream(Doc, Pt(c.at.lin - 1, xCol), c.at) ELSE Doc,
                       Pt(c.at.lin - 1, xCol))
           [] OTHER ->
                Writes(deleted.buf,
                       Pt(c.at.lin, Greater(0, c.at.col - Greater(deleted.cols, 1))))

Cdelete(c) == DeletePrevChar(c, FALSE)
Emacscdel(c) == DeletePrevChar(c, TRUE)

\* The column the next line's text begins in, or this one's.
SoftcrIndent(y) ==
  LET Nonb(line) == FirstNonBlankOrEnd(line)
      this == Line(doc, y)
      next == Line(doc, y + 1)
  IN  CASE Nonb(next) < Len(next) -> ColOf(TabWidth, next, Nonb(next))
        [] Nonb(next) = Len(next) /\ Nonb(this) < Len(this) -> ColOf(TabWidth, this, Nonb(this))
        [] OTHER -> 0

Emacsnewl(c) ==
  LET below == Pt(c.at.lin + 1, SoftcrIndent(c.at.lin))
  IN  Called(c) /\ Writes(CopyStream(Doc, c.at, NoBuf, c.at, below), below) /\ KeepsClip
-----------------------------------------------------------------------------
Both == BOOLEAN
No == {FALSE}

Next ==
  \/ \E c \in Calls("sdelete", Both, Both, No) : Sdelete(c)
  \/ \E c \in Calls("ldelete", Both, Both, No) : Ldelete(c)
  \/ \E c \in Calls("udelete", Both, Both, Both) : Udelete(c)
  \/ \E c \in Calls("copy", Both, No, No) : CopyRegion(c)
  \/ \E c \in Calls("sinsert", Both, No, No) : Sinsert(c)
  \/ \E c \in Calls("linsert", Both, No, No) : Linsert(c)
  \/ \E c \in Calls("paste", Both, No, No) : Paste(c)
  \/ \E c \in Calls("graphic", Both, No, No) : Graphic(c)
  \/ \E c \in Calls("surround", {TRUE}, No, No) : Surround(c)
  \/ \E c \in Calls("cdelete", No, No, No) : Cdelete(c)
  \/ \E c \in Calls("emacscdel", No, No, No) : Emacscdel(c)
  \/ \E c \in Calls("emacsnewl", No, No, No) : Emacsnewl(c)

Spec == Init /\ [][Next]_vars
-----------------------------------------------------------------------------
\* What is on the screen: a line's cells, its tabs as the blanks they show.
\* A text, unlike a clipboard, is without the blanks and the rows that end it.
Cells(lines) == Fold(LAMBDA rows, s: Append(rows, Expand(TabWidth, s)), <<>>, lines)
Shown(lines) ==
  LET rows == Fold(LAMBDA tidy, s: Append(tidy, TrailingBlanksRemoved(s)), <<>>, Cells(lines))
      full == {i \in DOMAIN rows : rows[i] # <<>>}
  IN  IF full = {} THEN <<>> ELSE Upto(rows, CHOOSE i \in full : \A j \in full : i >= j)

P == INSTANCE PlainText
Screen(lines, clips, type) == [text |-> Shown(lines), board |-> Cells(clips), kind |-> type]

\* Whatever a line's tabs are and wherever among them a selection begins and
\* ends, each command does to the cells on the screen what it promises of plain
\* text: no other cell moves, whichever mode writes blanks back as tabs and
\* however wide the clipboard takes tabs to be.
EditsAsPlainText ==
  [][\E c \in {call'[Len(call')]} :
       P!Done(Screen(doc, clip, clipType), Screen(doc', clip', clipType'), c)]_vars

\* The index of a column and the column of an index are inverses: a column
\* belongs to the character it falls on, also when the search for it starts at
\* the column found last, and beyond the end each column has its index.
ColumnsInvert ==
  Len(call) < Len(Script) =>
  \A s \in Range(doc) :
    \A x \in 0 .. StrCols(TabWidth, s) + 2 :
      LET ix == IdxOf(TabWidth, s, x)
          found(x0) == FreeIdxOfCol(TabWidth, s, x0, [col |-> 0, ix |-> 0]).start
      IN  /\ ColOf(TabWidth, s, ix) <= x /\ x < ColOf(TabWidth, s, ix + 1)
          /\ IdxOf(TabWidth, s, ColOf(TabWidth, s, ix)) = ix
          /\ \A x0 \in 0 .. StrCols(TabWidth, s) + 2 :
               FreeIdxOfCol(TabWidth, s, x, found(x0)).ix = ix

=============================================================================
