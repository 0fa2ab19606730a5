----------------------------- MODULE LineArray -----------------------------
(***************************************************************************)
(* The line store of one FBUF: the heap array d_paLineInfo, its allocated  *)
(* size d_naLineInfoElements and the count of lines the user sees,         *)
(* d_LineCount (ed_core.h, fbuf_edit.cpp).                                 *)
(*                                                                         *)
(* A store is a record [li, capacity, lineCount]: li is a function on      *)
(* 0..capacity-1, so that an access past the allocation is an error and    *)
(* not a value, and an entry holds Blank (Storage::empty) or a member of   *)
(* Text.                                                                   *)
(***************************************************************************)
EXTENDS Integers, Sequences, FiniteSets

CONSTANTS
  Text,           \* the non-blank line contents
  Blank,          \* the content of an empty LineInfo
  LineHeadSpace   \* spare entries added by every reallocation

ASSUME BlankAssumption == Blank \notin Text
ASSUME HeadSpaceAssumption == LineHeadSpace \in Nat

Content == Text \cup {Blank}

LastLine(fb) == fb.lineCount - 1

SetLineCount(fb, n) == [fb EXCEPT !.lineCount = n]

\* FBUF::LineInfoReserve: a reallocation carries over only the lines below
\* d_LineCount and clears the rest.
LineInfoReserve(fb, linesNeeded) ==
  LET size == linesNeeded + LineHeadSpace
      kept == [y \in 0 .. size - 1 |->
                 IF y < fb.lineCount THEN fb.li[y] ELSE Blank]
  IN  IF fb.capacity >= linesNeeded
        THEN fb
        ELSE [fb EXCEPT !.li = kept, !.capacity = size]

\* FBUF::InsertLines__ without its undo record.  At or beyond EOF only space
\* is reserved.  Opening a hole in place leaves the entries above the moved
\* ones alone; a reallocation clears them.
InsertLines(fb, yInsBefore, n) ==
  LET newCount == fb.lineCount + n
      roomy    == fb.capacity >= newCount
      size     == IF roomy THEN fb.capacity ELSE newCount + LineHeadSpace
      Moved(y) ==
        IF y < yInsBefore THEN fb.li[y]
        ELSE IF y < yInsBefore + n THEN Blank
        ELSE IF y < newCount THEN fb.li[y - n]
        ELSE IF roomy THEN fb.li[y] ELSE Blank
  IN  IF fb.lineCount <= yInsBefore
        THEN LineInfoReserve(fb, yInsBefore + n)
        ELSE [li        |-> [y \in 0 .. size - 1 |-> Moved(y)],
              capacity  |-> size,
              lineCount |-> newCount]

\* Mutant of DeleteLines: the entries the tail slid out of are not cleared.
DeleteLinesUncleared(fb, first, lastAsked) ==
  LET last == IF lastAsked > LastLine(fb) THEN LastLine(fb) ELSE lastAsked
      n    == last - first + 1
  IN  IF first > LastLine(fb) \/ first > lastAsked
        THEN fb
        ELSE [li        |-> [y \in 0 .. fb.capacity - 1 |->
                               IF first <= y /\ y + n < fb.lineCount
                                 THEN fb.li[y + n] ELSE fb.li[y]],
              capacity  |-> fb.capacity,
              lineCount |-> fb.lineCount - n]

\* Mutant of DeleteLines: the array is shrunk to the lines that are left.
DeleteLinesShrinking(fb, first, lastAsked) ==
  LET last == IF lastAsked > LastLine(fb) THEN LastLine(fb) ELSE lastAsked
      n    == last - first + 1
      left == fb.lineCount - n
  IN  IF first > LastLine(fb) \/ first > lastAsked
        THEN fb
        ELSE [li        |-> [y \in 0 .. left - 1 |->
                               IF y < first THEN fb.li[y] ELSE fb.li[y + n]],
              capacity  |-> left,
              lineCount |-> left]

\* FBUF::DeleteLines__ without its undo record: the tail slides down over
\* first..last (last clamped to the end) and the entries it leaves are cleared.
DeleteLines(fb, first, lastAsked) ==
  LET last == IF lastAsked > LastLine(fb) THEN LastLine(fb) ELSE lastAsked
      n    == last - first + 1
      left == fb.lineCount - n
      Slid(y) ==
        IF y < first THEN fb.li[y]
        ELSE IF y < left THEN fb.li[y + n]
        ELSE IF y < fb.lineCount THEN Blank
        ELSE fb.li[y]
  IN  IF first > LastLine(fb) \/ first > lastAsked
        THEN fb
        ELSE [li        |-> [y \in 0 .. fb.capacity - 1 |-> Slid(y)],
              capacity  |-> fb.capacity,
              lineCount |-> left]

\* The lines first..first+n-1 of the array, as a function on 0..n-1.
Slice(fb, first, n) == [i \in 0 .. n - 1 |-> fb.li[first + i]]

\* The store with lis written over the entries from first on.
Overlay(fb, first, lis) ==
  [fb EXCEPT !.li =
     [y \in 0 .. fb.capacity - 1 |->
        IF y - first \in DOMAIN lis THEN lis[y - first] ELSE fb.li[y]]]

\* The lines of a store as a sequence, and a store just read from a file.
FileLines(fb) == [i \in 1 .. fb.lineCount |-> fb.li[i - 1]]
StoreOf(lines) ==
  LET size == Len(lines) + LineHeadSpace
  IN  [li        |-> [y \in 0 .. size - 1 |->
                        IF y < Len(lines) THEN lines[y + 1] ELSE Blank],
       capacity  |-> size,
       lineCount |-> Len(lines)]

\* What a document is, for the promises made to the user: the lines up to the
\* last non-blank one (a run of blank lines at the end of a file is the
\* "design loose-end" of fbuf_undo.cpp and is not told apart).
Document(lines) ==
  LET used == {i \in 1 .. Len(lines) :
                 \E j \in i .. Len(lines) : lines[j] # Blank}
  IN  SubSeq(lines, 1, Cardinality(used))
DocOf(fb) == Document(FileLines(fb))

\* Entries of the array that lie beyond the last line are blank: otherwise a
\* later growth of d_LineCount would bring dead content back to the screen.
BlankBeyondEof(fb) ==
  \A y \in DOMAIN fb.li : y >= fb.lineCount => fb.li[y] = Blank

\* The type of a store: the count never passes the allocation.
IsStore(fb) ==
  /\ fb = [li |-> fb.li, capacity |-> fb.capacity, lineCount |-> fb.lineCount]
  /\ fb.capacity \in Nat
  /\ fb.lineCount \in 0 .. fb.capacity
  /\ fb.li \in [0 .. fb.capacity - 1 -> Content]
=============================================================================
