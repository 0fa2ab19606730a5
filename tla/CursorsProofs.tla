---------------------------- MODULE CursorsProofs ----------------------------
(***************************************************************************)
(* What the cursors of several views of one buffer promise, for any lines, *)
(* windows and switches: a view without the focus stays on its lines while *)
(* lines are inserted and deleted, a cursor arrives where it is sent and   *)
(* is shown there, and a view at the end follows a growing buffer.  The    *)
(* first needs that no line is in a buffer twice (Once), the others are    *)
(* arithmetic of origins, for windows of three lines or more.              *)
(***************************************************************************)
EXTENDS Cursors, NumberProofs

Place == [origin : Nat, cursor : Nat, valid : BOOLEAN]
Mark  == [name : Names, lin : Nat]

PlacesOK ==
  /\ cur \in Windows
  /\ height \in Layouts
  /\ current \in [Windows -> Place] /\ prev \in [Returners -> Place]
  /\ vscroll \in 1 .. EditLines - 1 /\ hike \in 1 .. 99

Once == \A i, j \in 1 .. Len(doc) : doc[i] = doc[j] => i = j

IInv ==
  /\ doc \in Seq(Lines) /\ Once
  /\ PlacesOK
  /\ marks \in Seq(Mark)

-----------------------------------------------------------------------------
(* Origins and cursors *)

LEMMA Constrained ==
  ASSUME NEW lo \in Int, NEW x \in Int, NEW hi \in Int
  PROVE  /\ Constrain(lo, x, hi) \in Int /\ Constrain(lo, x, hi) >= lo
         /\ lo <= hi => Constrain(lo, x, hi) <= hi
         /\ lo <= x /\ x <= hi => Constrain(lo, x, hi) = x
         /\ lo <= hi /\ hi <= x => Constrain(lo, x, hi) = hi
         /\ x <= lo \/ hi <= lo => Constrain(lo, x, hi) = lo
BY DEF Constrain, AtLeast, AtMost

LEMMA PlaceFacts ==
  ASSUME IInv
  PROVE  /\ Len(doc) \in Nat /\ LineCount \in Nat /\ LastLine \in Int
         /\ EditLines \in Nat /\ EditLines >= 2
         /\ vscroll \in Nat /\ vscroll >= 1 /\ vscroll < EditLines
         /\ hike \in Nat /\ hike <= 99
         /\ cur \in Windows
         /\ \A w \in Windows : /\ height[w] \in Nat /\ height[w] >= 3 /\ height[w] <= EditLines
                               /\ OriginMax(w) \in Int
                               /\ current[w] \in Place
                               /\ current[w].origin \in Nat /\ current[w].cursor \in Nat
                               /\ current[w].valid \in BOOLEAN
         /\ \A w \in Returners : /\ w \in Windows /\ prev[w] \in Place
                                 /\ prev[w].origin \in Nat /\ prev[w].cursor \in Nat
                                 /\ prev[w].valid \in BOOLEAN
<1>1. Len(doc) \in Nat /\ EditLines \in Nat
  BY CursorsAssumption DEF IInv
<1>2. /\ vscroll \in Nat /\ vscroll >= 1 /\ vscroll < EditLines /\ EditLines >= 2
      /\ hike \in Nat /\ hike <= 99
  BY <1>1 DEF IInv, PlacesOK
<1>3. \A w \in Windows : height[w] \in Nat /\ height[w] >= 3 /\ height[w] <= EditLines
  BY <1>1, CursorsAssumption DEF IInv, PlacesOK
<1>4. \A w \in Windows : OriginMax(w) \in Int
  BY <1>1, <1>2, <1>3 DEF OriginMax, LastLine, LineCount
<1>5. \A w \in Windows : current[w] \in Place
  BY DEF IInv, PlacesOK
<1>6. \A w \in Returners : w \in Windows /\ prev[w] \in Place
  BY CursorsAssumption DEF IInv, PlacesOK
<1> QED
  BY <1>1, <1>2, <1>3, <1>4, <1>5, <1>6 DEF IInv, PlacesOK, Place, LineCount, LastLine

\* View::ScrollOriginAndCursor_ makes a place, and shows its cursor.
LEMMA ScrolledPlace ==
  ASSUME IInv, NEW w \in Windows, NEW o \in Int, NEW c \in Int
  PROVE  /\ ScrolledTo(w, o, c) \in Place
         /\ ScrolledTo(w, o, c).origin = Constrain(0, o, OriginMax(w))
         /\ ScrolledTo(w, o, c).cursor =
              LET p == Constrain(0, o, OriginMax(w)) IN Constrain(p, c, p + height[w] - 1)
         /\ InWindow(ScrolledTo(w, o, c), height[w])
<1> DEFINE p == Constrain(0, o, OriginMax(w))
           q == Constrain(p, c, p + height[w] - 1)
<1>h. PICK h \in Nat : h = height[w] /\ h >= 1
  BY PlaceFacts
<1>m. PICK m \in Int : m = OriginMax(w)
  BY PlaceFacts
<1>1. p \in Nat
  BY <1>m, Constrained
<1> HIDE DEF p
<1>2. q \in Nat /\ p <= q /\ q < p + height[w]
  <2>1. p + height[w] - 1 = p + h - 1 /\ p + h - 1 \in Int /\ p <= p + h - 1
    BY <1>h, <1>1
  <2>2. q = Constrain(p, c, p + h - 1)
    BY <2>1
  <2>3. q \in Int /\ q >= p /\ q <= p + h - 1
    BY <1>1, <2>1, <2>2, Constrained
  <2> QED BY <1>h, <1>1, <2>3
<1> HIDE DEF q
<1>3. ScrolledTo(w, o, c) = [current[w] EXCEPT !.origin = p, !.cursor = q]
  BY DEF ScrolledTo, p, q
<1>4. /\ ScrolledTo(w, o, c) \in Place
      /\ ScrolledTo(w, o, c).origin = p /\ ScrolledTo(w, o, c).cursor = q
  BY <1>1, <1>2, <1>3, PlaceFacts DEF Place
<1> QED
  BY <1>2, <1>4 DEF InWindow, p, q

LEMMA ScrolledPlaces ==
  ASSUME IInv, NEW w \in Windows, NEW o \in Int, NEW c \in Int,
         ScrollOriginAndCursor(w, o, c)
  PROVE  /\ current' \in [Windows -> Place] /\ current'[w] = ScrolledTo(w, o, c)
         /\ \A v \in Windows : v # w => current'[v] = current[v]
BY ScrolledPlace DEF ScrollOriginAndCursor, IInv, PlacesOK

\* The steps of the scrolling are at least a line, and less than the window.
LEMMA ScrollSteps ==
  ASSUME IInv, NEW w \in Windows
  PROVE  /\ VScroll(w) \in Nat /\ VScroll(w) >= 1 /\ VScroll(w) <= height[w]
         /\ HikeLines(w) \in Nat /\ HikeLines(w) >= 1
         /\ height[w] >= 2 => HikeLines(w) < height[w]
<1>h. PICK h \in Nat : h = height[w] /\ h >= 1
  BY PlaceFacts
<1>v. PICK s \in Nat, e \in Nat : s = vscroll /\ e = EditLines /\ s < e /\ e > 0
  BY PlaceFacts
<1>1. s * h \in Nat /\ s * h <= h * e
  BY <1>h, <1>v
<1>2. (s * h) \div e \in Nat /\ (s * h) \div e <= h
  BY <1>h, <1>v, <1>1, Share
<1>3. PICK k \in Nat : k = h * hike /\ k <= 99 * h
  BY SMTT(30), <1>h, PlaceFacts
<1>4. k \div 100 \in Nat /\ k \div 100 < h
  BY <1>h, <1>3
<1>5. VScroll(w) \in Nat /\ VScroll(w) >= 1 /\ VScroll(w) <= height[w]
  BY <1>h, <1>v, <1>2 DEF VScroll, AtLeast
<1>6. /\ HikeLines(w) \in Nat /\ HikeLines(w) >= 1
      /\ height[w] >= 2 => HikeLines(w) < height[w]
  BY <1>h, <1>3, <1>4 DEF HikeLines, AtLeast
<1> QED
  BY <1>5, <1>6

LEMMA OriginForType ==
  ASSUME IInv, NEW w \in Windows, NEW y \in Int
  PROVE  OriginFor(w, y) \in Int
<1>1. PICK o \in Nat, h \in Nat, v \in Nat, k \in Nat :
        /\ o = current[w].origin /\ h = height[w] /\ v = VScroll(w) /\ k = HikeLines(w)
  BY PlaceFacts, ScrollSteps
<1> QED
  BY <1>1 DEF OriginFor

\* Where the window is moved to, the cursor is in it or can be.
LEMMA Arrives ==
  ASSUME IInv, NEW w \in Windows, NEW y \in 0 .. LineCount
  PROVE  ScrolledTo(w, OriginFor(w, AtLeast(0, y)), AtLeast(0, y)).cursor = y
<1>1. PICK o \in Nat, h \in Nat, v \in Nat, k \in Nat, n \in Nat, s \in Nat, m \in Int :
        /\ o = current[w].origin /\ h = height[w] /\ h >= 3
        /\ v = VScroll(w) /\ v >= 1 /\ v <= h
        /\ k = HikeLines(w) /\ k >= 1 /\ k < h
        /\ n = LineCount /\ s = vscroll /\ s >= 1
        /\ m = OriginMax(w) /\ m = n - 1 - h + s + (h \div 3)
  <2>1. /\ OriginMax(w) = LineCount - 1 - height[w] + vscroll + (height[w] \div 3)
        /\ height[w] >= 2
    BY PlaceFacts DEF OriginMax, LastLine
  <2> QED BY <2>1, PlaceFacts, ScrollSteps
<1>2. AtLeast(0, y) = y /\ y \in Nat /\ y <= n
  BY <1>1 DEF AtLeast
<1>3. PICK f \in Int : f = OriginFor(w, y)
  BY OriginForType
<1>4. \/ f <= y /\ y <= f + h - 1
      \/ f <= y /\ f < 0 /\ y <= h - 1
  BY <1>1, <1>2, <1>3 DEF OriginFor
<1>5. m + h - 1 >= n
  BY <1>1
<1> DEFINE p == Constrain(0, f, m)
<1>6. p \in Nat /\ p <= y /\ y <= p + h - 1
  BY <1>1, <1>2, <1>4, <1>5 DEF Constrain, AtLeast, AtMost
<1>7. ScrolledTo(w, f, y).cursor = Constrain(p, y, p + h - 1)
  <2>1. y \in Int
    BY <1>2
  <2>2. ScrolledTo(w, f, y).cursor =
          Constrain(Constrain(0, f, OriginMax(w)), y, Constrain(0, f, OriginMax(w)) + height[w] - 1)
    BY <1>3, <2>1, ScrolledPlace
  <2> QED BY <1>1, <2>2
<1> HIDE DEF p
<1>8. Constrain(p, y, p + h - 1) = y
  <2>1. p \in Int /\ y \in Int /\ p + h - 1 \in Int
    BY <1>1, <1>2, <1>6
  <2> QED BY <1>6, <2>1, Constrained
<1> QED
  BY <1>2, <1>3, <1>7, <1>8

\* What a command that only moves the view does.
LEMMA ViewMoves ==
  ASSUME IInv, NEW o \in Int, NEW c \in Int, ScrollOriginAndCursor(cur, o, c),
         NoEdit, prev' \in [Returners -> Place]
  PROVE  IInv'
<1>1. current' \in [Windows -> Place]
  BY ScrolledPlaces, PlaceFacts
<1> QED
  BY <1>1 DEF NoEdit, switches, IInv, PlacesOK, Once

LEMMA CursorMoves ==
  ASSUME IInv, NEW y \in Int, MoveCursor(y)
  PROVE  IInv'
<1>1. AtLeast(0, y) \in Int
  BY DEF AtLeast
<1>2. OriginFor(cur, AtLeast(0, y)) \in Int
  BY <1>1, OriginForType, PlaceFacts
<1>3. prev' \in [Returners -> Place]
  BY DEF MoveCursor, IInv, PlacesOK
<1> QED
  BY <1>1, <1>2, <1>3, ViewMoves DEF MoveCursor, MoveTo

LEMMA OriginMoves ==
  ASSUME IInv, \/ \E y \in Int : ScrollOriginY(y)
               \/ \E dir \in {-1, 1} : ScrollByPages(dir)
               \/ ScrollToPrev
  PROVE  IInv'
<1>1. ASSUME NEW y \in Int, ScrollOriginY(y) PROVE IInv'
  <2>1. prev' \in [Returners -> Place]
    BY <1>1 DEF ScrollOriginY, IInv, PlacesOK
  <2>2. current[cur].cursor \in Int
    BY PlaceFacts
  <2> QED BY <1>1, <2>1, <2>2, ViewMoves DEF ScrollOriginY
<1>2. ASSUME NEW dir \in {-1, 1}, ScrollByPages(dir) PROVE IInv'
  <2>1. prev' \in [Returners -> Place]
    BY <1>2 DEF ScrollByPages, IInv, PlacesOK
  <2>2. dir * height[cur] \in Int
    BY PlaceFacts
  <2>3. /\ current[cur].origin + dir * height[cur] \in Int
        /\ current[cur].cursor + dir * height[cur] \in Int
    <3>1. PICK b \in Int : b = dir * height[cur]
      BY <2>2
    <3>2. current[cur].origin \in Int /\ current[cur].cursor \in Int
      BY PlaceFacts
    <3> QED BY <3>1, <3>2
  <2> QED BY <1>2, <2>1, <2>3, ViewMoves DEF ScrollByPages
<1>3. CASE ScrollToPrev
  <2>1. /\ cur \in Returners /\ current[cur] \in Place
        /\ prev[cur].origin \in Int /\ prev[cur].cursor \in Int
    BY <1>3, PlaceFacts DEF ScrollToPrev
  <2>2. prev' \in [Returners -> Place]
    BY <1>3, <2>1 DEF ScrollToPrev, IInv, PlacesOK
  <2> QED BY <1>3, <2>1, <2>2, ViewMoves DEF ScrollToPrev
<1> QED BY <1>1, <1>2, <1>3
-----------------------------------------------------------------------------
(* Lines inserted and deleted *)

\* FBUF::FBufEvent_LineInsDel keeps places and marks what they are.
LEMMA ShiftedPlace ==
  ASSUME NEW u \in Place, NEW y \in Nat, NEW d \in Int
  PROVE  /\ Shifted(u, y, d) \in Place
         /\ Shifted(u, y, d).origin = AddLineDelta(u.origin, y, d)
         /\ Shifted(u, y, d).cursor = AddLineDelta(u.cursor, y, d)
<1>1. u.origin \in Nat /\ u.cursor \in Nat
  BY DEF Place
<1>2. AddLineDelta(u.origin, y, d) \in Nat /\ AddLineDelta(u.cursor, y, d) \in Nat
  BY <1>1 DEF AddLineDelta, AtLeast
<1> QED
  BY <1>2 DEF Shifted, Place

LEMMA LinesShift ==
  ASSUME IInv, NEW y \in Nat, NEW d \in Int, LineInsDel(y, d)
  PROVE  PlacesOK' /\ marks' \in Seq(Mark)
<1>1. current' \in [Windows -> Place]
  BY ShiftedPlace DEF LineInsDel, IInv, PlacesOK
<1>2. prev' \in [Returners -> Place]
  BY ShiftedPlace DEF LineInsDel, IInv, PlacesOK
<1>3. marks' \in Seq(Mark)
  <2>1. PICK n \in Nat : n = Len(marks) /\ DOMAIN marks = 1 .. n /\ marks \in [1 .. n -> Mark]
    BY DEF IInv
  <2>2. CASE d > 0
    <3>1. \A i \in 1 .. n : marks[i] \in Mark /\ [marks[i] EXCEPT !.lin = @ + d] \in Mark
      BY <2>1, <2>2 DEF Mark
    <3>2. MarksShifted(y, d) \in [1 .. n -> Mark]
      BY <2>1, <3>1 DEF MarksShifted
    <3> QED BY <2>2, <3>2 DEF LineInsDel
  <2>3. CASE ~(d > 0)
    BY <2>3 DEF LineInsDel, IInv
  <2> QED BY <2>2, <2>3
<1> QED
  BY <1>1, <1>2, <1>3 DEF LineInsDel, switches, IInv, PlacesOK

LEMMA Inserted ==
  ASSUME IInv, NEW y \in LineNumbers, NEW new \in Seq(Lines), InsertLines(y, new)
  PROVE  \E n \in Nat, k \in Nat :
           /\ n = Len(doc) /\ k = Len(new) /\ y \in Nat /\ y < n
           /\ LineInsDel(y, k)
           /\ doc' \in Seq(Lines) /\ Len(doc') = n + k
           /\ \A i \in 1 .. y : doc'[i] = doc[i]
           /\ \A i \in 1 .. k : doc'[y + i] = new[i]
           /\ \A i \in y + 1 .. n : doc'[i + k] = doc[i]
<1>1. PICK n \in Nat, k \in Nat : n = Len(doc) /\ k = Len(new) /\ y \in Nat /\ y < n
  BY SMTT(30), PlaceFacts DEF LineNumbers, LastLine, LineCount
<1>2. doc \in Seq(Lines)
  BY DEF IInv
<1> DEFINE t == SubSeq(doc, 1, y) \o new \o SubSeq(doc, y + 1, Len(doc))
<1>3. y \in 0 .. Len(doc) /\ doc' = t /\ LineInsDel(y, k)
  BY <1>1 DEF InsertLines, LineCount
<1>4. /\ t \in Seq(Lines) /\ Len(t) = Len(doc) + Len(new)
      /\ \A i \in 1 .. y : t[i] = doc[i]
      /\ \A i \in 1 .. Len(new) : t[y + i] = new[i]
      /\ \A i \in y + 1 .. Len(doc) : t[i + Len(new)] = doc[i]
  BY <1>2, <1>3, PutIn
<1> HIDE DEF t
<1> QED BY <1>1, <1>3, <1>4

\* New lines, each of them once, keep the buffer free of repetitions.
LEMMA LinesComeIn ==
  ASSUME IInv, NEW y \in LineNumbers, NEW new \in Seq(Unused),
         \A i, j \in 1 .. Len(new) : new[i] = new[j] => i = j,
         InsertLines(y, new)
  PROVE  IInv'
<1>2. new \in Seq(Lines)
  BY DEF Unused
<1>1. PICK n \in Nat, k \in Nat :
        /\ n = Len(doc) /\ k = Len(new) /\ y \in Nat /\ y < n
        /\ LineInsDel(y, k)
        /\ doc' \in Seq(Lines) /\ Len(doc') = n + k
        /\ \A i \in 1 .. y : doc'[i] = doc[i]
        /\ \A i \in 1 .. k : doc'[y + i] = new[i]
        /\ \A i \in y + 1 .. n : doc'[i + k] = doc[i]
  BY <1>2, Inserted
<1>4. /\ doc' \in Seq(Lines) /\ Len(doc') = n + k
      /\ \A i \in 1 .. y : doc'[i] = doc[i]
      /\ \A i \in 1 .. k : doc'[y + i] = new[i]
      /\ \A i \in y + 1 .. n : doc'[i + k] = doc[i]
  BY <1>1
<1>5. \A i \in 1 .. n : \A j \in 1 .. k : doc[i] # new[j]
  BY <1>1 DEF Unused, Range
<1> DEFINE From(i) == IF i <= y THEN i ELSE i - k
           New(i) == y < i /\ i <= y + k
<1>6. \A i \in 1 .. n + k : /\ ~New(i) => From(i) \in 1 .. n /\ doc'[i] = doc[From(i)]
                            /\ New(i) => i - y \in 1 .. k /\ doc'[i] = new[i - y]
  <2> SUFFICES ASSUME NEW i \in 1 .. n + k
               PROVE  /\ ~New(i) => From(i) \in 1 .. n /\ doc'[i] = doc[From(i)]
                      /\ New(i) => i - y \in 1 .. k /\ doc'[i] = new[i - y]
    OBVIOUS
  <2>1. CASE i <= y
    <3>1. i \in 1 .. y /\ i \in 1 .. n
      BY <1>1, <2>1
    <3>2. From(i) = i /\ ~New(i)
      BY <1>1, <2>1
    <3> QED BY <1>4, <3>1, <3>2
  <2>2. CASE New(i)
    <3>1. i - y \in 1 .. k /\ y + (i - y) = i /\ ~(i <= y)
      BY <1>1, <2>2
    <3> QED BY <1>4, <2>2, <3>1
  <2>3. CASE i > y + k
    <3>1. i - k \in y + 1 .. n /\ (i - k) + k = i /\ i - k \in 1 .. n
      BY <1>1, <2>3
    <3>2. doc'[i] = doc[i - k]
      BY <1>4, <3>1
    <3>3. From(i) = i - k /\ ~New(i)
      BY <1>1, <2>3
    <3> QED BY <3>1, <3>2, <3>3
  <2> QED BY <1>1, <2>1, <2>2, <2>3
<1>7. ASSUME NEW i \in 1 .. n + k, NEW j \in 1 .. n + k, doc'[i] = doc'[j]
      PROVE  i = j
  <2>1. CASE New(i) /\ New(j)
    <3>1. i - y \in 1 .. k /\ j - y \in 1 .. k /\ new[i - y] = new[j - y]
      BY <1>6, <1>7, <2>1
    <3>2. i - y = j - y
      BY <1>1, <3>1
    <3> QED BY <1>1, <3>2
  <2>2. CASE ~New(i) /\ ~New(j)
    <3>1. From(i) \in 1 .. n /\ From(j) \in 1 .. n /\ doc[From(i)] = doc[From(j)]
      BY <1>6, <1>7, <2>2
    <3> HIDE DEF From
    <3>2. From(i) = From(j)
      BY <1>1, <3>1 DEF IInv, Once
    <3> QED BY <1>1, <2>2, <3>2 DEF From
  <2>3. CASE New(i) /\ ~New(j)
    BY <1>5, <1>6, <1>7, <2>3
  <2>4. CASE ~New(i) /\ New(j)
    <3>1. /\ From(i) \in 1 .. n /\ doc'[i] = doc[From(i)]
          /\ j - y \in 1 .. k /\ doc'[j] = new[j - y]
      BY <1>6, <2>4
    <3> QED BY <1>5, <1>7, <3>1
  <2> QED BY <2>1, <2>2, <2>3, <2>4
<1>8. Once'
  BY <1>4, <1>7 DEF Once
<1>9. PlacesOK' /\ marks' \in Seq(Mark)
  BY <1>1, LinesShift
<1> QED
  BY <1>4, <1>8, <1>9 DEF IInv

\* What goes is the lines from the first to the last that is there.
LEMMA Deleted ==
  ASSUME IInv, NEW y \in LineNumbers, NEW z \in Nat, y <= z, DeleteLines(y, z)
  PROVE  \E n \in Nat, l \in Nat :
           /\ n = Len(doc) /\ y \in Nat /\ y < l /\ l <= n
           /\ LineInsDel(y, y - l)
           /\ doc' \in Seq(Lines) /\ Len(doc') = n - (l - y)
           /\ \A i \in 1 .. y : doc'[i] = doc[i]
           /\ \A i \in l + 1 .. n : doc'[i - (l - y)] = doc[i]
           /\ \A i \in 1 .. Len(doc') : i <= y \/ doc'[i] = doc[i + (l - y)]
<1>1. PICK n \in Nat : n = Len(doc) /\ y \in Nat /\ y < n
  BY PlaceFacts DEF LineNumbers, LastLine, LineCount
<1>2. PICK l \in Nat : l = AtMost(z, LastLine) + 1 /\ y < l /\ l <= n
  BY <1>1 DEF AtMost, LastLine, LineCount
<1>3. AtMost(z, LastLine) + 2 = l + 1 /\ y - AtMost(z, LastLine) - 1 = y - l
  BY <1>1, <1>2 DEF AtMost, LastLine, LineCount
<1> DEFINE t == SubSeq(doc, 1, y) \o SubSeq(doc, l + 1, Len(doc))
<1>4. doc' = t /\ LineInsDel(y, y - l)
  BY <1>1, <1>3 DEF DeleteLines, LineCount
<1>5. y \in 0 .. Len(doc) /\ l \in y .. Len(doc) /\ doc \in Seq(Lines)
  BY <1>1, <1>2 DEF IInv
<1>6. /\ t \in Seq(Lines) /\ Len(t) = Len(doc) - (l - y)
      /\ \A i \in 1 .. y : t[i] = doc[i]
      /\ \A i \in l + 1 .. Len(doc) : t[i - (l - y)] = doc[i]
      /\ \A i \in 1 .. Len(t) : i <= y \/ t[i] = doc[i + (l - y)]
  BY <1>5, TakenOut
<1> HIDE DEF t
<1> QED
  BY <1>1, <1>2, <1>4, <1>6

LEMMA LinesGo ==
  ASSUME IInv, NEW y \in LineNumbers, NEW z \in Nat, y <= z, DeleteLines(y, z)
  PROVE  IInv'
<1>1. PICK n \in Nat, l \in Nat :
           /\ n = Len(doc) /\ y \in Nat /\ y < l /\ l <= n
           /\ LineInsDel(y, y - l)
           /\ doc' \in Seq(Lines) /\ Len(doc') = n - (l - y)
           /\ \A i \in 1 .. y : doc'[i] = doc[i]
           /\ \A i \in l + 1 .. n : doc'[i - (l - y)] = doc[i]
           /\ \A i \in 1 .. Len(doc') : i <= y \/ doc'[i] = doc[i + (l - y)]
  BY Deleted
<1> DEFINE From(i) == IF i <= y THEN i ELSE i + (l - y)
<1>2. \A i \in 1 .. Len(doc') : From(i) \in 1 .. n /\ doc'[i] = doc[From(i)]
  <2> SUFFICES ASSUME NEW i \in 1 .. n - (l - y)
               PROVE  From(i) \in 1 .. n /\ doc'[i] = doc[From(i)]
    BY <1>1
  <2>1. i \in 1 .. Len(doc')
    BY <1>1
  <2>2. CASE i <= y
    BY <1>1, <2>2
  <2>3. CASE ~(i <= y)
    BY <1>1, <2>1, <2>3
  <2> QED BY <2>2, <2>3
<1>3. \A i, j \in 1 .. Len(doc') : From(i) = From(j) => i = j
  BY <1>1
<1> HIDE DEF From
<1>4. Once'
  <2> SUFFICES ASSUME NEW i \in 1 .. Len(doc'), NEW j \in 1 .. Len(doc'), doc'[i] = doc'[j]
               PROVE  i = j
    BY DEF Once
  <2>1. doc[From(i)] = doc[From(j)] /\ From(i) \in 1 .. Len(doc) /\ From(j) \in 1 .. Len(doc)
    BY <1>1, <1>2
  <2>2. From(i) = From(j)
    BY <2>1 DEF IInv, Once
  <2> QED BY <1>3, <2>2
<1>5. PlacesOK' /\ marks' \in Seq(Mark)
  <2>1. y - l \in Int
    BY <1>1
  <2> QED BY <1>1, <2>1, LinesShift
<1> QED
  BY <1>1, <1>4, <1>5 DEF IInv
-----------------------------------------------------------------------------
(* The other steps *)

\* Where a view is after the buffer has grown.
LEMMA TailedPlace ==
  ASSUME IInv, NEW l, PutLastLine(l), NEW w \in Windows
  PROVE  \E oo \in Nat, c \in Nat :
           /\ oo = Constrain(0, AtLeast((LineCount + 1) - height[w] + 1, 0), OriginMax(w) + 1)
           /\ c = Constrain(oo, LineCount + 1, oo + height[w] - 1)
           /\ current'[w] = IF Tailing(w)
                            THEN [current[w] EXCEPT !.origin = oo, !.cursor = c]
                            ELSE current[w]
<1> DEFINE a == AtLeast((LineCount + 1) - height[w] + 1, 0)
           oo == Constrain(0, a, OriginMax(w) + 1)
           c == Constrain(oo, (LineCount + 1), oo + height[w] - 1)
<1>1. current'[w] = IF Tailing(w) THEN [current[w] EXCEPT !.origin = oo, !.cursor = c] ELSE current[w]
  BY Zenon DEF PutLastLine
<1>2. PICK h \in Nat, m \in Int, n \in Nat : h = height[w] /\ m = OriginMax(w) + 1 /\ n = LineCount
  BY PlaceFacts
<1>3. a \in Int
  BY <1>2 DEF AtLeast
<1>4. c = Constrain(oo, LineCount + 1, oo + height[w] - 1)
  OBVIOUS
<1>5. oo = Constrain(0, AtLeast((LineCount + 1) - height[w] + 1, 0), OriginMax(w) + 1)
  OBVIOUS
<1> HIDE DEF a
<1>6. oo \in Nat
  <2>1. Constrain(0, a, m) \in Int /\ Constrain(0, a, m) >= 0
    BY <1>3, Constrained
  <2> QED BY <1>2, <2>1
<1> HIDE DEF oo
<1>7. c \in Nat
  <2>1. PICK x \in Int, hi \in Int : x = LineCount + 1 /\ hi = oo + height[w] - 1
    BY <1>2, <1>6
  <2>2. Constrain(oo, x, hi) \in Int /\ Constrain(oo, x, hi) >= oo
    BY <1>6, Constrained
  <2> QED BY <1>6, <2>1, <2>2
<1> HIDE DEF c
<1> QED BY <1>1, <1>4, <1>5, <1>6, <1>7

\* A line after the last is none of those there are.
LEMMA LastLinePut ==
  ASSUME IInv, NEW l \in Unused, PutLastLine(l)
  PROVE  IInv'
<1>1. PICK n \in Nat : n = Len(doc) /\ LineCount = n
  BY PlaceFacts DEF LineCount
<1>2. /\ doc' \in Seq(Lines) /\ Len(doc') = n + 1
      /\ \A i \in 1 .. n : doc'[i] = doc[i] /\ doc[i] # l
      /\ doc'[n + 1] = l
  <2>1. doc \in Seq(Lines) /\ l \in Lines /\ doc' = Append(doc, l)
    BY DEF PutLastLine, Unused, IInv
  <2>2. \A i \in 1 .. n : doc[i] # l
    BY <1>1 DEF Unused, Range
  <2> DEFINE t == Append(doc, l)
  <2>3. /\ t \in Seq(Lines) /\ Len(t) = n + 1
        /\ \A i \in 1 .. n : t[i] = doc[i]
        /\ t[n + 1] = l
    BY <1>1, <2>1, AppendProperties
  <2> HIDE DEF t
  <2>4. doc' = t
    BY <2>1 DEF t
  <2> QED BY <2>2, <2>3, <2>4
<1>3. Once'
  <2> SUFFICES ASSUME NEW i \in 1 .. n + 1, NEW j \in 1 .. n + 1, doc'[i] = doc'[j]
               PROVE  i = j
    BY <1>2 DEF Once
  <2>1. CASE i \in 1 .. n /\ j \in 1 .. n
    BY <1>1, <1>2, <2>1 DEF IInv, Once
  <2>2. CASE ~(i \in 1 .. n /\ j \in 1 .. n)
    BY <1>1, <1>2, <2>2
  <2> QED BY <2>1, <2>2
<1>4. current' \in [Windows -> Place]
  <2>1. ASSUME NEW w \in Windows PROVE current'[w] \in Place
    BY TailedPlace, PlaceFacts DEF Place
  <2>2. current' = [w \in Windows |-> current'[w]]
    BY DEF PutLastLine
  <2> QED BY <2>1, <2>2
<1> QED
  BY <1>2, <1>3, <1>4 DEF PutLastLine, IInv, PlacesOK, switches

LEMMA EnsuredPlace ==
  ASSUME NEW u \in Place, NEW h \in Nat
  PROVE  Ensured(u, h) \in Place
<1>1. u.origin \in Nat /\ u.cursor \in Nat
  BY DEF Place
<1>2. CASE u.valid /\ u.cursor - u.origin > h - 1
  <2>1. u.cursor - h + 1 \in Nat
    BY <1>1, <1>2
  <2> QED BY <1>2, <2>1 DEF Ensured, Place
<1>3. CASE ~(u.valid /\ u.cursor - u.origin > h - 1)
  BY <1>3 DEF Ensured
<1> QED BY <1>2, <1>3

LEMMA WindowsChange ==
  ASSUME IInv, \/ \E w \in Windows : SwitchWindow(w)
               \/ \E layout \in Layouts : Resize(layout)
  PROVE  IInv'
<1>1. ASSUME NEW w \in Windows, SwitchWindow(w) PROVE IInv'
  <2>1. current' \in [Windows -> Place] /\ prev' \in [Returners -> Place]
    BY <1>1, PlaceFacts, EnsuredPlace DEF SwitchWindow, IInv, PlacesOK
  <2> QED BY <1>1, <2>1 DEF SwitchWindow, switches, IInv, PlacesOK, Once
<1>2. ASSUME NEW layout \in Layouts, Resize(layout) PROVE IInv'
  <2>1. \A w \in Windows : layout[w] \in Nat
    BY CursorsAssumption
  <2>2. current' \in [Windows -> Place] /\ prev' \in [Returners -> Place]
    BY <1>2, <2>1, PlaceFacts, EnsuredPlace DEF Resize
  <2> QED BY <1>2, <2>2 DEF Resize, switches, IInv, PlacesOK, Once
<1> QED BY <1>1, <1>2
-----------------------------------------------------------------------------
(* Marks *)

LEMMA OtherMarks ==
  ASSUME IInv, NEW name
  PROVE  Others(name) \in Seq(Mark)
<1> DEFINE I == {i \in DOMAIN marks : marks[i].name # name}
           c == Cardinality(I)
<1>1. PICK n \in Nat : n = Len(marks) /\ DOMAIN marks = 1 .. n /\ marks \in [1 .. n -> Mark]
  BY DEF IInv
<1>2. I \in SUBSET (1 .. n) /\ c \in Nat
  BY <1>1, PositionsCount
<1>3. Others(name) = [k \in 1 .. c |-> marks[Nth(I, k)]]
  BY DEF Others
<1>4. ASSUME NEW k \in 1 .. c PROVE Nth(I, k) \in I
  <2> HIDE DEF I
  <2>1. \E i \in I : Cardinality({j \in I : j <= i}) = k
    BY <1>1, <1>2, <1>4, PositionOfRank
  <2> QED BY <2>1 DEF Nth
<1>5. \A k \in 1 .. c : marks[Nth(I, k)] \in Mark
  BY <1>1, <1>2, <1>4
<1> HIDE DEF c, I
<1>6. Others(name) \in [1 .. c -> Mark]
  BY <1>3, <1>5
<1> QED BY <1>2, <1>6

LEMMA PutInPlace ==
  ASSUME NEW s \in Seq(Mark), NEW k \in 0 .. Len(s), NEW m \in Mark
  PROVE  InsertAt(s, k + 1, m) \in Seq(Mark)
<1>1. PICK n \in Nat : n = Len(s)
  OBVIOUS
<1>2. SubSeq(s, 1, (k + 1) - 1) \in Seq(Mark)
  BY <1>1
<1>3. SubSeq(s, k + 1, Len(s)) \in Seq(Mark)
  BY <1>1
<1>4. <<m>> \in Seq(Mark)
  OBVIOUS
<1> QED
  BY <1>2, <1>3, <1>4 DEF InsertAt

LEMMA MarksChange ==
  ASSUME IInv, NEW name \in Names, DefineMark(name) \/ DeleteMark(name) \/ MarkGoto(name)
  PROVE  IInv'
<1>1. CASE DefineMark(name)
  <2> DEFINE ms == Others(name)
             new == [name |-> name, lin |-> current[cur].cursor]
             at == Cardinality({i \in DOMAIN ms : \A j \in 1 .. i : ms[j].lin <= new.lin})
  <2>1. ms \in Seq(Mark)
    BY OtherMarks
  <2>2. new \in Mark
    BY PlaceFacts DEF Mark
  <2>3. at \in 0 .. Len(ms)
    <3> HIDE DEF ms, new
    <3>1. PICK n \in Nat : n = Len(ms) /\ DOMAIN ms = 1 .. n
      BY <2>1
    <3> DEFINE S == {i \in DOMAIN ms : \A j \in 1 .. i : ms[j].lin <= new.lin}
    <3>2. S \in SUBSET (1 .. n)
      BY <3>1
    <3> HIDE DEF S
    <3>3. Cardinality(S) \in Nat /\ Cardinality(S) <= Cardinality(1 .. n)
      BY <3>2, PositionsCount
    <3>4. Cardinality(1 .. n) = n
      <4>1. n \in Nat
        OBVIOUS
      <4> QED BY <4>1, FS_Interval
    <3>5. Cardinality(S) \in 0 .. n
      BY <3>3, <3>4
    <3> QED BY <3>1, <3>5 DEF S
  <2>4. marks' = InsertAt(ms, at + 1, new)
    BY <1>1 DEF DefineMark
  <2> HIDE DEF ms, new, at
  <2>5. marks' \in Seq(Mark)
    BY <2>1, <2>2, <2>3, <2>4, PutInPlace
  <2> QED BY <1>1, <2>5 DEF DefineMark, switches, IInv, PlacesOK, Once
<1>2. CASE DeleteMark(name)
  BY <1>2, OtherMarks DEF DeleteMark, switches, IInv, PlacesOK, Once
<1>3. CASE MarkGoto(name)
  <2>1. PICK i \in DOMAIN marks : MoveCursor(marks[i].lin)
    BY <1>3 DEF MarkGoto
  <2>2. marks[i] \in Mark
    BY DEF IInv
  <2>3. marks[i].lin \in Int
    BY <2>2 DEF Mark
  <2> QED BY <2>1, <2>3, CursorMoves
<1> QED BY <1>1, <1>2, <1>3
-----------------------------------------------------------------------------
(* The invariant *)

LEMMA SomeLines ==
  ASSUME NEW S \in SUBSET Lines
  PROVE  /\ SetToSeq(S) \in Seq(Lines)
         /\ \A i, j \in 1 .. Len(SetToSeq(S)) : SetToSeq(S)[i] = SetToSeq(S)[j] => i = j
<1>1. IsFiniteSet(S)
  BY CursorsAssumption, FS_Subset
<1>2. Cardinality(S) \in Nat /\ ExistsBijection(1 .. Cardinality(S), S)
  BY <1>1, FS_CardinalityType
<1>3. \E f \in [1 .. Cardinality(S) -> S] : IsInjective(f)
  BY <1>2 DEF ExistsBijection, Bijection, Injection
<1>4. SetToSeq(S) \in [1 .. Cardinality(S) -> S] /\ IsInjective(SetToSeq(S))
  BY <1>3 DEF SetToSeq
<1> HIDE DEF SetToSeq
<1>5. PICK n \in Nat : n = Cardinality(S)
  BY <1>2
<1> DEFINE s == SetToSeq(S)
<1>6. s \in Seq(Lines) /\ Len(s) = n /\ DOMAIN s = 1 .. n
  BY <1>4, <1>5
<1> QED
  BY <1>4, <1>6 DEF IsInjective

LEMMA InitOK ==
  ASSUME Init
  PROVE  IInv
<1>1. doc \in Seq(Lines) /\ Once
  <2>1. CASE doc = <<>>
    BY <2>1 DEF Once
  <2>2. ASSUME NEW S \in SUBSET Lines, doc = SetToSeq(S)
        PROVE  doc \in Seq(Lines) /\ Once
    BY <2>2, SomeLines DEF Once
  <2> QED BY <2>1, <2>2 DEF Init
<1>2. PlacesOK
  BY CursorsAssumption DEF Init, PlacesOK, Home, Place
<1> QED
  BY <1>1, <1>2 DEF Init, IInv

LEMMA StepOK ==
  ASSUME IInv, [Next]_vars
  PROVE  IInv'
<1>1. ASSUME NEW y \in 0 .. LineCount + 1, MoveCursor(y) \/ ScrollOriginY(y)
      PROVE  IInv'
  <2>1. y \in Int
    BY <1>1, PlaceFacts
  <2> QED BY <1>1, <2>1, CursorMoves, OriginMoves
<1>2. CASE (\E dir \in {-1, 1} : ScrollByPages(dir)) \/ ScrollToPrev
  BY <1>2, OriginMoves
<1>3. ASSUME NEW y \in LineNumbers, NEW l \in Unused, InsertLines(y, <<l>>)
      PROVE  IInv'
  <2> DEFINE new == <<l>>
  <2>1. new \in Seq(Unused) /\ \A i, j \in 1 .. Len(new) : new[i] = new[j] => i = j
    OBVIOUS
  <2> QED BY <1>3, <2>1, LinesComeIn
<1>4. ASSUME NEW y \in LineNumbers, NEW l \in Unused, NEW k \in Unused, l # k,
             InsertLines(y, <<l, k>>)
      PROVE  IInv'
  <2> DEFINE new == <<l, k>>
  <2>1. new \in Seq(Unused) /\ \A i, j \in 1 .. Len(new) : new[i] = new[j] => i = j
    BY <1>4
  <2> QED BY <1>4, <2>1, LinesComeIn
<1>5. ASSUME NEW y \in LineNumbers, NEW z \in y .. y + 1, DeleteLines(y, z)
      PROVE  IInv'
  <2>1. z \in Nat /\ y <= z
    BY <1>5, PlaceFacts DEF LineNumbers
  <2> QED BY <1>5, <2>1, LinesGo
<1>6. ASSUME NEW l \in Unused, PutLastLine(l) PROVE IInv'
  BY <1>6, LastLinePut
<1>7. CASE (\E w \in Windows : SwitchWindow(w)) \/ (\E layout \in Layouts : Resize(layout))
  BY <1>7, WindowsChange
<1>8. ASSUME NEW n \in Names, DefineMark(n) \/ DeleteMark(n) \/ MarkGoto(n)
      PROVE  IInv'
  BY <1>8, MarksChange
<1>9. CASE UNCHANGED vars
  BY <1>9 DEF vars, IInv, PlacesOK, Once
<1> QED
  BY <1>1, <1>2, <1>3, <1>4, <1>5, <1>6, <1>7, <1>8, <1>9 DEF Next

LEMMA Invariant == Spec => []IInv
<1> QED BY InitOK, StepOK, PTL DEF Spec
-----------------------------------------------------------------------------
(* The views that do not have the focus *)

LEMMA LineMovesDown ==
  ASSUME IInv, NEW y \in LineNumbers, NEW new \in Seq(Lines), InsertLines(y, new),
         NEW p \in Nat
  PROVE  SameLine(p, AddLineDelta(p, y, Len(new)))
<1>1. PICK n \in Nat, k \in Nat :
        /\ n = Len(doc) /\ k = Len(new) /\ y \in Nat /\ y < n
        /\ Len(doc') = n + k
        /\ \A i \in 1 .. y : doc'[i] = doc[i]
        /\ \A i \in y + 1 .. n : doc'[i + k] = doc[i]
  BY Inserted
<1>2. CASE y <= p /\ p < n
  <2>1. AddLineDelta(p, y, k) = p + k
    BY <1>1, <1>2 DEF AddLineDelta, AtLeast
  <2>2. p + 1 \in y + 1 .. n /\ (p + 1) + k = (p + k) + 1 /\ p + k < n + k
    BY <1>1, <1>2
  <2>3. doc'[(p + k) + 1] = doc[p + 1]
    BY <1>1, <2>2
  <2> QED BY <1>1, <2>1, <2>2, <2>3 DEF SameLine
<1>3. CASE p < y
  <2>1. AddLineDelta(p, y, k) = p
    BY <1>1, <1>3 DEF AddLineDelta
  <2>2. p + 1 \in 1 .. y /\ p < n + k
    BY <1>1, <1>3
  <2> QED BY <1>1, <2>1, <2>2 DEF SameLine
<1>4. CASE ~(p < n)
  BY <1>1, <1>4 DEF SameLine, LineCount
<1> QED BY <1>1, <1>2, <1>3, <1>4

LEMMA LineMovesUp ==
  ASSUME IInv, NEW y \in LineNumbers, NEW z \in Nat, y <= z, DeleteLines(y, z),
         NEW p \in Nat, NEW n \in Nat, NEW l \in Nat,
         n = Len(doc), y \in Nat, y < l, l <= n,
         doc' \in Seq(Lines), Len(doc') = n - (l - y),
         \A i \in 1 .. y : doc'[i] = doc[i],
         \A i \in l + 1 .. n : doc'[i - (l - y)] = doc[i],
         \A i \in 1 .. Len(doc') : i <= y \/ doc'[i] = doc[i + (l - y)]
  PROVE  SameLine(p, AddLineDelta(p, y, y - l))
<1>1. CASE p < y
  <2>1. AddLineDelta(p, y, y - l) = p
    BY <1>1 DEF AddLineDelta
  <2>2. p + 1 \in 1 .. y /\ p < n - (l - y)
    BY <1>1
  <2> QED BY <2>1, <2>2 DEF SameLine
<1>2. CASE l <= p /\ p < n
  <2>1. AddLineDelta(p, y, y - l) = p - (l - y)
    BY <1>2 DEF AddLineDelta, AtLeast
  <2>2. /\ p + 1 \in l + 1 .. n /\ (p + 1) - (l - y) = (p - (l - y)) + 1
        /\ p - (l - y) < n - (l - y)
    BY <1>2
  <2>3. doc'[(p - (l - y)) + 1] = doc[p + 1]
    BY <2>2
  <2> QED BY <2>1, <2>2, <2>3 DEF SameLine
\* A line that was deleted is nowhere any more.
<1>3. CASE y <= p /\ p < l
  <2> SUFFICES ASSUME NEW i \in 1 .. Len(doc'), doc'[i] = doc[p + 1] PROVE FALSE
    BY DEF SameLine, Range
  <2>1. p + 1 \in 1 .. n
    BY <1>3
  <2>2. CASE i <= y
    <3>1. i \in 1 .. y /\ i \in 1 .. n /\ doc[i] = doc[p + 1]
      BY <2>2
    <3>2. i = p + 1
      BY <2>1, <3>1 DEF IInv, Once
    <3> QED BY <1>3, <2>2, <3>2
  <2>3. CASE ~(i <= y)
    <3>1. i + (l - y) \in 1 .. n /\ doc[i + (l - y)] = doc[p + 1]
      BY <2>3
    <3>2. i + (l - y) = p + 1
      BY <2>1, <3>1 DEF IInv, Once
    <3> QED BY <1>3, <2>3, <3>2
  <2> QED BY <2>2, <2>3
<1>4. CASE ~(p < n)
  BY <1>4 DEF SameLine, LineCount
<1> QED BY <1>1, <1>2, <1>3, <1>4

LEMMA OtherViewsShift ==
  ASSUME IInv, NEW y \in Nat, NEW d \in Int, LineInsDel(y, d),
         \A p \in Nat : SameLine(p, AddLineDelta(p, y, d)),
         NEW w \in Windows, w # cur
  PROVE  /\ SamePlace(current[w], current'[w])
         /\ w \in Returners => SamePlace(prev[w], prev'[w])
<1>1. current'[w] = Shifted(current[w], y, d) /\ current[w] \in Place
  BY PlaceFacts DEF LineInsDel
<1>2. w \in Returners => prev'[w] = Shifted(prev[w], y, d) /\ prev[w] \in Place
  BY PlaceFacts DEF LineInsDel
<1>3. \A u \in Place : SamePlace(u, Shifted(u, y, d))
  BY ShiftedPlace DEF SamePlace, Place
<1> QED BY <1>1, <1>2, <1>3

\* Lines inserted or deleted by the window with the focus leave every other
\* view, and the place it goes back to, on the lines they were on
\* (FBUF::FBufEvent_LineInsDel).
THEOREM OthersKeep == Spec => OthersKeepTheirLines
<1> DEFINE Edit == \E y \in LineNumbers : \/ \E l \in Lines : InsertLines(y, <<l>>)
                                          \/ \E l, k \in Lines : InsertLines(y, <<l, k>>)
                                          \/ \E z \in y .. y + 1 : DeleteLines(y, z)
           Kept(w) == SamePlace(current[w], current'[w]) /\ (w \in Returners => SamePlace(prev[w], prev'[w]))
<1>1. ASSUME IInv, NEW w \in Windows, w # cur, Edit PROVE Kept(w)
  <2>1. ASSUME NEW y \in LineNumbers, NEW new \in Seq(Lines), InsertLines(y, new)
        PROVE  Kept(w)
    <3>1. y \in Nat /\ Len(new) \in Int /\ LineInsDel(y, Len(new))
      <4>1. LineInsDel(y, Len(new))
        BY <2>1 DEF InsertLines
      <4>2. Len(new) \in Int
        OBVIOUS
      <4>3. y \in Nat
        BY <1>1, PlaceFacts DEF LineNumbers
      <4> QED BY <4>1, <4>2, <4>3
    <3>2. \A p \in Nat : SameLine(p, AddLineDelta(p, y, Len(new)))
      BY <1>1, <2>1, LineMovesDown
    <3> QED BY <1>1, <3>1, <3>2, OtherViewsShift
  <2>2. ASSUME NEW y \in LineNumbers, NEW z \in y .. y + 1, DeleteLines(y, z)
        PROVE  Kept(w)
    <3>1. z \in Nat /\ y <= z
      BY <1>1, PlaceFacts DEF LineNumbers
    <3>2. PICK n \in Nat, l \in Nat :
           /\ n = Len(doc) /\ y \in Nat /\ y < l /\ l <= n
           /\ LineInsDel(y, y - l)
           /\ doc' \in Seq(Lines) /\ Len(doc') = n - (l - y)
           /\ \A i \in 1 .. y : doc'[i] = doc[i]
           /\ \A i \in l + 1 .. n : doc'[i - (l - y)] = doc[i]
           /\ \A i \in 1 .. Len(doc') : i <= y \/ doc'[i] = doc[i + (l - y)]
      BY <1>1, <2>2, <3>1, Deleted
    <3>3. \A p \in Nat : SameLine(p, AddLineDelta(p, y, y - l))
      BY <1>1, <2>2, <3>1, <3>2, LineMovesUp
    <3>4. y - l \in Int
      BY <3>2
    <3> QED BY <1>1, <3>2, <3>3, <3>4, OtherViewsShift
  <2>3. \A l, k \in Lines : <<l>> \in Seq(Lines) /\ <<l, k>> \in Seq(Lines)
    OBVIOUS
  <2> QED BY <1>1, <2>1, <2>2, <2>3
<1>2. IInv => [\A w \in Windows : (w # cur /\ Edit) => Kept(w)]_vars
  BY <1>1
<1> QED BY <1>2, Invariant, PTL DEF OthersKeepTheirLines

\* A cursor sent to a line of the buffer, or to the one after the last, arrives
\* there and is shown (View::MoveCursor_, View::ScrollOriginAndCursor_).
THEOREM CursorArrivesThere == Spec => CursorArrives
<1>1. ASSUME IInv, NEW y \in 0 .. LineCount, MoveCursor(y)
      PROVE  current'[cur].cursor = y /\ InWindow(current'[cur], height[cur])
  <2>1. AtLeast(0, y) \in Int /\ cur \in Windows
    BY <1>1, PlaceFacts DEF AtLeast
  <2>2. OriginFor(cur, AtLeast(0, y)) \in Int
    BY <1>1, <2>1, OriginForType
  <2>3. current'[cur] = ScrolledTo(cur, OriginFor(cur, AtLeast(0, y)), AtLeast(0, y))
    BY <1>1, <2>1, <2>2, ScrolledPlaces DEF MoveCursor, MoveTo
  <2>4. ScrolledTo(cur, OriginFor(cur, AtLeast(0, y)), AtLeast(0, y)).cursor = y
    BY <1>1, <2>1, Arrives
  <2>5. InWindow(ScrolledTo(cur, OriginFor(cur, AtLeast(0, y)), AtLeast(0, y)), height[cur])
    BY <1>1, <2>1, <2>2, ScrolledPlace
  <2> QED BY <2>3, <2>4, <2>5
<1>2. IInv => [\A y \in 0 .. LineCount :
         MoveCursor(y) => (current'[cur].cursor = y /\ InWindow(current'[cur], height[cur]))]_vars
  BY <1>1
<1> QED BY <1>2, Invariant, PTL DEF CursorArrives

\* What a view at the end of a buffer does when a line is added to it.
LEMMA TailArrives ==
  ASSUME IInv, NEW l, PutLastLine(l), NEW w \in Windows, Tailing(w)
  PROVE  current'[w].cursor = LineCount + 1 /\ InWindow(current'[w], height[w])
<1>1. PICK h \in Nat, n \in Nat, s \in Nat, m \in Int :
        /\ h = height[w] /\ h >= 3 /\ n = LineCount /\ s = vscroll /\ s >= 1
        /\ m = OriginMax(w) /\ m = n - 1 - h + s + (h \div 3)
  <2>1. OriginMax(w) = LineCount - 1 - height[w] + vscroll + (height[w] \div 3)
    BY PlaceFacts DEF OriginMax, LastLine
  <2> QED BY <2>1, PlaceFacts
<1>2. PICK oo \in Nat, c \in Nat :
           /\ oo = Constrain(0, AtLeast((LineCount + 1) - height[w] + 1, 0), OriginMax(w) + 1)
           /\ c = Constrain(oo, LineCount + 1, oo + height[w] - 1)
           /\ current'[w] = [current[w] EXCEPT !.origin = oo, !.cursor = c]
  BY TailedPlace
<1>3. oo <= n + 1 /\ n + 1 <= oo + h - 1
  <2>1. oo = Constrain(0, AtLeast((n + 1) - h + 1, 0), m + 1)
    BY <1>1, <1>2
  <2>2. m + 1 >= n - h + 2
    BY <1>1
  <2> QED BY <1>1, <2>1, <2>2 DEF Constrain, AtLeast, AtMost
<1>4. c = n + 1
  <2>1. c = Constrain(oo, n + 1, oo + h - 1) /\ n + 1 \in Int /\ oo + h - 1 \in Int
    BY <1>1, <1>2
  <2> QED BY <1>3, <2>1, Constrained
<1>5. current'[w].origin = oo /\ current'[w].cursor = c
  BY <1>2, PlaceFacts DEF Place
<1> QED BY <1>1, <1>3, <1>4, <1>5 DEF InWindow

\* When a buffer grows, the views past its last line go on showing the new end,
\* and the others stay on their line (MoveCursorToEofAllWindows).
THEOREM TailFollowed == Spec => TailIsFollowed
<1> DEFINE Follows(w) ==
             IF current[w].cursor < LineCount
             THEN SamePlace(current[w], current'[w])
             ELSE current'[w].cursor = Len(doc') /\ InWindow(current'[w], height[w])
<1>1. ASSUME IInv, NEW l \in Lines, PutLastLine(l), NEW w \in Windows PROVE Follows(w)
  <2>1. PICK n \in Nat : n = Len(doc) /\ LineCount = n /\ doc \in Seq(Lines)
    BY <1>1, PlaceFacts DEF IInv, LineCount
  <2> DEFINE t == Append(doc, l)
  <2>2. Len(t) = n + 1 /\ \A i \in 1 .. n : t[i] = doc[i]
    BY <2>1, AppendProperties
  <2>3. doc' = t
    BY <1>1 DEF PutLastLine
  <2> HIDE DEF t
  <2>4. current[w].cursor \in Nat /\ current[w].origin \in Nat
    BY <1>1, PlaceFacts
  <2>5. CASE current[w].cursor < LineCount
    <3>1. current'[w] = current[w]
      <4>1. ~Tailing(w)
        BY <2>1, <2>4, <2>5 DEF Tailing
      <4> QED BY <1>1, <4>1, TailedPlace
    <3>2. \A p \in Nat : SameLine(p, p)
      <4> SUFFICES ASSUME NEW p \in Nat, p < n PROVE p < n + 1 /\ t[p + 1] = doc[p + 1]
        BY <2>1, <2>2, <2>3 DEF SameLine
      <4>1. p + 1 \in 1 .. n
        BY <2>1
      <4> QED BY <2>1, <2>2, <4>1
    <3> QED BY <2>4, <2>5, <3>1, <3>2 DEF SamePlace
  <2>6. CASE ~(current[w].cursor < LineCount)
    <3>1. Tailing(w)
      BY <2>1, <2>4, <2>6 DEF Tailing
    <3> QED BY <1>1, <2>1, <2>2, <2>3, <2>6, <3>1, TailArrives
  <2> QED BY <2>5, <2>6
<1> HIDE DEF Follows
<1>2. IInv => [\A l \in Lines : PutLastLine(l) => \A w \in Windows : Follows(w)]_vars
  BY <1>1
<1> QED BY <1>2, Invariant, PTL DEF TailIsFollowed, Follows
=============================================================================
