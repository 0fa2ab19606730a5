--------------------------- MODULE UndoRedoProofs ---------------------------
(***************************************************************************)
(* Undo and redo, proved for all values of the constants, in three parts.  *)
(* 1. The safety invariants of UndoRedo.  IInv is inductive: the shape of  *)
(* the edit list (where it must hold a boundary), the ownership of deleted *)
(* lines, the count of boundaries and the room the records need are        *)
(* mutually dependent, and none is inductive without the others.           *)
(* 2. What the records replay.  Between any two neighbouring records       *)
(* stands a page, the text of the buffer there without its end: a content  *)
(* for every natural number, blank from some line on.  The pages are tied  *)
(* to each other by what their record has saved (Between), and the one at  *)
(* the current position is the store's (Replays).  From this follow that   *)
(* nothing waits beyond the last line and that a clean buffer holds its    *)
(* file.                                                                   *)
(* 3. UndoRedo implements History: with the boundaries numbered and their  *)
(* snapshots tied to the pages, every step is one of History's.            *)
(***************************************************************************)
EXTENDS UndoHistory, NumberProofs

-----------------------------------------------------------------------------
(* What the line store operations of LineArray keep, for every size of the  *)
(* store: its type, its allocation and its count of lines.                  *)

\* A store is rebuilt from its three fields.
LEMMA StoreFields ==
  ASSUME NEW li, NEW c, NEW n,
         c \in Nat, n \in 0 .. c, li \in [0 .. c - 1 -> Content]
  PROVE  IsStore([li |-> li, capacity |-> c, lineCount |-> n])
  BY DEF IsStore

\* FBUF::LineInfoReserve never shrinks the allocation, gives the room asked
\* for and leaves the line count alone.
LEMMA ReserveKeeps ==
  ASSUME NEW f, IsStore(f), NEW n \in Nat
  PROVE  LET g == LineInfoReserve(f, n)
         IN  /\ IsStore(g)
             /\ g.capacity >= f.capacity /\ g.capacity >= n
             /\ g.lineCount = f.lineCount
<1> DEFINE size == n + LineHeadSpace
           kept == [y \in 0 .. size - 1 |-> IF y < f.lineCount THEN f.li[y] ELSE Blank]
<1>1. CASE f.capacity >= n
  BY <1>1 DEF LineInfoReserve, IsStore
<1>2. CASE ~(f.capacity >= n)
  <2>1. size \in Nat /\ size >= n
    BY HeadSpaceAssumption
  <2>2. kept \in [0 .. size - 1 -> Content]
    BY <2>1 DEF IsStore, Content
  <2>3. LineInfoReserve(f, n) =
          [li |-> kept, capacity |-> size, lineCount |-> f.lineCount]
    BY <1>2 DEF LineInfoReserve, IsStore
  <2>4. f.lineCount \in 0 .. size /\ size >= f.capacity
    BY <1>2, <2>1 DEF IsStore
  <2> HIDE DEF size, kept
  <2>5. IsStore([li |-> kept, capacity |-> size, lineCount |-> f.lineCount])
    BY <2>1, <2>2, <2>4, StoreFields
  <2> QED
    BY <2>1, <2>3, <2>4, <2>5
<1> QED
  BY <1>1, <1>2 DEF IsStore

\* FBUF::InsertLines__ leaves room for the hole, never shrinks the allocation,
\* and grows the count only for an insertion above the end.
LEMMA InsertKeeps ==
  ASSUME NEW f, IsStore(f), NEW y \in Nat, NEW n \in Nat
  PROVE  LET g == InsertLines(f, y, n)
         IN  /\ IsStore(g)
             /\ g.capacity >= f.capacity /\ g.capacity >= y + n
             /\ y < f.lineCount => /\ g.lineCount = f.lineCount + n
                                   /\ g.capacity >= f.lineCount + n
             /\ f.lineCount <= y => g.lineCount = f.lineCount
<1> DEFINE newCount == f.lineCount + n
           roomy    == f.capacity >= newCount
           size     == IF roomy THEN f.capacity ELSE newCount + LineHeadSpace
           Moved(z) == IF z < y THEN f.li[z]
                       ELSE IF z < y + n THEN Blank
                       ELSE IF z < newCount THEN f.li[z - n]
                       ELSE IF roomy THEN f.li[z] ELSE Blank
           moved    == [z \in 0 .. size - 1 |-> Moved(z)]
<1>1. /\ f.capacity \in Nat
      /\ f.lineCount \in 0 .. f.capacity
      /\ f.li \in [0 .. f.capacity - 1 -> Content]
  BY DEF IsStore
<1>2. CASE f.lineCount <= y
  <2>1. InsertLines(f, y, n) = LineInfoReserve(f, y + n)
    BY <1>2 DEF InsertLines
  <2>2. y + n \in Nat
    OBVIOUS
  <2>3. LET g == LineInfoReserve(f, y + n)
        IN  /\ IsStore(g)
            /\ g.capacity >= f.capacity /\ g.capacity >= y + n
            /\ g.lineCount = f.lineCount
    BY <2>2, ReserveKeeps
  <2> QED
    BY <1>1, <1>2, <2>1, <2>3
<1>3. CASE y < f.lineCount
  <2>1. /\ size \in Nat /\ size >= newCount /\ size >= f.capacity
        /\ newCount \in Nat
    BY <1>1, HeadSpaceAssumption
  <2>2. roomy => size = f.capacity
    OBVIOUS
  <2>3. InsertLines(f, y, n) =
          [li |-> moved, capacity |-> size, lineCount |-> newCount]
    BY <1>1, <1>3 DEF InsertLines
  <2>4. newCount >= y + n
    BY <1>1, <1>3
  <2>5. ASSUME NEW z \in 0 .. size - 1
        PROVE  Moved(z) \in Content
    <3>1. z < y => z \in 0 .. f.capacity - 1
      BY <1>1, <1>3
    <3>2. z >= y + n /\ z < newCount => z - n \in 0 .. f.capacity - 1
      BY <1>1, <1>3
    <3>3. roomy => z \in 0 .. f.capacity - 1
      BY <2>2
    <3>4. z \in Int /\ y + n \in Int
      BY <2>1
    <3> HIDE DEF size, newCount, roomy
    <3> QED
      BY <1>1, <2>1, <3>1, <3>2, <3>3, <3>4 DEF Content
  <2>6. moved \in [0 .. size - 1 -> Content]
    BY <2>5
  <2> HIDE DEF size, moved
  <2>7. IsStore([li |-> moved, capacity |-> size, lineCount |-> newCount])
    BY <1>1, <2>1, <2>6, StoreFields
  <2> QED
    BY <1>1, <1>3, <2>1, <2>3, <2>4, <2>7
<1> QED
  BY <1>1, <1>2, <1>3

\* FBUF::DeleteLines__ keeps the allocation and lowers the count by the lines
\* that were there to delete.
LEMMA DeleteKeeps ==
  ASSUME NEW f, IsStore(f), NEW first \in Nat, NEW last \in Int
  PROVE  LET g == DeleteLines(f, first, last)
         IN  IsStore(g) /\ g.capacity = f.capacity
<1> DEFINE end  == IF last > LastLine(f) THEN LastLine(f) ELSE last
           n    == end - first + 1
           left == f.lineCount - n
           Slid(z) == IF z < first THEN f.li[z]
                      ELSE IF z < left THEN f.li[z + n]
                      ELSE IF z < f.lineCount THEN Blank
                      ELSE f.li[z]
           slid == [z \in 0 .. f.capacity - 1 |-> Slid(z)]
<1>1. /\ f.capacity \in Nat
      /\ f.lineCount \in 0 .. f.capacity
      /\ f.li \in [0 .. f.capacity - 1 -> Content]
      /\ LastLine(f) = f.lineCount - 1
  BY DEF IsStore, LastLine
<1>2. CASE first > LastLine(f) \/ first > last
  BY <1>2 DEF DeleteLines
<1>3. CASE ~(first > LastLine(f) \/ first > last)
  <2>1. end \in first .. LastLine(f)
    BY <1>1, <1>3
  <2>2. DeleteLines(f, first, last) =
          [li |-> slid, capacity |-> f.capacity, lineCount |-> left]
    BY <1>3 DEF DeleteLines
  <2> HIDE DEF end
  <2>3. n \in Nat /\ n >= 1 /\ left \in 0 .. f.capacity
    BY <1>1, <2>1
  <2>4. ASSUME NEW z \in 0 .. f.capacity - 1
        PROVE  Slid(z) \in Content
    <3>1. z < left => z + n \in 0 .. f.capacity - 1
      BY <1>1, <2>1
    <3> HIDE DEF n, left
    <3> QED
      BY <1>1, <2>3, <3>1 DEF Content
  <2>5. slid \in [0 .. f.capacity - 1 -> Content]
    BY <2>4
  <2> HIDE DEF slid, left
  <2>6. IsStore([li |-> slid, capacity |-> f.capacity, lineCount |-> left])
    BY <1>1, <2>3, <2>5, StoreFields
  <2> QED
    BY <2>2, <2>6
<1> QED
  BY <1>2, <1>3

\* Writing lines over entries of the array keeps its type.
LEMMA OverlayKeeps ==
  ASSUME NEW f, IsStore(f), NEW first \in Nat, NEW k \in Nat,
         NEW lis \in [0 .. k - 1 -> Content]
  PROVE  LET g == Overlay(f, first, lis)
         IN  /\ IsStore(g)
             /\ g.capacity = f.capacity
             /\ g.lineCount = f.lineCount
<1> DEFINE over == [y \in 0 .. f.capacity - 1 |->
                      IF y - first \in DOMAIN lis THEN lis[y - first] ELSE f.li[y]]
<1>1. over \in [0 .. f.capacity - 1 -> Content]
  BY DEF IsStore
<1>2. Overlay(f, first, lis) = [f EXCEPT !.li = over]
  BY DEF Overlay
<1> HIDE DEF over
<1>3. [f EXCEPT !.li = over] =
        [li |-> over, capacity |-> f.capacity, lineCount |-> f.lineCount]
  BY DEF IsStore
<1> QED
  BY <1>1, <1>2, <1>3 DEF IsStore

\* Setting one entry of the array to a content keeps its type.
LEMMA SetEntryKeeps ==
  ASSUME NEW f, IsStore(f), NEW y \in Nat, NEW c \in Content
  PROVE  LET g == [f EXCEPT !.li[y] = c]
         IN  /\ IsStore(g)
             /\ g.capacity = f.capacity
             /\ g.lineCount = f.lineCount
<1>1. [f EXCEPT !.li[y] = c] =
        [li |-> [f.li EXCEPT ![y] = c], capacity |-> f.capacity,
         lineCount |-> f.lineCount]
  BY SMTT(30) DEF IsStore
<1>2. [f.li EXCEPT ![y] = c] \in [0 .. f.capacity - 1 -> Content]
  BY DEF IsStore
<1> QED
  BY <1>1, <1>2 DEF IsStore

\* Entries inside the allocation are contents.
LEMMA SliceType ==
  ASSUME NEW f, IsStore(f), NEW first \in Nat, NEW n \in Nat,
         first + n <= f.capacity
  PROVE  Slice(f, first, n) \in [0 .. n - 1 -> Content]
  BY DEF Slice, IsStore

\* Any count inside the allocation keeps the store's type.
LEMMA SetCountKeeps ==
  ASSUME NEW f, IsStore(f), NEW n \in Nat, n <= f.capacity
  PROVE  LET g == SetLineCount(f, n)
         IN  IsStore(g) /\ g.capacity = f.capacity /\ g.lineCount = n
<1>1. SetLineCount(f, n) = [li |-> f.li, capacity |-> f.capacity, lineCount |-> n]
  BY DEF SetLineCount, IsStore
<1> QED
  BY <1>1 DEF IsStore

\* A store read from a file.
LEMMA StoreOfType ==
  ASSUME NEW lines \in Seq(Content)
  PROVE  IsStore(StoreOf(lines))
<1> DEFINE size == Len(lines) + LineHeadSpace
           read == [y \in 0 .. size - 1 |->
                      IF y < Len(lines) THEN lines[y + 1] ELSE Blank]
<1>1. size \in Nat /\ Len(lines) \in 0 .. size
  BY HeadSpaceAssumption
<1>2. read \in [0 .. size - 1 -> Content]
  <2>1. ASSUME NEW y \in 0 .. size - 1, y < Len(lines)
        PROVE  lines[y + 1] \in Content
    <3>1. y + 1 \in 1 .. Len(lines)
      BY <1>1, <2>1
    <3> QED
      BY <3>1
  <2> QED
    BY <2>1 DEF Content
<1> HIDE DEF size, read
<1> QED
  BY <1>1, <1>2, StoreFields DEF StoreOf, size, read

-----------------------------------------------------------------------------
(* Edit records and lists of them: which records there are, what adding a   *)
(* record, updating one and dropping the oldest do to a list, and how these *)
(* change the number of boundaries that d_UndoCount counts.                 *)

\* The set of all edit records; RangeDelete records save as many lines as
\* they delete.
EditRecs ==
  [kind : {"boundary"}, dirty : BOOLEAN, stat : FileStat]
    \cup [kind : {"alt"}, count : Nat, line : Nat, li : Content]
    \cup [kind : {"ins"}, count : Nat, first : Nat, n : Nat \ {0}]
    \cup {er \in [kind : {"del"}, count : Nat, first : Nat, n : Nat \ {0},
                  saved : UNION {[0 .. m - 1 -> Content] : m \in Nat},
                  applied : BOOLEAN] :
            er.saved \in [0 .. er.n - 1 -> Content]}

\* Membership of EditRecs is what the type invariant says of a record.
LEMMA EditRecsAreRecords ==
  ASSUME NEW er \in EditRecs
  PROVE  IsRecord(er)
  BY DEF EditRecs, IsRecord

\* What a record is made of.
LEMMA BoundaryFields ==
  ASSUME NEW d \in BOOLEAN, NEW st \in FileStat
  PROVE  /\ Boundary(d, st) \in EditRecs
         /\ IsBoundary(Boundary(d, st))
         /\ Boundary(d, st).kind = "boundary"
  BY DEF EditRecs, Boundary, IsBoundary

LEMMA AltLineFields ==
  ASSUME NEW n \in Nat, NEW y \in Nat, NEW c \in Content
  PROVE  LET er == AltLine(n, y, c)
         IN  /\ er \in EditRecs
             /\ er.kind = "alt" /\ er.count = n /\ er.line = y /\ er.li = c
  BY DEF EditRecs, AltLine

LEMMA RangeInsertFields ==
  ASSUME NEW n \in Nat, NEW y \in Nat, NEW k \in Nat \ {0}
  PROVE  LET er == RangeInsert(n, y, k)
         IN  /\ er \in EditRecs
             /\ er.kind = "ins" /\ er.count = n /\ er.first = y /\ er.n = k
  BY DEF EditRecs, RangeInsert

\* What a record of each kind holds.
LEMMA RecordFields ==
  ASSUME NEW er \in EditRecs
  PROVE  /\ er.kind \in {"boundary", "alt", "ins", "del"}
         /\ er.kind = "boundary" => er.dirty \in BOOLEAN /\ er.stat \in FileStat
         /\ er.kind = "alt" => /\ er.count \in Nat /\ er.line \in Nat
                               /\ er.li \in Content
         /\ er.kind = "ins" => /\ er.count \in Nat /\ er.first \in Nat
                               /\ er.n \in Nat \ {0}
         /\ er.kind = "del" => /\ er.count \in Nat /\ er.first \in Nat
                               /\ er.n \in Nat \ {0}
                               /\ er.saved \in [0 .. er.n - 1 -> Content]
                               /\ er.applied \in BOOLEAN
  BY DEF EditRecs
-----------------------------------------------------------------------------
\* Adding a record after the current one (Undo_AddNewEditOpToListHead): the
\* records up to it stay, everything after it is gone.
LEMMA AppendAfter ==
  ASSUME NEW S, NEW s \in Seq(S), NEW c \in 1 .. Len(s), NEW er \in S
  PROVE  LET t == Append(SubSeq(s, 1, c), er)
         IN  /\ t \in Seq(S)
             /\ Len(t) = c + 1
             /\ \A k \in 1 .. c : t[k] = s[k]
             /\ t[c + 1] = er
<1> DEFINE p == SubSeq(s, 1, c)
<1>1. /\ p \in Seq(S)
      /\ Len(p) = c
      /\ \A k \in 1 .. c : p[k] = s[k]
  <2>1. \A i \in 1 .. c : s[i] \in S
    OBVIOUS
  <2> QED
    BY <2>1, SubSeqProperties
<1> HIDE DEF p
<1> QED
  BY <1>1, AppendProperties

\* Dropping the oldest record of a list of several.
LEMMA DropOldest ==
  ASSUME NEW S, NEW s \in Seq(S), Len(s) > 1
  PROVE  /\ Tail(s) \in Seq(S)
         /\ Len(Tail(s)) = Len(s) - 1
         /\ \A k \in 1 .. Len(s) - 1 : Tail(s)[k] = s[k + 1]
<1>1. s # <<>>
  BY EmptySeq
<1> QED
  BY <1>1, HeadTailProperties
-----------------------------------------------------------------------------
\* Boundaries can be counted.
LEMMA BoundariesFinite ==
  ASSUME NEW s, NEW lo \in Int, NEW hi \in Int
  PROVE  /\ IsFiniteSet(BoundariesIn(s, lo, hi))
         /\ Cardinality(BoundariesIn(s, lo, hi)) \in Nat
<1>1. IsFiniteSet(lo .. hi)
  BY FS_Interval
<1>2. BoundariesIn(s, lo, hi) \in SUBSET (lo .. hi)
  BY DEF BoundariesIn
<1> QED
  BY <1>1, <1>2, FS_Subset, FS_CardinalityType

\* Lists that agree on the kinds of their records have the same boundaries.
LEMMA SameBoundaries ==
  ASSUME NEW s, NEW t, NEW lo \in Int, NEW hi \in Int,
         \A k \in lo .. hi : IsBoundary(t[k]) <=> IsBoundary(s[k])
  PROVE  BoundariesIn(t, lo, hi) = BoundariesIn(s, lo, hi)
  BY DEF BoundariesIn

\* The boundaries of a list are those up to a position and those after it.
LEMMA SplitBoundaries ==
  ASSUME NEW s, NEW lo \in Int, NEW c \in Int, NEW hi \in Int,
         lo <= c + 1, c <= hi
  PROVE  Cardinality(BoundariesIn(s, lo, hi)) =
           Cardinality(BoundariesIn(s, lo, c))
             + Cardinality(BoundariesIn(s, c + 1, hi))
<1> DEFINE L == BoundariesIn(s, lo, c)
           R == BoundariesIn(s, c + 1, hi)
<1>1. BoundariesIn(s, lo, hi) = L \cup R
  BY DEF BoundariesIn
<1>2. L \cap R = {}
  BY DEF BoundariesIn
<1>3. IsFiniteSet(L) /\ Cardinality(L) \in Nat
  BY BoundariesFinite
<1>4. IsFiniteSet(R) /\ Cardinality(R) \in Nat
  BY BoundariesFinite
<1> HIDE DEF L, R
<1>5. Cardinality(L \cup R) = Cardinality(L) + Cardinality(R) - Cardinality({})
  BY <1>2, <1>3, <1>4, FS_Union
<1>6. Cardinality({}) = 0
  BY FS_EmptySet
<1> QED
  BY <1>1, <1>3, <1>4, <1>5, <1>6 DEF L, R

\* One record more, at the end.
LEMMA LastBoundary ==
  ASSUME NEW s, NEW lo \in Int, NEW c \in Int, lo <= c + 1
  PROVE  Cardinality(BoundariesIn(s, lo, c + 1)) =
           Cardinality(BoundariesIn(s, lo, c))
             + (IF IsBoundary(s[c + 1]) THEN 1 ELSE 0)
<1>1. Cardinality(BoundariesIn(s, lo, c + 1)) =
        Cardinality(BoundariesIn(s, lo, c))
          + Cardinality(BoundariesIn(s, c + 1, c + 1))
  BY SplitBoundaries
<1>2. CASE IsBoundary(s[c + 1])
  <2>1. BoundariesIn(s, c + 1, c + 1) = {c + 1}
    BY <1>2 DEF BoundariesIn
  <2> QED
    BY <1>1, <1>2, <2>1, FS_Singleton
<1>3. CASE ~IsBoundary(s[c + 1])
  <2>1. BoundariesIn(s, c + 1, c + 1) = {}
    BY <1>3 DEF BoundariesIn
  <2>2. Cardinality(BoundariesIn(s, lo, c)) \in Nat
    BY BoundariesFinite
  <2> QED
    BY <1>1, <1>3, <2>1, <2>2, FS_EmptySet
<1> QED
  BY <1>2, <1>3

\* A list without its oldest record has the boundaries of the rest, one
\* place down.
LEMMA ShiftBoundaries ==
  ASSUME NEW s, NEW t, NEW n \in Nat,
         \A k \in 1 .. n - 1 : t[k] = s[k + 1]
  PROVE  Cardinality(BoundariesIn(t, 2, n - 1)) =
           Cardinality(BoundariesIn(s, 3, n))
<1> DEFINE A == BoundariesIn(s, 3, n)
           B == BoundariesIn(t, 2, n - 1)
           down == [k \in A |-> k - 1]
<1>1. \A k \in A : k - 1 \in B
  BY DEF BoundariesIn
<1>2. \A k \in B : k + 1 \in A /\ k = (k + 1) - 1
  BY DEF BoundariesIn
<1>3. \A j, k \in A : j - 1 = k - 1 => j = k
  BY DEF BoundariesIn
<1>4. IsFiniteSet(A)
  BY BoundariesFinite
<1> HIDE DEF A, B
<1>5. down \in [A -> B]
  BY <1>1
<1>6. \A j, k \in A : down[j] = down[k] => j = k
  BY <1>3
<1>7. \A b \in B : \E k \in A : down[k] = b
  BY <1>2
<1>8. down \in Bijection(A, B)
  BY <1>5, <1>6, <1>7 DEF Bijection, Injection, Surjection, IsInjective
<1>9. Cardinality(B) = Cardinality(A)
  BY <1>4, <1>8, FS_Bijection DEF ExistsBijection
<1> QED
  BY <1>9 DEF A, B

\* Dropping the oldest record lowers the count exactly when the next one is a
\* boundary (Undo_RmvOneEdOp_fNextIsBoundary).
LEMMA DropCounts ==
  ASSUME NEW S, NEW s \in Seq(S), Len(s) > 1
  PROVE  Cardinality(BoundariesIn(Tail(s), 2, Len(s) - 1)) =
           Cardinality(BoundariesIn(s, 2, Len(s)))
             - (IF IsBoundary(s[2]) THEN 1 ELSE 0)
<1>1. Len(s) \in Nat
  OBVIOUS
<1>2. \A k \in 1 .. Len(s) - 1 : Tail(s)[k] = s[k + 1]
  BY DropOldest
<1>3. Cardinality(BoundariesIn(Tail(s), 2, Len(s) - 1)) =
        Cardinality(BoundariesIn(s, 3, Len(s)))
  BY <1>1, <1>2, ShiftBoundaries
<1>4. Cardinality(BoundariesIn(s, 2, Len(s))) =
        Cardinality(BoundariesIn(s, 2, 2)) + Cardinality(BoundariesIn(s, 2 + 1, Len(s)))
  <2>1. 2 <= 2 + 1 /\ 2 <= Len(s)
    BY <1>1
  <2> QED
    BY <1>1, <2>1, SplitBoundaries
<1>5. Cardinality(BoundariesIn(s, 2, 1 + 1)) =
        Cardinality(BoundariesIn(s, 2, 1)) + (IF IsBoundary(s[1 + 1]) THEN 1 ELSE 0)
  BY LastBoundary
<1>6. Cardinality(BoundariesIn(s, 2, 1)) = 0
  <2>1. BoundariesIn(s, 2, 1) = {}
    BY DEF BoundariesIn
  <2> QED
    BY <2>1, FS_EmptySet
<1>7. Cardinality(BoundariesIn(s, 3, Len(s))) \in Nat
  BY <1>1, BoundariesFinite
<1>8. 1 + 1 = 2 /\ 2 + 1 = 3
  OBVIOUS
<1>9. Cardinality(BoundariesIn(s, 2, 2)) = IF IsBoundary(s[2]) THEN 1 ELSE 0
  BY <1>5, <1>6, <1>8
<1>10. Cardinality(BoundariesIn(s, 2, Len(s))) =
         Cardinality(BoundariesIn(s, 2, 2)) + Cardinality(BoundariesIn(s, 3, Len(s)))
  BY <1>4, <1>8
<1> QED
  BY <1>3, <1>7, <1>9, <1>10

\* Renewing a record in place keeps the list's length, its other records and
\* its boundaries, if the record keeps its kind.
LEMMA RenewRecord ==
  ASSUME NEW s \in Seq(EditRecs), NEW i \in 1 .. Len(s), NEW er \in EditRecs,
         er.kind = s[i].kind
  PROVE  LET t == [s EXCEPT ![i] = er]
         IN  /\ t \in Seq(EditRecs)
             /\ Len(t) = Len(s)
             /\ \A k \in 1 .. Len(s) : k # i => t[k] = s[k]
             /\ t[i] = er
             /\ \A k \in 1 .. Len(s) : t[k].kind = s[k].kind
             /\ BoundariesIn(t, 2, Len(t)) = BoundariesIn(s, 2, Len(s))
<1> DEFINE t == [s EXCEPT ![i] = er]
<1>1. /\ t \in Seq(EditRecs)
      /\ Len(t) = Len(s)
      /\ \A k \in 1 .. Len(s) : t[k] = IF k = i THEN er ELSE s[k]
  BY ExceptSeq
<1> HIDE DEF t
<1>2. \A k \in 1 .. Len(s) : t[k].kind = s[k].kind
  BY <1>1
<1>3. \A k \in 2 .. Len(s) : IsBoundary(t[k]) <=> IsBoundary(s[k])
  BY <1>1, <1>2 DEF IsBoundary
<1>4. Len(s) \in Int
  OBVIOUS
<1>5. BoundariesIn(t, 2, Len(s)) = BoundariesIn(s, 2, Len(s))
  BY <1>3, <1>4, SameBoundaries
<1> QED
  BY <1>1, <1>2, <1>5 DEF t

-----------------------------------------------------------------------------
(* The inductive invariant                                                  *)

\* The types of everything but the edit list.
ScalarsOK ==
  /\ pc \in {"loop", "prune", "fetched", "undo", "redo"}
  /\ IsStore(fb)
  /\ maxUndo \in Nat
  /\ noEdit \in BOOLEAN
  /\ dirty \in BOOLEAN
  /\ lastFileStat \in FileStat
  /\ disk.stat \in FileStat
  /\ disk.lines \in Seq(Content)
  /\ clock \in Nat

ListOK ==
  /\ edits \in Seq(EditRecs)
  /\ cur \in 1 .. Len(edits)

\* A walk has not reached the end of the list it is heading for.
WalksHaveRoom ==
  /\ pc = "undo" => cur > 1
  /\ pc = "redo" => cur < Len(edits)

IInv ==
  /\ ScalarsOK
  /\ ListOK
  /\ RecordsFit
  /\ OldestIsBoundary
  /\ UndoneTailIsSealed
  /\ SealedWhereWalksBegin
  /\ WalksHaveRoom
  /\ DeletionsOwnTheirLines
  /\ UndoCountIsBoundaries

\* What RecordsFit asks of one record, on any store.
Fits(er, f) ==
  /\ er.kind = "alt" => er.line < f.capacity /\ er.count <= f.capacity
  /\ er.kind = "ins" => er.count + er.n <= f.capacity
  /\ er.kind = "del" => /\ er.first + er.n <= er.count
                        /\ er.count <= f.capacity

LEMMA RecordsFitEach == RecordsFit <=> \A k \in 1 .. Len(edits) : Fits(edits[k], fb)
  BY DEF RecordsFit, Fits

\* A record that fits goes on fitting while the allocation grows.
LEMMA FitsGrow ==
  ASSUME NEW er \in EditRecs, NEW f, NEW g, IsStore(f), IsStore(g),
         Fits(er, f), g.capacity >= f.capacity
  PROVE  Fits(er, g)
<1>1. f.capacity \in Nat /\ g.capacity \in Nat
  BY DEF IsStore
<1> QED
  BY <1>1, RecordFields DEF Fits

\* A boundary asks for no room.
LEMMA BoundaryFits ==
  ASSUME NEW er, NEW f, IsBoundary(er)
  PROVE  Fits(er, f)
  BY DEF IsBoundary, Fits
-----------------------------------------------------------------------------
\* The size of a file is a number.
LEMMA SizeType ==
  ASSUME NEW lines \in Seq(Content)
  PROVE  SizeOf(lines) \in Nat
<1> DEFINE T == {i \in 1 .. Len(lines) : lines[i] # Blank}
<1>1. IsFiniteSet(1 .. Len(lines))
  BY FS_Interval
<1>2. T \in SUBSET (1 .. Len(lines))
  OBVIOUS
<1>3. IsFiniteSet(T)
  BY <1>1, <1>2, FS_Subset
<1> HIDE DEF T
<1>4. Cardinality(T) \in Nat
  BY <1>3, FS_CardinalityType
<1> QED
  BY <1>4 DEF SizeOf, T

\* The lines of a store are a sequence of contents, and so are those of them
\* that FBUF_WriteToDiskOk writes.
LEMMA FileLinesType ==
  ASSUME NEW f, IsStore(f)
  PROVE  FileLines(f) \in Seq(Content)
<1>1. f.lineCount \in Nat
  BY DEF IsStore
<1>2. \A i \in 1 .. f.lineCount : f.li[i - 1] \in Content
  BY DEF IsStore
<1>3. [i \in 1 .. f.lineCount |-> f.li[i - 1]] \in [1 .. f.lineCount -> Content]
  BY <1>2
<1> QED
  BY <1>1, <1>3, SeqDef DEF FileLines

LEMMA DocumentType ==
  ASSUME NEW lines \in Seq(Content)
  PROVE  Document(lines) \in Seq(Content)
<1> DEFINE used == {i \in 1 .. Len(lines) :
                      \E j \in i .. Len(lines) : lines[j] # Blank}
           last == Cardinality(used)
<1>1. Len(lines) \in Nat
  OBVIOUS
<1>2. IsFiniteSet(1 .. Len(lines)) /\ Cardinality(1 .. Len(lines)) = Len(lines)
  BY <1>1, FS_Interval
<1>3. used \in SUBSET (1 .. Len(lines))
  OBVIOUS
<1>4. Document(lines) = SubSeq(lines, 1, last)
  BY DEF Document
<1> HIDE DEF used
<1>5. IsFiniteSet(used) /\ last <= Len(lines)
  BY <1>2, <1>3, FS_Subset
<1>6. last \in Nat
  BY <1>5, FS_CardinalityType
<1> HIDE DEF last
<1>7. \A i \in 1 .. last : lines[i] \in Content
  BY <1>1, <1>5, <1>6
<1> QED
  BY <1>4, <1>6, <1>7, SubSeqProperties

LEMMA WrittenLinesType ==
  ASSUME IsStore(fb)
  PROVE  WrittenLines \in Seq(Content)
<1>1. FileLines(fb) \in Seq(Content)
  BY FileLinesType
<1>2. DocOf(fb) \in Seq(Content)
  BY <1>1, DocumentType DEF DocOf
<1>3. <<Blank>> \in Seq(Content)
  BY DEF Content
<1> QED
  BY <1>1, <1>2, <1>3 DEF WrittenLines

\* A write leaves a well typed file.
LEMMA FileWrittenType ==
  ASSUME NEW lines \in Seq(Content), FileWritten(lines), clock \in Nat
  PROVE  disk'.stat \in FileStat /\ disk'.lines \in Seq(Content) /\ clock' \in Nat
<1>1. /\ clock' \in Nat
      /\ disk' = [lines |-> lines, stat |-> [time |-> clock', size |-> SizeOf(lines)]]
  BY DEF FileWritten
<1>2. SizeOf(lines) \in Nat
  BY SizeType
<1>3. [time |-> clock', size |-> SizeOf(lines)] \in FileStat
  BY <1>1, <1>2 DEF FileStat
<1> QED
  BY <1>1, <1>3
-----------------------------------------------------------------------------
\* EditRec::VUndo keeps the store and its record well typed, never shrinks the
\* allocation, and leaves the record one that a redo can use; a delete it
\* undoes is marked not applied.
LEMMA UndoneKeeps ==
  ASSUME NEW f, IsStore(f), NEW er \in EditRecs, Fits(er, f)
  PROVE  LET g == Undone(f, er)
             r == UndoneRec(f, er)
         IN  /\ IsStore(g) /\ g.capacity >= f.capacity
             /\ r \in EditRecs /\ r.kind = er.kind /\ Fits(r, g)
             /\ r.kind = "del" => ~r.applied
<1>1. /\ f.capacity \in Nat
      /\ f.lineCount \in 0 .. f.capacity
      /\ f.li \in [0 .. f.capacity - 1 -> Content]
  BY DEF IsStore
<1>2. CASE er.kind = "boundary"
  BY <1>1, <1>2 DEF Undone, UndoneRec, Fits
<1>3. CASE er.kind = "alt"
  <2>1. /\ er.count \in Nat /\ er.line \in Nat /\ er.li \in Content
        /\ er.line < f.capacity /\ er.count <= f.capacity
    BY <1>3, RecordFields DEF Fits
  <2>2. Undone(f, er) = [f EXCEPT !.li[er.line] = er.li, !.lineCount = er.count]
    BY <1>3 DEF Undone, SwapIn
  <2>3. UndoneRec(f, er) = AltLine(f.lineCount, er.line, f.li[er.line])
    BY <1>3 DEF UndoneRec, SwapOut
  <2>4. f.li[er.line] \in Content /\ f.lineCount \in Nat
    BY <1>1, <2>1
  <2>5. LET r == UndoneRec(f, er)
        IN  /\ r \in EditRecs
            /\ r.kind = "alt" /\ r.count = f.lineCount /\ r.line = er.line
    BY <2>1, <2>3, <2>4, AltLineFields
  <2>6. Undone(f, er) =
          [li |-> [f.li EXCEPT ![er.line] = er.li], capacity |-> f.capacity,
           lineCount |-> er.count]
    BY <2>2 DEF IsStore
  <2>7. [f.li EXCEPT ![er.line] = er.li] \in [0 .. f.capacity - 1 -> Content]
    BY <1>1, <2>1
  <2>8. /\ IsStore(Undone(f, er))
        /\ Undone(f, er).capacity = f.capacity
    BY <1>1, <2>1, <2>6, <2>7, StoreFields
  <2> QED
    BY <1>1, <1>3, <2>1, <2>5, <2>8 DEF Fits
<1>4. CASE er.kind = "ins"
  <2> DEFINE d == DeleteLines(f, er.first, er.first + er.n - 1)
  <2>1. /\ er.count \in Nat /\ er.first \in Nat /\ er.n \in Nat \ {0}
        /\ er.count + er.n <= f.capacity
    BY <1>4, RecordFields DEF Fits
  <2>2. Undone(f, er) = SetLineCount(d, er.count) /\ UndoneRec(f, er) = er
    BY <1>4 DEF Undone, UndoneRec
  <2>3. er.first + er.n - 1 \in Int
    BY <2>1
  <2>4. IsStore(d) /\ d.capacity = f.capacity
    BY <2>1, <2>3, DeleteKeeps
  <2> HIDE DEF d
  <2>5. IsStore(SetLineCount(d, er.count)) /\ SetLineCount(d, er.count).capacity = f.capacity
    <3>1. er.count <= d.capacity
      BY <1>1, <2>1, <2>4
    <3> QED
      BY <2>1, <2>4, <3>1, SetCountKeeps
  <2> QED
    BY <1>1, <1>4, <2>1, <2>2, <2>5 DEF Fits
<1>5. CASE er.kind = "del"
  <2> DEFINE i == InsertLines(f, er.first, er.n)
             o == Overlay(i, er.first, er.saved)
             s == Slice(i, er.first, er.n)
  <2>1. /\ er.count \in Nat /\ er.first \in Nat /\ er.n \in Nat \ {0}
        /\ er.saved \in [0 .. er.n - 1 -> Content]
        /\ er.first + er.n <= er.count /\ er.count <= f.capacity
    BY <1>5, RecordFields DEF Fits
  <2>2. /\ Undone(f, er) = SetLineCount(o, er.count)
        /\ UndoneRec(f, er) = RangeDelete(er.count, er.first, er.n, s, FALSE)
    BY <1>5 DEF Undone, UndoneRec
  <2>3. IsStore(i) /\ i.capacity >= f.capacity /\ i.capacity >= er.first + er.n
    BY <2>1, InsertKeeps
  <2>4. i.capacity \in Nat
    BY <2>3 DEF IsStore
  <2> HIDE DEF i
  <2>5. IsStore(o) /\ o.capacity = i.capacity
    BY <2>1, <2>3, OverlayKeeps
  <2>6. s \in [0 .. er.n - 1 -> Content]
    BY <2>1, <2>3, SliceType
  <2> HIDE DEF o, s
  <2>7. LET g == SetLineCount(o, er.count)
        IN  IsStore(g) /\ g.capacity = i.capacity
    <3>1. er.count <= o.capacity
      BY <1>1, <2>1, <2>3, <2>4, <2>5
    <3> QED
      BY <2>1, <2>5, <3>1, SetCountKeeps
  <2>8. LET r == UndoneRec(f, er)
        IN  /\ r \in EditRecs
            /\ r.kind = "del" /\ r.count = er.count /\ r.first = er.first
            /\ r.n = er.n
    <3>1. s \in UNION {[0 .. m - 1 -> Content] : m \in Nat}
      BY <2>1, <2>6
    <3>2. UndoneRec(f, er) =
            [kind |-> "del", count |-> er.count, first |-> er.first, n |-> er.n,
             saved |-> s, applied |-> FALSE]
      BY <2>2 DEF RangeDelete
    <3> QED
      BY <2>1, <2>6, <3>1, <3>2 DEF EditRecs
  <2>9. ~UndoneRec(f, er).applied
    BY <2>2 DEF RangeDelete
  <2>10. LET g == Undone(f, er)
         IN  IsStore(g) /\ g.capacity \in Nat /\ g.capacity >= f.capacity
    BY <1>1, <2>2, <2>3, <2>4, <2>7 DEF IsStore
  <2>11. Fits(UndoneRec(f, er), Undone(f, er))
    BY <1>1, <2>1, <2>8, <2>10 DEF Fits
  <2> QED
    BY <1>5, <2>8, <2>9, <2>10, <2>11
<1> QED
  BY <1>2, <1>3, <1>4, <1>5, RecordFields

\* EditRec::VRedo likewise; a delete it redoes is marked applied.
LEMMA RedoneKeeps ==
  ASSUME NEW f, IsStore(f), NEW er \in EditRecs, Fits(er, f)
  PROVE  LET g == Redone(f, er)
             r == RedoneRec(f, er)
         IN  /\ IsStore(g) /\ g.capacity >= f.capacity
             /\ r \in EditRecs /\ r.kind = er.kind /\ Fits(r, g)
             /\ r.kind = "del" => r.applied
<1>1. /\ f.capacity \in Nat
      /\ f.lineCount \in 0 .. f.capacity
      /\ f.li \in [0 .. f.capacity - 1 -> Content]
  BY DEF IsStore
<1>2. CASE er.kind = "boundary"
  BY <1>1, <1>2 DEF Redone, RedoneRec, Fits
<1>3. CASE er.kind = "alt"
  <2>1. Redone(f, er) = Undone(f, er) /\ RedoneRec(f, er) = UndoneRec(f, er)
    BY <1>3 DEF Redone, RedoneRec, Undone, UndoneRec
  <2>2. LET g == Undone(f, er)
            r == UndoneRec(f, er)
        IN  /\ IsStore(g) /\ g.capacity >= f.capacity
            /\ r \in EditRecs /\ r.kind = er.kind /\ Fits(r, g)
    BY UndoneKeeps
  <2> QED
    BY <1>3, <2>1, <2>2
<1>4. CASE er.kind = "ins"
  <2> DEFINE i == InsertLines(f, er.first, er.n)
  <2>1. /\ er.count \in Nat /\ er.first \in Nat /\ er.n \in Nat \ {0}
        /\ er.count + er.n <= f.capacity
    BY <1>4, RecordFields DEF Fits
  <2>2. Redone(f, er) = SetLineCount(i, er.count + er.n) /\ RedoneRec(f, er) = er
    BY <1>4 DEF Redone, RedoneRec
  <2>3. IsStore(i) /\ i.capacity >= f.capacity
    BY <2>1, InsertKeeps
  <2>4. i.capacity \in Nat
    BY <2>3 DEF IsStore
  <2> HIDE DEF i
  <2>5. LET g == SetLineCount(i, er.count + er.n)
        IN  IsStore(g) /\ g.capacity = i.capacity
    <3>1. er.count + er.n \in Nat /\ er.count + er.n <= i.capacity
      BY <1>1, <2>1, <2>3, <2>4
    <3> QED
      BY <2>3, <3>1, SetCountKeeps
  <2> QED
    BY <1>1, <1>4, <2>1, <2>2, <2>3, <2>4, <2>5 DEF Fits
<1>5. CASE er.kind = "del"
  <2> DEFINE o == Overlay(f, er.first, er.saved)
             d == DeleteLines(o, er.first, er.first + er.n - 1)
             s == Slice(f, er.first, er.n)
  <2>1. /\ er.count \in Nat /\ er.first \in Nat /\ er.n \in Nat \ {0}
        /\ er.saved \in [0 .. er.n - 1 -> Content]
        /\ er.first + er.n <= er.count /\ er.count <= f.capacity
    BY <1>5, RecordFields DEF Fits
  <2>2. /\ Redone(f, er) = SetLineCount(d, er.count - er.n)
        /\ RedoneRec(f, er) = RangeDelete(er.count, er.first, er.n, s, TRUE)
    BY <1>5 DEF Redone, RedoneRec
  <2>3. IsStore(o) /\ o.capacity = f.capacity
    BY <2>1, OverlayKeeps
  <2> HIDE DEF o
  <2>4. er.first + er.n - 1 \in Int
    BY <2>1
  <2>5. IsStore(d) /\ d.capacity = f.capacity
    BY <2>1, <2>3, <2>4, DeleteKeeps
  <2>6. s \in [0 .. er.n - 1 -> Content]
    <3>1. er.first + er.n <= f.capacity
      BY <1>1, <2>1
    <3> QED
      BY <2>1, <3>1, SliceType
  <2> HIDE DEF d, s
  <2>7. LET g == SetLineCount(d, er.count - er.n)
        IN  IsStore(g) /\ g.capacity = f.capacity
    <3>1. er.count - er.n \in Nat /\ er.count - er.n <= d.capacity
      BY <1>1, <2>1, <2>5
    <3> QED
      BY <2>5, <3>1, SetCountKeeps
  <2>8. LET r == RedoneRec(f, er)
        IN  /\ r \in EditRecs
            /\ r.kind = "del" /\ r.count = er.count /\ r.first = er.first
            /\ r.n = er.n
    <3>1. s \in UNION {[0 .. m - 1 -> Content] : m \in Nat}
      BY <2>1, <2>6
    <3>2. RedoneRec(f, er) =
            [kind |-> "del", count |-> er.count, first |-> er.first, n |-> er.n,
             saved |-> s, applied |-> TRUE]
      BY <2>2 DEF RangeDelete
    <3> QED
      BY <2>1, <2>6, <3>1, <3>2 DEF EditRecs
  <2>9. RedoneRec(f, er).applied
    BY <2>2 DEF RangeDelete
  <2>10. LET g == Redone(f, er)
         IN  IsStore(g) /\ g.capacity \in Nat /\ g.capacity >= f.capacity
    BY <1>1, <2>2, <2>7 DEF IsStore
  <2>11. Fits(RedoneRec(f, er), Redone(f, er))
    BY <1>1, <2>1, <2>8, <2>10 DEF Fits
  <2> QED
    BY <1>5, <2>8, <2>9, <2>10, <2>11
<1> QED
  BY <1>2, <1>3, <1>4, <1>5, RecordFields
-----------------------------------------------------------------------------
\* A step that leaves the list alone.
LEMMA SameList ==
  ASSUME IInv, ScalarsOK', UNCHANGED undoVars, Running, pc' = "loop",
         fb'.capacity >= fb.capacity,
         noEdit' => IsBoundary(edits[cur])
  PROVE  IInv'
<1>1. edits' = edits /\ cur' = cur /\ undoCount' = undoCount
  BY DEF undoVars
<1>2. pc \notin {"prune", "undo", "redo"}
  BY DEF Running
<1>3. ListOK'
  BY <1>1 DEF IInv, ListOK
<1>4. RecordsFit'
  <2>1. ASSUME NEW k \in 1 .. Len(edits)
        PROVE  Fits(edits[k], fb')
    <3>1. edits[k] \in EditRecs
      BY DEF IInv, ListOK
    <3>2. Fits(edits[k], fb)
      BY RecordsFitEach DEF IInv
    <3>3. IsStore(fb) /\ IsStore(fb')
      BY DEF IInv, ScalarsOK
    <3> QED
      BY <3>1, <3>2, <3>3, FitsGrow
  <2> QED
    BY <1>1, <2>1 DEF RecordsFit, Fits
<1>5. OldestIsBoundary'
  BY <1>1, <1>2 DEF IInv, OldestIsBoundary
<1>6. UndoneTailIsSealed'
  BY <1>1 DEF IInv, UndoneTailIsSealed, Newest
<1>7. SealedWhereWalksBegin'
  BY <1>1 DEF SealedWhereWalksBegin
<1>8. WalksHaveRoom'
  BY DEF WalksHaveRoom
<1>9. DeletionsOwnTheirLines'
  BY <1>1, <1>2 DEF IInv, DeletionsOwnTheirLines, Applied
<1>10. UndoCountIsBoundaries'
  BY <1>1 DEF IInv, UndoCountIsBoundaries
<1> QED
  BY <1>3, <1>4, <1>5, <1>6, <1>7, <1>8, <1>9, <1>10 DEF IInv

\* A step that adds the record of an edit.
LEMMA GrowList ==
  ASSUME IInv, ScalarsOK', NEW er \in EditRecs, AddEdit(er),
         er.kind # "boundary", er.kind = "del" => er.applied,
         Running, pc' = "loop", ~noEdit',
         Fits(er, fb'), fb'.capacity >= fb.capacity
  PROVE  IInv'
<1>1. /\ edits' \in Seq(EditRecs)
      /\ Len(edits') = cur + 1
      /\ \A k \in 1 .. cur : edits'[k] = edits[k]
      /\ edits'[cur + 1] = er
  BY AppendAfter DEF AddEdit, KeptEdits, IInv, ListOK
<1>2. /\ cur' = cur + 1
      /\ undoCount' = undoCount - Cardinality(BoundariesIn(edits, cur + 1, Len(edits)))
  BY DEF AddEdit, KeptCount
<1>3. cur \in Nat /\ cur >= 1 /\ Len(edits) \in Nat /\ cur <= Len(edits)
  BY DEF IInv, ListOK
<1>4. pc \notin {"prune", "undo", "redo"}
  BY DEF Running
<1>5. ListOK'
  BY <1>1, <1>2, <1>3 DEF ListOK
<1>6. RecordsFit'
  <2>1. ASSUME NEW k \in 1 .. cur
        PROVE  Fits(edits'[k], fb')
    <3>1. k \in 1 .. Len(edits) /\ edits[k] \in EditRecs
      BY <1>3 DEF IInv, ListOK
    <3>2. Fits(edits[k], fb)
      BY <3>1, RecordsFitEach DEF IInv
    <3>3. IsStore(fb) /\ IsStore(fb')
      BY DEF IInv, ScalarsOK
    <3> QED
      BY <1>1, <3>1, <3>2, <3>3, FitsGrow
  <2>2. \A k \in 1 .. Len(edits') : Fits(edits'[k], fb')
    BY <1>1, <1>3, <2>1
  <2> QED
    BY <2>2 DEF RecordsFit, Fits
<1>7. OldestIsBoundary'
  BY <1>1, <1>3, <1>4 DEF IInv, OldestIsBoundary
<1>8. UndoneTailIsSealed'
  BY <1>1, <1>2, <1>3 DEF UndoneTailIsSealed
<1>9. SealedWhereWalksBegin'
  BY DEF SealedWhereWalksBegin
<1>10. WalksHaveRoom'
  BY DEF WalksHaveRoom
<1>11. DeletionsOwnTheirLines'
  <2>1. ASSUME NEW k \in 1 .. cur + 1, edits'[k].kind = "del"
        PROVE  edits'[k].applied
    <3>1. CASE k = cur + 1
      BY <1>1, <2>1, <3>1
    <3>2. CASE k # cur + 1
      BY <1>1, <1>3, <1>4, <2>1, <3>2 DEF IInv, DeletionsOwnTheirLines, Applied
    <3> QED
      BY <3>1, <3>2
  <2> QED
    BY <1>1, <1>2, <1>3, <2>1 DEF DeletionsOwnTheirLines, Applied
<1>12. UndoCountIsBoundaries'
  <2>1. Cardinality(BoundariesIn(edits, 2, Len(edits))) =
          Cardinality(BoundariesIn(edits, 2, cur))
            + Cardinality(BoundariesIn(edits, cur + 1, Len(edits)))
    BY <1>3, SplitBoundaries
  <2>2. BoundariesIn(edits', 2, cur) = BoundariesIn(edits, 2, cur)
    <3>1. \A k \in 2 .. cur : IsBoundary(edits'[k]) <=> IsBoundary(edits[k])
      BY <1>1, <1>3
    <3> QED
      BY <1>3, <3>1, SameBoundaries
  <2>3. ~IsBoundary(edits'[cur + 1])
    BY <1>1 DEF IsBoundary
  <2>4. Cardinality(BoundariesIn(edits', 2, cur + 1)) =
          Cardinality(BoundariesIn(edits', 2, cur))
            + (IF IsBoundary(edits'[cur + 1]) THEN 1 ELSE 0)
    BY <1>3, LastBoundary
  <2>5. /\ Cardinality(BoundariesIn(edits, 2, cur)) \in Nat
        /\ Cardinality(BoundariesIn(edits, cur + 1, Len(edits))) \in Nat
    BY <1>3, BoundariesFinite
  <2>6. undoCount = Cardinality(BoundariesIn(edits, 2, Len(edits)))
    BY DEF IInv, UndoCountIsBoundaries
  <2> QED
    <3>1. undoCount' = Cardinality(BoundariesIn(edits, 2, cur))
      BY <1>2, <2>1, <2>5, <2>6
    <3>2. Cardinality(BoundariesIn(edits', 2, cur + 1)) =
            Cardinality(BoundariesIn(edits, 2, cur))
      BY <2>2, <2>3, <2>4, <2>5
    <3> QED
      BY <1>1, <3>1, <3>2 DEF UndoCountIsBoundaries
<1> QED
  BY <1>5, <1>6, <1>7, <1>8, <1>9, <1>10, <1>11, <1>12 DEF IInv

\* A step from a sealed position that at most renews boundaries: the command
\* loop finding a boundary there, and the start of a walk.
LEMMA SealedList ==
  ASSUME IInv, ScalarsOK', Running, IsBoundary(edits[cur]),
         edits' = edits \/ edits' = [edits EXCEPT ![cur] = Boundary(dirty, lastFileStat)],
         UNCHANGED <<fb, cur, undoCount, noEdit>>,
         pc' \in {"fetched", "undo", "redo"}, WalksHaveRoom'
  PROVE  IInv'
<1>1. cur \in 1 .. Len(edits) /\ edits \in Seq(EditRecs)
  BY DEF IInv, ListOK
<1>2. Boundary(dirty, lastFileStat) \in EditRecs /\ IsBoundary(Boundary(dirty, lastFileStat))
  BY BoundaryFields DEF IInv, ScalarsOK
<1>3. /\ edits' \in Seq(EditRecs)
      /\ Len(edits') = Len(edits)
      /\ \A k \in 1 .. Len(edits) : k # cur => edits'[k] = edits[k]
      /\ IsBoundary(edits'[cur])
      /\ BoundariesIn(edits', 2, Len(edits')) = BoundariesIn(edits, 2, Len(edits))
  <2>1. CASE edits' = edits
    BY <1>1, <2>1
  <2>2. CASE edits' = [edits EXCEPT ![cur] = Boundary(dirty, lastFileStat)]
    <3> DEFINE b == Boundary(dirty, lastFileStat)
               t == [edits EXCEPT ![cur] = b]
    <3>1. b \in EditRecs /\ b.kind = edits[cur].kind /\ IsBoundary(b)
      BY <1>2 DEF IsBoundary
    <3>2. edits' = t
      BY <2>2
    <3> HIDE DEF b
    <3>3. /\ t \in Seq(EditRecs)
          /\ Len(t) = Len(edits)
          /\ \A k \in 1 .. Len(edits) : k # cur => t[k] = edits[k]
          /\ t[cur] = b
          /\ BoundariesIn(t, 2, Len(t)) = BoundariesIn(edits, 2, Len(edits))
      BY <1>1, <3>1, RenewRecord
    <3> HIDE DEF t
    <3> QED
      BY <3>1, <3>2, <3>3
  <2> QED
    BY <2>1, <2>2
<1>4. ListOK'
  BY <1>1, <1>3 DEF ListOK
<1>5. RecordsFit'
  <2>1. ASSUME NEW k \in 1 .. Len(edits)
        PROVE  Fits(edits'[k], fb)
    <3>1. Fits(edits[k], fb)
      BY RecordsFitEach DEF IInv
    <3> QED
      BY <1>3, <3>1, BoundaryFits
  <2> QED
    BY <1>3, <2>1 DEF RecordsFit, Fits
<1>6. OldestIsBoundary'
  BY <1>1, <1>3 DEF IInv, OldestIsBoundary, Running
<1>7. UndoneTailIsSealed'
  BY <1>1, <1>3 DEF IInv, UndoneTailIsSealed, Newest
<1>8. SealedWhereWalksBegin'
  BY <1>3 DEF SealedWhereWalksBegin, IsTip, Newest
<1>9. DeletionsOwnTheirLines'
  <2>1. ASSUME NEW k \in 1 .. Len(edits), edits'[k].kind = "del"
        PROVE  edits'[k].applied <=> k < cur
    <3>1. k # cur
      BY <1>3, <2>1 DEF IsBoundary
    <3>2. edits'[k] = edits[k] /\ (Applied(k) <=> k < cur)
      BY <1>1, <1>3, <3>1 DEF Applied, Running
    <3> QED
      BY <2>1, <3>2 DEF IInv, DeletionsOwnTheirLines
  <2>2. ASSUME NEW k \in 1 .. Len(edits), edits'[k].kind = "del"
        PROVE  k < cur <=> Applied(k)'
    <3>1. k # cur
      BY <1>3, <2>2 DEF IsBoundary
    <3> QED
      BY <1>1, <3>1 DEF Applied
  <2> QED
    BY <1>3, <2>1, <2>2 DEF DeletionsOwnTheirLines
<1>10. UndoCountIsBoundaries'
  BY <1>3 DEF IInv, UndoCountIsBoundaries
<1> QED
  BY <1>4, <1>5, <1>6, <1>7, <1>8, <1>9, <1>10 DEF IInv

\* FBUF::UndoInsBoundary
LEMMA UndoInsBoundaryKeeps ==
  ASSUME IInv, UndoInsBoundary
  PROVE  IInv'
<1> DEFINE b == Boundary(dirty, lastFileStat)
<1>1. b \in EditRecs /\ IsBoundary(b) /\ b.kind = "boundary"
  BY BoundaryFields DEF IInv, ScalarsOK
<1>2. cur \in 1 .. Len(edits) /\ edits \in Seq(EditRecs)
  BY DEF IInv, ListOK
<1>3. pc = "loop" /\ Running /\ UNCHANGED <<fb, maxUndo, noEdit, dirty, lastFileStat, disk, clock>>
  BY DEF UndoInsBoundary, Running
<1>4. ScalarsOK'
  BY <1>3 DEF UndoInsBoundary, IInv, ScalarsOK
<1>5. CASE noEdit
  <2>1. pc' = "fetched" /\ UNCHANGED <<edits, cur, undoCount>>
    BY <1>5 DEF UndoInsBoundary, undoVars
  <2>2. IsBoundary(edits[cur])
    BY <1>3, <1>5 DEF IInv, SealedWhereWalksBegin
  <2> QED
    BY <1>3, <1>4, <2>1, <2>2, SealedList DEF WalksHaveRoom
<1>6. CASE ~noEdit /\ IsBoundary(edits[cur])
  <2>1. /\ pc' = "fetched" /\ UNCHANGED <<cur, undoCount>>
        /\ edits' = [edits EXCEPT ![cur] = b]
    BY <1>6 DEF UndoInsBoundary
  <2> QED
    BY <1>3, <1>4, <1>6, <2>1, SealedList DEF WalksHaveRoom
<1>7. CASE ~noEdit /\ ~IsBoundary(edits[cur])
  <2>1. /\ edits' = Append(SubSeq(edits, 1, cur), b)
        /\ cur' = cur + 1
        /\ undoCount' = undoCount
                          - Cardinality(BoundariesIn(edits, cur + 1, Len(edits))) + 1
        /\ pc' = "prune"
    BY <1>7 DEF UndoInsBoundary, KeptEdits, KeptCount
  <2> HIDE DEF b
  <2>2. /\ edits' \in Seq(EditRecs)
        /\ Len(edits') = cur + 1
        /\ \A k \in 1 .. cur : edits'[k] = edits[k]
        /\ edits'[cur + 1] = b
    BY <1>1, <1>2, <2>1, AppendAfter
  <2>3. cur \in Nat /\ cur >= 1 /\ Len(edits) \in Nat /\ cur <= Len(edits)
    BY <1>2
  <2>4. ListOK'
    BY <2>1, <2>2, <2>3 DEF ListOK
  <2>5. RecordsFit'
    <3>1. ASSUME NEW k \in 1 .. cur + 1
          PROVE  Fits(edits'[k], fb)
      <4>1. CASE k = cur + 1
        BY <1>1, <2>2, <4>1, BoundaryFits
      <4>2. CASE k # cur + 1
        <5>1. k \in 1 .. Len(edits) /\ edits'[k] = edits[k]
          BY <2>2, <2>3, <4>2
        <5> QED
          BY <5>1, RecordsFitEach DEF IInv
      <4> QED
        BY <4>1, <4>2
    <3> QED
      BY <1>3, <2>2, <3>1 DEF RecordsFit, Fits
  <2>6. OldestIsBoundary'
    BY <2>1 DEF OldestIsBoundary
  <2>7. UndoneTailIsSealed'
    BY <2>1, <2>2, <2>3 DEF UndoneTailIsSealed
  <2>8. SealedWhereWalksBegin'
    <3>1. IsBoundary(edits'[1])
      BY <1>3, <2>2, <2>3 DEF IInv, OldestIsBoundary
    <3> QED
      BY <1>1, <1>3, <1>7, <2>1, <2>2, <3>1 DEF SealedWhereWalksBegin, IsTip, Newest
  <2>9. WalksHaveRoom'
    BY <2>1 DEF WalksHaveRoom
  <2>10. DeletionsOwnTheirLines'
    <3>1. ASSUME NEW k \in 1 .. cur + 1, edits'[k].kind = "del"
          PROVE  edits'[k].applied
      <4>1. k \in 1 .. cur /\ edits'[k] = edits[k] /\ k \in 1 .. Len(edits)
        BY <1>1, <2>2, <2>3, <3>1
      <4> QED
        BY <1>3, <3>1, <4>1 DEF IInv, DeletionsOwnTheirLines, Applied
    <3> QED
      BY <2>1, <2>2, <2>3, <3>1 DEF DeletionsOwnTheirLines, Applied
  <2>11. UndoCountIsBoundaries'
    <3>1. Cardinality(BoundariesIn(edits, 2, Len(edits))) =
            Cardinality(BoundariesIn(edits, 2, cur))
              + Cardinality(BoundariesIn(edits, cur + 1, Len(edits)))
      BY <2>3, SplitBoundaries
    <3>2. BoundariesIn(edits', 2, cur) = BoundariesIn(edits, 2, cur)
      <4>1. \A k \in 2 .. cur : IsBoundary(edits'[k]) <=> IsBoundary(edits[k])
        BY <2>2, <2>3
      <4> QED
        BY <2>3, <4>1, SameBoundaries
    <3>3. Cardinality(BoundariesIn(edits', 2, cur + 1)) =
            Cardinality(BoundariesIn(edits', 2, cur))
              + (IF IsBoundary(edits'[cur + 1]) THEN 1 ELSE 0)
      BY <2>3, LastBoundary
    <3>4. /\ Cardinality(BoundariesIn(edits, 2, cur)) \in Nat
          /\ Cardinality(BoundariesIn(edits, cur + 1, Len(edits))) \in Nat
      BY <2>3, BoundariesFinite
    <3>5. undoCount = Cardinality(BoundariesIn(edits, 2, Len(edits)))
      BY DEF IInv, UndoCountIsBoundaries
    <3>6. undoCount' = Cardinality(BoundariesIn(edits, 2, cur)) + 1
      BY <2>1, <3>1, <3>4, <3>5
    <3>7. Cardinality(BoundariesIn(edits', 2, cur + 1)) =
            Cardinality(BoundariesIn(edits, 2, cur)) + 1
      BY <1>1, <2>2, <3>2, <3>3
    <3> QED
      BY <2>2, <3>6, <3>7 DEF UndoCountIsBoundaries
  <2> QED
    BY <1>4, <2>4, <2>5, <2>6, <2>7, <2>8, <2>9, <2>10, <2>11 DEF IInv
<1> QED
  BY <1>5, <1>6, <1>7

\* FBUF::UndoInsBoundary's while, one test of it.
LEMMA PruneStepKeeps ==
  ASSUME IInv, PruneStep
  PROVE  IInv'
<1>1. /\ edits \in Seq(EditRecs) /\ cur \in 1 .. Len(edits)
      /\ cur = Len(edits) /\ IsBoundary(edits[cur]) /\ ~noEdit
      /\ IsBoundary(edits[1]) \/ undoCount > maxUndo
  BY DEF PruneStep, IInv, ListOK, SealedWhereWalksBegin, IsTip, Newest
<1>2. /\ pc = "prune"
      /\ UNCHANGED <<fb, maxUndo, noEdit, dirty, lastFileStat, disk, clock>>
      /\ maxUndo \in Nat
  BY DEF PruneStep, IInv, ScalarsOK
<1>3. undoCount = Cardinality(BoundariesIn(edits, 2, Len(edits))) /\ undoCount \in Nat
  BY <1>1, BoundariesFinite DEF IInv, UndoCountIsBoundaries
<1>4. ScalarsOK'
  BY <1>2 DEF PruneStep, IInv, ScalarsOK
<1>5. CASE ~(undoCount > maxUndo)
  <2>1. pc' = "fetched" /\ edits' = edits /\ cur' = cur /\ undoCount' = undoCount
    BY <1>5 DEF PruneStep, undoVars
  <2>2. ListOK' /\ RecordsFit' /\ UndoneTailIsSealed' /\ UndoCountIsBoundaries'
    BY <1>2, <2>1 DEF IInv, ListOK, RecordsFit, UndoneTailIsSealed, Newest,
                      UndoCountIsBoundaries
  <2>3. OldestIsBoundary' /\ SealedWhereWalksBegin' /\ WalksHaveRoom'
    BY <1>1, <1>2, <1>5, <2>1 DEF OldestIsBoundary, SealedWhereWalksBegin, WalksHaveRoom
  <2>4. DeletionsOwnTheirLines'
    BY <1>2, <2>1 DEF IInv, DeletionsOwnTheirLines, Applied
  <2> QED
    BY <1>4, <2>2, <2>3, <2>4 DEF IInv
<1>6. CASE undoCount > maxUndo
  <2>1. /\ pc' = "prune" /\ edits' = Tail(edits) /\ cur' = cur - 1
        /\ undoCount' = IF IsBoundary(edits[2]) THEN undoCount - 1 ELSE undoCount
    BY <1>2, <1>6 DEF PruneStep
  <2>2. Len(edits) > 1
    <3>1. SUFFICES ASSUME Len(edits) = 1
                   PROVE  FALSE
      BY <1>1
    <3>2. BoundariesIn(edits, 2, Len(edits)) = {}
      BY <3>1 DEF BoundariesIn
    <3> QED
      <4>1. undoCount = 0
        BY <1>3, <3>2, FS_EmptySet
      <4> QED
        BY <1>2, <1>6, <4>1
  <2>3. /\ edits' \in Seq(EditRecs)
        /\ Len(edits') = Len(edits) - 1
        /\ \A k \in 1 .. Len(edits) - 1 : edits'[k] = edits[k + 1]
    BY <1>1, <2>1, <2>2, DropOldest
  <2>4. Len(edits) \in Nat
    BY <1>1
  <2>5. ListOK'
    BY <1>1, <2>1, <2>2, <2>3, <2>4 DEF ListOK
  <2>6. RecordsFit'
    <3>1. ASSUME NEW k \in 1 .. Len(edits) - 1
          PROVE  Fits(edits'[k], fb)
      <4>1. k + 1 \in 1 .. Len(edits) /\ edits'[k] = edits[k + 1]
        BY <2>3, <2>4
      <4> QED
        BY <4>1, RecordsFitEach DEF IInv
    <3> QED
      BY <1>2, <2>3, <3>1 DEF RecordsFit, Fits
  <2>7. OldestIsBoundary' /\ WalksHaveRoom'
    BY <2>1 DEF OldestIsBoundary, WalksHaveRoom
  <2>8. UndoneTailIsSealed'
    BY <1>1, <2>1, <2>3, <2>4 DEF UndoneTailIsSealed
  <2>9. SealedWhereWalksBegin'
    <3>1. cur' = Len(edits') /\ edits'[Len(edits')] = edits[cur]
      BY <1>1, <2>1, <2>2, <2>3, <2>4
    <3>2. IsBoundary(edits'[1]) \/ undoCount' > maxUndo
      <4>1. edits'[1] = edits[2]
        BY <2>2, <2>3, <2>4
      <4> QED
        BY <1>6, <2>1, <4>1
    <3> QED
      BY <1>1, <1>2, <2>1, <3>1, <3>2 DEF SealedWhereWalksBegin, IsTip, Newest
  <2>10. DeletionsOwnTheirLines'
    <3>1. ASSUME NEW k \in 1 .. Len(edits) - 1, edits'[k].kind = "del"
          PROVE  edits'[k].applied
      <4>1. k + 1 \in 1 .. Len(edits) /\ edits'[k] = edits[k + 1] /\ k + 1 <= cur
        BY <1>1, <2>3, <2>4
      <4> QED
        BY <1>2, <3>1, <4>1 DEF IInv, DeletionsOwnTheirLines, Applied
    <3> QED
      BY <1>1, <2>1, <2>3, <2>4, <3>1 DEF DeletionsOwnTheirLines, Applied
  <2>11. UndoCountIsBoundaries'
    <3>1. Cardinality(BoundariesIn(Tail(edits), 2, Len(edits) - 1)) =
            Cardinality(BoundariesIn(edits, 2, Len(edits)))
              - (IF IsBoundary(edits[2]) THEN 1 ELSE 0)
      BY <1>1, <2>2, DropCounts
    <3>2. undoCount' = Cardinality(BoundariesIn(Tail(edits), 2, Len(edits) - 1))
      BY <1>3, <2>1, <3>1
    <3> QED
      BY <2>1, <2>3, <3>2 DEF UndoCountIsBoundaries
  <2> QED
    BY <1>4, <2>5, <2>6, <2>7, <2>8, <2>9, <2>10, <2>11 DEF IInv
<1> QED
  BY <1>5, <1>6

\* What a step of either walk does to the list: record cur is replaced by its
\* undone or redone self, and the position moves one record on.
LEMMA WalkedList ==
  ASSUME IInv, NEW r \in EditRecs, r.kind = edits[cur].kind,
         edits' = [edits EXCEPT ![cur] = r], undoCount' = undoCount,
         IsStore(fb'), fb'.capacity >= fb.capacity, Fits(r, fb')
  PROVE  /\ edits' \in Seq(EditRecs)
         /\ Len(edits') = Len(edits)
         /\ edits'[cur] = r
         /\ \A k \in 1 .. Len(edits) : k # cur => edits'[k] = edits[k]
         /\ \A k \in 1 .. Len(edits) : IsBoundary(edits'[k]) <=> IsBoundary(edits[k])
         /\ RecordsFit'
         /\ UndoCountIsBoundaries'
<1>1. edits \in Seq(EditRecs) /\ cur \in 1 .. Len(edits)
  BY DEF IInv, ListOK
<1>2. /\ edits' \in Seq(EditRecs)
      /\ Len(edits') = Len(edits)
      /\ \A k \in 1 .. Len(edits) : k # cur => edits'[k] = edits[k]
      /\ edits'[cur] = r
      /\ \A k \in 1 .. Len(edits) : edits'[k].kind = edits[k].kind
      /\ BoundariesIn(edits', 2, Len(edits')) = BoundariesIn(edits, 2, Len(edits))
  <2> DEFINE t == [edits EXCEPT ![cur] = r]
  <2>1. /\ t \in Seq(EditRecs)
        /\ Len(t) = Len(edits)
        /\ \A k \in 1 .. Len(edits) : k # cur => t[k] = edits[k]
        /\ t[cur] = r
        /\ \A k \in 1 .. Len(edits) : t[k].kind = edits[k].kind
        /\ BoundariesIn(t, 2, Len(t)) = BoundariesIn(edits, 2, Len(edits))
    BY <1>1, RenewRecord
  <2>2. edits' = t
    OBVIOUS
  <2> HIDE DEF t
  <2> QED
    BY <2>1, <2>2
<1>3. \A k \in 1 .. Len(edits) : IsBoundary(edits'[k]) <=> IsBoundary(edits[k])
  BY <1>2 DEF IsBoundary
<1>4. RecordsFit'
  <2>1. ASSUME NEW k \in 1 .. Len(edits), k # cur
        PROVE  Fits(edits'[k], fb')
    <3>1. edits[k] \in EditRecs /\ Fits(edits[k], fb)
      BY <1>1, RecordsFitEach DEF IInv
    <3>2. IsStore(fb)
      BY DEF IInv, ScalarsOK
    <3> QED
      BY <1>2, <2>1, <3>1, <3>2, FitsGrow
  <2>2. \A k \in 1 .. Len(edits) : Fits(edits'[k], fb')
    BY <1>2, <2>1
  <2> QED
    BY <1>2, <2>2 DEF RecordsFit, Fits
<1>5. UndoCountIsBoundaries'
  BY <1>2 DEF IInv, UndoCountIsBoundaries
<1> QED
  BY <1>2, <1>3, <1>4, <1>5

\* Arriving at a record keeps the types and ends the walk at a boundary.
LEMMA ArriveKeeps ==
  ASSUME NEW at \in 1 .. Len(edits'), NEW dirtied \in BOOLEAN, Arrive(at, dirtied),
         edits' \in Seq(EditRecs), dirty \in BOOLEAN
  PROVE  /\ cur' = at
         /\ dirty' \in BOOLEAN
         /\ IsBoundary(edits'[at]) => pc' = "loop"
         /\ ~IsBoundary(edits'[at]) => pc' = pc
<1>1. cur' = at /\ IsBoundary(edits'[at]) => pc' = "loop"
  BY DEF Arrive
<1>2. ~IsBoundary(edits'[at]) => pc' = pc /\ dirty' = (dirty \/ dirtied)
  BY DEF Arrive
<1>3. IsBoundary(edits'[at]) =>
        pc' = "loop" /\ dirty' = (edits'[at].dirty \/ edits'[at].stat # lastFileStat)
  BY DEF Arrive
<1>4. dirty' \in BOOLEAN
  <2>1. CASE ~IsBoundary(edits'[at])
    BY <1>2, <2>1
  <2>2. CASE IsBoundary(edits'[at])
    BY <1>3, <2>2
  <2> QED
    BY <2>1, <2>2
<1> QED
  BY <1>2, <1>3, <1>4 DEF Arrive

\* FBUF::Undo_EdOpUndo
LEMMA EdOpUndoKeeps ==
  ASSUME IInv, EdOpUndo
  PROVE  IInv'
<1> DEFINE r == UndoneRec(fb, edits[cur])
           d == UndoDirties(fb, edits[cur])
<1>1. /\ edits \in Seq(EditRecs) /\ cur \in 1 .. Len(edits) /\ pc = "undo"
      /\ IsStore(fb) /\ edits[cur] \in EditRecs /\ Fits(edits[cur], fb)
      /\ dirty \in BOOLEAN
  BY RecordsFitEach DEF EdOpUndo, IInv, ListOK, ScalarsOK
<1>2. /\ fb' = Undone(fb, edits[cur])
      /\ edits' = [edits EXCEPT ![cur] = r]
      /\ Arrive(cur - 1, d)
      /\ UNCHANGED <<undoCount, maxUndo, noEdit, lastFileStat, disk, clock>>
  BY DEF EdOpUndo
<1>3. d \in BOOLEAN
  BY DEF UndoDirties
<1>4. /\ IsStore(fb') /\ fb'.capacity >= fb.capacity
      /\ r \in EditRecs /\ r.kind = edits[cur].kind /\ Fits(r, fb')
      /\ r.kind = "del" => ~r.applied
  BY <1>1, <1>2, UndoneKeeps
<1> HIDE DEF r, d
<1>5. /\ edits' \in Seq(EditRecs)
      /\ Len(edits') = Len(edits)
      /\ edits'[cur] = r
      /\ \A k \in 1 .. Len(edits) : k # cur => edits'[k] = edits[k]
      /\ \A k \in 1 .. Len(edits) : IsBoundary(edits'[k]) <=> IsBoundary(edits[k])
      /\ RecordsFit'
      /\ UndoCountIsBoundaries'
  BY <1>2, <1>4, WalkedList
<1>6. cur - 1 \in 1 .. Len(edits) /\ cur > 1 /\ Len(edits) \in Nat
  BY <1>1 DEF IInv, WalksHaveRoom
<1>7. /\ cur' = cur - 1
      /\ dirty' \in BOOLEAN
      /\ IsBoundary(edits'[cur - 1]) => pc' = "loop"
      /\ ~IsBoundary(edits'[cur - 1]) => pc' = "undo"
  BY <1>1, <1>2, <1>3, <1>5, <1>6, ArriveKeeps
<1>8. ScalarsOK'
  BY <1>2, <1>4, <1>7 DEF IInv, ScalarsOK
<1>9. ListOK'
  BY <1>5, <1>6, <1>7 DEF ListOK
<1>10. OldestIsBoundary'
  BY <1>1, <1>5, <1>6 DEF IInv, OldestIsBoundary
<1>11. UndoneTailIsSealed'
  <2>1. IsBoundary(edits[Len(edits)])
    BY <1>1 DEF IInv, UndoneTailIsSealed, SealedWhereWalksBegin, IsTip, Newest
  <2> QED
    BY <1>5, <1>6, <2>1 DEF UndoneTailIsSealed, Newest
<1>12. SealedWhereWalksBegin'
  BY <1>1, <1>5, <1>6, <1>7 DEF SealedWhereWalksBegin, IsTip, Newest
<1>13. WalksHaveRoom'
  <2>1. IsBoundary(edits'[1])
    BY <1>1, <1>5, <1>6 DEF IInv, OldestIsBoundary
  <2> QED
    BY <1>6, <1>7, <2>1 DEF WalksHaveRoom
<1>14. DeletionsOwnTheirLines'
  <2>1. ASSUME NEW k \in 1 .. Len(edits), edits'[k].kind = "del"
        PROVE  edits'[k].applied <=> k <= cur - 1
    <3>1. CASE k = cur
      BY <1>1, <1>4, <1>5, <2>1, <3>1
    <3>2. CASE k # cur
      <4>1. edits[k].kind = "del" /\ edits'[k] = edits[k]
        BY <1>5, <2>1, <3>2
      <4>2. edits[k].applied <=> k <= cur
        BY <1>1, <4>1 DEF IInv, DeletionsOwnTheirLines, Applied
      <4> QED
        BY <1>1, <3>2, <4>1, <4>2
    <3> QED
      BY <3>1, <3>2
  <2> QED
    BY <1>5, <1>7, <2>1 DEF DeletionsOwnTheirLines, Applied
<1> QED
  BY <1>5, <1>8, <1>9, <1>10, <1>11, <1>12, <1>13, <1>14 DEF IInv

\* FBUF::Undo_EdOpRedo
LEMMA EdOpRedoKeeps ==
  ASSUME IInv, EdOpRedo
  PROVE  IInv'
<1> DEFINE r == RedoneRec(fb, edits[cur])
           d == RedoDirties(fb, edits[cur])
<1>1. /\ edits \in Seq(EditRecs) /\ cur \in 1 .. Len(edits) /\ pc = "redo"
      /\ IsStore(fb) /\ edits[cur] \in EditRecs /\ Fits(edits[cur], fb)
      /\ dirty \in BOOLEAN
  BY RecordsFitEach DEF EdOpRedo, IInv, ListOK, ScalarsOK
<1>2. /\ fb' = Redone(fb, edits[cur])
      /\ edits' = [edits EXCEPT ![cur] = r]
      /\ Arrive(cur + 1, d)
      /\ UNCHANGED <<undoCount, maxUndo, noEdit, lastFileStat, disk, clock>>
  BY DEF EdOpRedo
<1>3. d \in BOOLEAN
  BY DEF RedoDirties
<1>4. /\ IsStore(fb') /\ fb'.capacity >= fb.capacity
      /\ r \in EditRecs /\ r.kind = edits[cur].kind /\ Fits(r, fb')
      /\ r.kind = "del" => r.applied
  BY <1>1, <1>2, RedoneKeeps
<1> HIDE DEF r, d
<1>5. /\ edits' \in Seq(EditRecs)
      /\ Len(edits') = Len(edits)
      /\ edits'[cur] = r
      /\ \A k \in 1 .. Len(edits) : k # cur => edits'[k] = edits[k]
      /\ \A k \in 1 .. Len(edits) : IsBoundary(edits'[k]) <=> IsBoundary(edits[k])
      /\ RecordsFit'
      /\ UndoCountIsBoundaries'
  BY <1>2, <1>4, WalkedList
<1>6. cur + 1 \in 1 .. Len(edits) /\ cur < Len(edits) /\ Len(edits) \in Nat
  BY <1>1 DEF IInv, WalksHaveRoom
<1>7. /\ cur' = cur + 1
      /\ dirty' \in BOOLEAN
      /\ IsBoundary(edits'[cur + 1]) => pc' = "loop"
      /\ ~IsBoundary(edits'[cur + 1]) => pc' = "redo"
  BY <1>1, <1>2, <1>3, <1>5, <1>6, ArriveKeeps
<1>8. ScalarsOK'
  BY <1>2, <1>4, <1>7 DEF IInv, ScalarsOK
<1>9. ListOK'
  BY <1>5, <1>6, <1>7 DEF ListOK
<1>10. OldestIsBoundary'
  BY <1>1, <1>5, <1>6 DEF IInv, OldestIsBoundary
<1>11. IsBoundary(edits'[Len(edits')])
  BY <1>5, <1>6 DEF IInv, UndoneTailIsSealed, Newest
<1>12. UndoneTailIsSealed'
  BY <1>11 DEF UndoneTailIsSealed, Newest
<1>13. SealedWhereWalksBegin'
  BY <1>1, <1>7 DEF SealedWhereWalksBegin
<1>14. WalksHaveRoom'
  BY <1>5, <1>6, <1>7, <1>11 DEF WalksHaveRoom
<1>15. DeletionsOwnTheirLines'
  <2>1. ASSUME NEW k \in 1 .. Len(edits), edits'[k].kind = "del"
        PROVE  edits'[k].applied <=> k <= cur
    <3>1. CASE k = cur
      BY <1>1, <1>4, <1>5, <2>1, <3>1
    <3>2. CASE k # cur
      <4>1. edits[k].kind = "del" /\ edits'[k] = edits[k]
        BY <1>5, <2>1, <3>2
      <4>2. edits[k].applied <=> k < cur
        BY <1>1, <3>2, <4>1 DEF IInv, DeletionsOwnTheirLines, Applied
      <4> QED
        BY <1>1, <3>2, <4>1, <4>2
    <3> QED
      BY <3>1, <3>2
  <2>2. ASSUME NEW k \in 1 .. Len(edits), edits'[k].kind = "del"
        PROVE  Applied(k)' <=> k <= cur
    <3>1. ~IsBoundary(edits'[k])
      BY <2>2 DEF IsBoundary
    <3>2. CASE IsBoundary(edits'[cur + 1])
      BY <1>1, <1>7, <3>1, <3>2 DEF Applied
    <3>3. CASE ~IsBoundary(edits'[cur + 1])
      BY <1>1, <1>7, <3>1, <3>3 DEF Applied
    <3> QED
      BY <3>2, <3>3
  <2> QED
    BY <1>5, <2>1, <2>2 DEF DeletionsOwnTheirLines
<1> QED
  BY <1>5, <1>8, <1>9, <1>10, <1>12, <1>13, <1>14, <1>15 DEF IInv
-----------------------------------------------------------------------------
\* FBUF::PutLineRaw
LEMMA PutLineKeeps ==
  ASSUME IInv, NEW y \in 0 .. MaxLine, NEW c \in Content, PutLine(y, c)
  PROVE  IInv'
<1> DEFINE wide  == LineInfoReserve(fb, y + 1)
           grown == IF fb.lineCount < y + 1 THEN SetLineCount(wide, y + 1) ELSE fb
           er    == AltLine(grown.lineCount, y, grown.li[y])
<1>1. /\ Running /\ ~noEdit /\ dirty' = TRUE /\ pc' = "loop"
      /\ fb' = [grown EXCEPT !.li[y] = c]
      /\ IF IsAltContentOfLine(Newest, y)
           THEN UNCHANGED undoVars ELSE ListHasRoom /\ AddEdit(er)
      /\ UNCHANGED <<maxUndo, noEdit, lastFileStat, disk, clock>>
  BY DEF PutLine, MayEdit
<1>2. y \in Nat /\ y + 1 \in Nat /\ IsStore(fb)
  BY BoundsAssumption DEF IInv, ScalarsOK
<1>3. fb.capacity \in Nat /\ fb.lineCount \in 0 .. fb.capacity
  BY <1>2 DEF IsStore
<1>4. /\ IsStore(wide) /\ wide.lineCount = fb.lineCount
      /\ wide.capacity >= fb.capacity /\ wide.capacity >= y + 1
  BY <1>2, ReserveKeeps
<1> HIDE DEF wide
<1>5. /\ IsStore(grown) /\ grown.capacity >= fb.capacity
      /\ y < grown.lineCount
  <2>1. CASE fb.lineCount < y + 1
    <3>1. LET g == SetLineCount(wide, y + 1)
          IN  IsStore(g) /\ g.capacity = wide.capacity /\ g.lineCount = y + 1
      BY <1>2, <1>4, SetCountKeeps
    <3> QED
      BY <1>2, <1>4, <2>1, <3>1
  <2>2. CASE ~(fb.lineCount < y + 1)
    BY <1>2, <1>3, <2>2
  <2> QED
    BY <2>1, <2>2
<1> HIDE DEF grown
<1>6. /\ grown.capacity \in Nat /\ grown.lineCount \in 0 .. grown.capacity
      /\ grown.li[y] \in Content
  BY <1>2, <1>5 DEF IsStore
<1>7. LET g == [grown EXCEPT !.li[y] = c]
      IN  IsStore(g) /\ g.capacity = grown.capacity
  BY <1>2, <1>5, SetEntryKeeps
<1>8. IsStore(fb') /\ fb'.capacity = grown.capacity
  BY <1>1, <1>7
<1>9. ScalarsOK'
  BY <1>1, <1>8 DEF IInv, ScalarsOK
<1>10. CASE IsAltContentOfLine(Newest, y)
  BY <1>1, <1>5, <1>8, <1>9, <1>10, SameList
<1>11. CASE ~IsAltContentOfLine(Newest, y)
  <2>1. AddEdit(er)
    BY <1>1, <1>11
  <2>2. /\ er \in EditRecs
        /\ er.kind = "alt" /\ er.count = grown.lineCount /\ er.line = y
    <3>1. grown.lineCount \in Nat
      BY <1>6
    <3> QED
      BY <1>2, <1>6, <3>1, AltLineFields
  <2> HIDE DEF er
  <2>3. Fits(er, fb')
    BY <1>2, <1>5, <1>6, <1>8, <2>2 DEF Fits
  <2> QED
    BY <1>1, <1>5, <1>8, <1>9, <2>1, <2>2, <2>3, GrowList
<1> QED
  BY <1>10, <1>11

\* FBUF::InsBlankLinesBefore
LEMMA InsBlankLinesKeeps ==
  ASSUME IInv, NEW y \in 0 .. MaxLine, NEW n \in 1 .. MaxInsert,
         InsBlankLinesBefore(y, n)
  PROVE  IInv'
<1> DEFINE er == RangeInsert(fb.lineCount, y, n)
<1>1. /\ Running /\ ~noEdit /\ pc' = "loop"
      /\ fb' = InsertLines(fb, y, n)
      /\ UNCHANGED <<maxUndo, noEdit, lastFileStat, disk, clock>>
  BY DEF InsBlankLinesBefore, MayEdit
<1>2. y \in Nat /\ n \in Nat \ {0} /\ IsStore(fb)
  BY BoundsAssumption DEF IInv, ScalarsOK
<1>3. fb.capacity \in Nat /\ fb.lineCount \in 0 .. fb.capacity
  BY <1>2 DEF IsStore
<1>4. /\ IsStore(fb') /\ fb'.capacity >= fb.capacity
      /\ y < fb.lineCount => fb'.capacity >= fb.lineCount + n
  BY <1>1, <1>2, InsertKeeps
<1>5. CASE fb.lineCount <= y
  <2>1. dirty' = dirty /\ UNCHANGED undoVars
    BY <1>5 DEF InsBlankLinesBefore
  <2>2. ScalarsOK'
    BY <1>1, <1>4, <2>1 DEF IInv, ScalarsOK
  <2> QED
    BY <1>1, <1>4, <2>1, <2>2, SameList
<1>6. CASE ~(fb.lineCount <= y)
  <2>1. dirty' = TRUE /\ AddEdit(er)
    BY <1>6 DEF InsBlankLinesBefore
  <2>2. ScalarsOK'
    BY <1>1, <1>4, <2>1 DEF IInv, ScalarsOK
  <2>3. /\ er \in EditRecs
        /\ er.kind = "ins" /\ er.count = fb.lineCount /\ er.n = n
    BY <1>2, <1>3, RangeInsertFields
  <2> HIDE DEF er
  <2>4. Fits(er, fb')
    BY <1>2, <1>3, <1>4, <1>6, <2>3 DEF Fits
  <2> QED
    BY <1>1, <1>4, <2>1, <2>2, <2>3, <2>4, GrowList
<1> QED
  BY <1>5, <1>6

\* FBUF::DelLines
LEMMA DelLinesKeeps ==
  ASSUME IInv, NEW first \in 0 .. MaxLine, NEW asked \in 0 .. MaxLine,
         DelLines(first, asked)
  PROVE  IInv'
<1> DEFINE last == IF asked > LastLine(fb) THEN LastLine(fb) ELSE asked
           n    == last - first + 1
           s    == Slice(fb, first, n)
           er   == RangeDelete(fb.lineCount, first, n, s, TRUE)
<1>1. /\ Running /\ ~noEdit /\ dirty' = TRUE /\ pc' = "loop"
      /\ first <= LastLine(fb) /\ first <= asked
      /\ AddEdit(er)
      /\ fb' = DeleteLines(fb, first, asked)
      /\ UNCHANGED <<maxUndo, noEdit, lastFileStat, disk, clock>>
  BY DEF DelLines, MayEdit
<1>2. first \in Nat /\ asked \in Nat /\ IsStore(fb)
  BY BoundsAssumption DEF IInv, ScalarsOK
<1>3. /\ fb.capacity \in Nat /\ fb.lineCount \in 0 .. fb.capacity
      /\ LastLine(fb) = fb.lineCount - 1
  BY <1>2 DEF IsStore, LastLine
<1>4. last \in first .. LastLine(fb)
  BY <1>1, <1>2, <1>3
<1> HIDE DEF last
<1>5. n \in Nat \ {0} /\ first + n <= fb.lineCount
  BY <1>2, <1>3, <1>4
<1> HIDE DEF n
<1>6. IsStore(fb') /\ fb'.capacity = fb.capacity
  BY <1>1, <1>2, DeleteKeeps
<1>7. ScalarsOK'
  BY <1>1, <1>6 DEF IInv, ScalarsOK
<1>8. s \in [0 .. n - 1 -> Content]
  <2>1. first + n <= fb.capacity /\ n \in Nat
    BY <1>2, <1>3, <1>5
  <2> QED
    BY <1>2, <2>1, SliceType
<1> HIDE DEF s
<1>9. /\ er \in EditRecs
      /\ er.kind = "del" /\ er.count = fb.lineCount /\ er.first = first
      /\ er.n = n
  <2>1. s \in UNION {[0 .. m - 1 -> Content] : m \in Nat}
    BY <1>5, <1>8
  <2>2. er = [kind |-> "del", count |-> fb.lineCount, first |-> first, n |-> n,
              saved |-> s, applied |-> TRUE]
    BY DEF RangeDelete
  <2> HIDE DEF er
  <2> QED
    BY <1>2, <1>3, <1>5, <1>8, <2>1, <2>2 DEF EditRecs
<1>10. er.applied
  BY DEF RangeDelete
<1>11. Fits(er, fb')
  <2> HIDE DEF er
  <2> QED
    BY <1>3, <1>5, <1>6, <1>9 DEF Fits
<1>12. fb'.capacity >= fb.capacity
  BY <1>3, <1>6
<1> HIDE DEF er
<1> QED
  BY <1>1, <1>7, <1>9, <1>10, <1>11, <1>12, GrowList

\* ARG::undo and ARG::redo
LEMMA StartWalkKeeps ==
  ASSUME IInv, UserUndo \/ UserRedo
  PROVE  IInv'
<1>1. /\ pc = "fetched" /\ Running
      /\ edits' = edits \/ edits' = [edits EXCEPT ![cur] = Boundary(dirty, lastFileStat)]
      /\ UNCHANGED <<fb, cur, undoCount, maxUndo, noEdit, dirty, lastFileStat, disk, clock>>
      /\ \/ pc' = "undo" /\ cur > 1
         \/ pc' = "redo" /\ cur < Len(edits)
  BY DEF UserUndo, UserRedo, StartWalk, Running, AnythingToUndo, AnythingToRedo
<1>2. IsBoundary(edits[cur])
  BY <1>1 DEF IInv, SealedWhereWalksBegin
<1>3. ScalarsOK'
  BY <1>1 DEF IInv, ScalarsOK
<1>4. Len(edits') = Len(edits)
  <2>1. edits \in Seq(EditRecs) /\ cur \in 1 .. Len(edits)
    BY DEF IInv, ListOK
  <2>2. Boundary(dirty, lastFileStat) \in EditRecs
    BY BoundaryFields DEF IInv, ScalarsOK
  <2> QED
    BY <1>1, <2>1, <2>2, ExceptSeq
<1>5. WalksHaveRoom'
  BY <1>1, <1>4 DEF WalksHaveRoom
<1> QED
  BY <1>1, <1>2, <1>3, <1>5, SealedList

\* The commands that only set a flag or a switch.
LEMMA SettingKeeps ==
  ASSUME IInv, ToglNoEdit \/ \E m \in MaxUndoValues : SetMaxUndo(m)
  PROVE  IInv'
<1>1. CASE ToglNoEdit
  <2>1. /\ pc = "fetched" /\ Running /\ pc' = "loop" /\ noEdit' = ~noEdit
        /\ UNCHANGED undoVars
        /\ UNCHANGED <<fb, maxUndo, dirty, lastFileStat, disk, clock>>
    BY <1>1 DEF ToglNoEdit, Running, undoVars
  <2>2. IsBoundary(edits[cur])
    BY <2>1 DEF IInv, SealedWhereWalksBegin
  <2>3. ScalarsOK' /\ fb'.capacity >= fb.capacity
    BY <2>1 DEF IInv, ScalarsOK, IsStore
  <2> QED
    BY <2>1, <2>2, <2>3, SameList
<1>2. ASSUME NEW m \in MaxUndoValues, SetMaxUndo(m)
      PROVE  IInv'
  <2>1. /\ Running /\ pc' = "loop" /\ maxUndo' = m
        /\ UNCHANGED undoVars
        /\ UNCHANGED <<fb, noEdit, dirty, lastFileStat, disk, clock>>
    BY <1>2 DEF SetMaxUndo, undoVars
  <2>2. noEdit' => IsBoundary(edits[cur])
    BY <2>1 DEF IInv, SealedWhereWalksBegin, Running
  <2>3. ScalarsOK' /\ fb'.capacity >= fb.capacity
    BY <2>1, BoundsAssumption DEF IInv, ScalarsOK, IsStore
  <2> QED
    BY <2>1, <2>2, <2>3, SameList
<1> QED
  BY <1>1, <1>2

\* Saving, a foreign write, and a refused refresh.
LEMMA OtherSyncKeeps ==
  ASSUME IInv, OtherSync
  PROVE  IInv'
<1>1. ScalarsOK
  BY DEF IInv
<1>2. noEdit /\ Running => IsBoundary(edits[cur])
  BY DEF IInv, SealedWhereWalksBegin, Running
<1>3. CASE WriteToDisk
  <2>1. /\ Running /\ pc' = "loop" /\ FileWritten(WrittenLines)
        /\ dirty' = FALSE /\ lastFileStat' = disk'.stat
        /\ UNCHANGED undoVars /\ UNCHANGED <<fb, maxUndo, noEdit>>
    BY <1>3 DEF WriteToDisk, undoVars
  <2>2. WrittenLines \in Seq(Content)
    BY <1>1, WrittenLinesType DEF ScalarsOK
  <2>3. disk'.stat \in FileStat /\ disk'.lines \in Seq(Content) /\ clock' \in Nat
    BY <1>1, <2>1, <2>2, FileWrittenType DEF ScalarsOK
  <2>4. ScalarsOK'
    BY <1>1, <2>1, <2>3 DEF ScalarsOK
  <2>5. fb'.capacity >= fb.capacity
    BY <1>1, <2>1 DEF ScalarsOK, IsStore
  <2> QED
    BY <1>2, <2>1, <2>4, <2>5, SameList
<1>4. CASE DeclineRefresh
  <2>1. /\ Running /\ pc' = "loop" /\ lastFileStat' = disk.stat
        /\ UNCHANGED undoVars
        /\ UNCHANGED <<fb, maxUndo, noEdit, dirty, disk, clock>>
    BY <1>4 DEF DeclineRefresh, DiskChanged, undoVars
  <2>2. ScalarsOK' /\ fb'.capacity >= fb.capacity
    BY <1>1, <2>1 DEF ScalarsOK, IsStore
  <2> QED
    BY <1>2, <2>1, <2>2, SameList
<1>5. ASSUME NEW d \in ForeignDocs, WrittenElsewhere(d)
      PROVE  IInv'
  <2>1. /\ FileWritten(d) /\ d \in Seq(Content)
        /\ UNCHANGED <<pc, fb, edits, cur, undoCount, maxUndo, noEdit, dirty, lastFileStat>>
    BY <1>5, DocsAssumption DEF WrittenElsewhere
  <2>2. disk'.stat \in FileStat /\ disk'.lines \in Seq(Content) /\ clock' \in Nat
    BY <1>1, <2>1, FileWrittenType DEF ScalarsOK
  <2>3. ScalarsOK'
    BY <1>1, <2>1, <2>2 DEF ScalarsOK
  <2>4. /\ ListOK' /\ RecordsFit' /\ OldestIsBoundary' /\ UndoneTailIsSealed'
        /\ SealedWhereWalksBegin' /\ WalksHaveRoom'
    BY <2>1 DEF IInv, ListOK, RecordsFit, OldestIsBoundary, UndoneTailIsSealed,
                SealedWhereWalksBegin, IsTip, Newest, WalksHaveRoom
  <2>5. DeletionsOwnTheirLines' /\ UndoCountIsBoundaries'
    BY <2>1 DEF IInv, DeletionsOwnTheirLines, Applied, UndoCountIsBoundaries
  <2> QED
    BY <2>3, <2>4, <2>5 DEF IInv
<1> QED
  BY <1>3, <1>4, <1>5 DEF OtherSync

\* A list that holds one boundary and nothing else.
LEMMA OneBoundary ==
  LET s == <<Boundary(FALSE, NoStat)>>
  IN  /\ s \in Seq(EditRecs)
      /\ Len(s) = 1
      /\ IsBoundary(s[1]) /\ s[1].kind = "boundary"
      /\ Cardinality(BoundariesIn(s, 2, Len(s))) = 0
<1> DEFINE b == Boundary(FALSE, NoStat)
           s == <<b>>
<1>1. b \in EditRecs /\ IsBoundary(b) /\ b.kind = "boundary"
  BY DEF Boundary, EditRecs, IsBoundary, NoStat, FileStat
<1> HIDE DEF b
<1>2. s \in Seq(EditRecs) /\ Len(s) = 1 /\ s[1] = b
  BY <1>1
<1>3. BoundariesIn(s, 2, 1) = {}
  BY DEF BoundariesIn
<1> HIDE DEF s
<1> QED
  BY <1>1, <1>2, <1>3, FS_EmptySet DEF s, b

\* FBUF::FBufReadOk
LEMMA ReadFromDiskKeeps ==
  ASSUME IInv, ReadFromDisk
  PROVE  IInv'
<1>1. /\ fb' = StoreOf(disk.lines) /\ edits' = <<Boundary(FALSE, NoStat)>>
      /\ cur' = 1 /\ undoCount' = 0 /\ pc' = "loop" /\ noEdit' = FALSE
      /\ dirty' = FALSE /\ lastFileStat' = disk.stat
      /\ UNCHANGED <<maxUndo, disk, clock>>
  BY DEF ReadFromDisk, Undo_Reinit
<1>2. IsStore(fb')
  BY <1>1, StoreOfType DEF IInv, ScalarsOK
<1>3. ScalarsOK'
  BY <1>1, <1>2 DEF IInv, ScalarsOK
<1>4. /\ edits' \in Seq(EditRecs) /\ Len(edits') = 1
      /\ IsBoundary(edits'[1]) /\ edits'[1].kind = "boundary"
      /\ Cardinality(BoundariesIn(edits', 2, Len(edits'))) = 0
  BY <1>1, OneBoundary
<1>5. ListOK' /\ RecordsFit' /\ DeletionsOwnTheirLines'
  <2>1. edits'[1].kind = "boundary" /\ 1 .. Len(edits') = {1}
    BY <1>4
  <2>2. cur' = 1
    BY <1>1
  <2> QED
    BY <1>4, <2>1, <2>2 DEF ListOK, RecordsFit, DeletionsOwnTheirLines
<1>6. /\ OldestIsBoundary' /\ UndoneTailIsSealed' /\ SealedWhereWalksBegin'
      /\ WalksHaveRoom' /\ UndoCountIsBoundaries'
  <2>1. cur' = 1 /\ undoCount' = 0 /\ pc' = "loop"
    BY <1>1
  <2> QED
    BY <1>4, <2>1 DEF OldestIsBoundary, UndoneTailIsSealed, SealedWhereWalksBegin,
                    WalksHaveRoom, UndoCountIsBoundaries
<1> QED
  BY <1>3, <1>5, <1>6 DEF IInv

\* A buffer just read.
LEMMA InitIInv == Init => IInv
<1> SUFFICES ASSUME Init PROVE IInv
  OBVIOUS
<1>1. PICK d \in InitDocs :
        fb = StoreOf(d) /\ disk = [lines |-> d, stat |-> [time |-> 1, size |-> SizeOf(d)]]
  BY DEF Init
<1>2. d \in Seq(Content)
  BY DocsAssumption
<1>3. IsStore(fb)
  BY <1>1, <1>2, StoreOfType
<1>4. disk.stat \in FileStat /\ disk.lines \in Seq(Content)
  <2>1. [time |-> 1, size |-> SizeOf(d)] \in FileStat
    BY <1>2, SizeType DEF FileStat
  <2> QED
    BY <1>1, <1>2, <2>1
<1>5. /\ edits = <<Boundary(FALSE, NoStat)>> /\ cur = 1 /\ undoCount = 0
      /\ pc = "loop" /\ noEdit = FALSE /\ dirty = FALSE /\ lastFileStat = disk.stat
      /\ clock = 1 /\ maxUndo \in Nat
  BY BoundsAssumption DEF Init
<1>6. ScalarsOK
  BY <1>3, <1>4, <1>5 DEF ScalarsOK
<1>7. /\ edits \in Seq(EditRecs) /\ Len(edits) = 1
      /\ IsBoundary(edits[1]) /\ edits[1].kind = "boundary"
      /\ Cardinality(BoundariesIn(edits, 2, Len(edits))) = 0
  BY <1>5, OneBoundary
<1>8. ListOK /\ RecordsFit /\ DeletionsOwnTheirLines
  <2>1. edits[1].kind = "boundary" /\ 1 .. Len(edits) = {1}
    BY <1>7
  <2>2. cur = 1
    BY <1>5
  <2> QED
    BY <1>7, <2>1, <2>2 DEF ListOK, RecordsFit, DeletionsOwnTheirLines
<1>9. /\ OldestIsBoundary /\ UndoneTailIsSealed /\ SealedWhereWalksBegin
      /\ WalksHaveRoom /\ UndoCountIsBoundaries
  <2>1. cur = 1 /\ undoCount = 0 /\ pc = "loop"
    BY <1>5
  <2> QED
    BY <1>7, <2>1 DEF OldestIsBoundary, UndoneTailIsSealed, SealedWhereWalksBegin,
                    WalksHaveRoom, UndoCountIsBoundaries
<1> QED
  BY <1>6, <1>8, <1>9 DEF IInv

\* A step that changes nothing.
LEMMA StutterKeeps ==
  ASSUME IInv, UNCHANGED vars
  PROVE  IInv'
<1>1. ScalarsOK' /\ ListOK' /\ RecordsFit' /\ OldestIsBoundary' /\ UndoneTailIsSealed'
  BY DEF vars, IInv, ScalarsOK, ListOK, RecordsFit, OldestIsBoundary,
         UndoneTailIsSealed, Newest
<1>2. SealedWhereWalksBegin' /\ WalksHaveRoom' /\ DeletionsOwnTheirLines'
      /\ UndoCountIsBoundaries'
  BY DEF vars, IInv, SealedWhereWalksBegin, IsTip, Newest, WalksHaveRoom,
         DeletionsOwnTheirLines, Applied, UndoCountIsBoundaries
<1> QED
  BY <1>1, <1>2 DEF IInv

\* IInv is inductive.
LEMMA NextIInv == IInv /\ [Next]_vars => IInv'
<1> SUFFICES ASSUME IInv, [Next]_vars PROVE IInv'
  OBVIOUS
<1>1. CASE UndoInsBoundary
  BY <1>1, UndoInsBoundaryKeeps
<1>2. CASE PruneStep
  BY <1>2, PruneStepKeeps
<1>3. CASE Edit
  BY <1>3, PutLineKeeps, InsBlankLinesKeeps, DelLinesKeeps DEF Edit
<1>4. CASE Command
  BY <1>4, StartWalkKeeps, SettingKeeps DEF Command
<1>5. CASE Walk
  BY <1>5, EdOpUndoKeeps, EdOpRedoKeeps DEF Walk
<1>6. CASE OtherSync
  BY <1>6, OtherSyncKeeps
<1>7. CASE ReadFromDisk
  BY <1>7, ReadFromDiskKeeps
<1>8. CASE UNCHANGED vars
  BY <1>8, StutterKeeps
<1> QED
  BY <1>1, <1>2, <1>3, <1>4, <1>5, <1>6, <1>7, <1>8 DEF Next

\* IInv holds in every reachable state.
THEOREM Inductive == Spec => []IInv
  BY InitIInv, NextIInv, PTL DEF Spec
-----------------------------------------------------------------------------
\* The state is always well typed: in particular no record holds a line, a
\* count or a saved range that does not fit its kind (TypeOK).
THEOREM TypeCorrect == Spec => []TypeOK
<1>1. IInv => TypeOK
  <2> SUFFICES ASSUME IInv PROVE TypeOK
    OBVIOUS
  <2>1. edits \in Seq(EditRecs) /\ cur \in 1 .. Len(edits) /\ ScalarsOK
    BY DEF IInv, ListOK
  <2>2. DOMAIN edits = 1 .. Len(edits)
    BY <2>1
  <2>3. ASSUME NEW k \in 1 .. Len(edits)
        PROVE  IsRecord(edits[k])
    BY <2>1, EditRecsAreRecords
  <2>4. undoCount \in Nat
    BY <2>1, BoundariesFinite DEF IInv, UndoCountIsBoundaries
  <2> QED
    BY <2>1, <2>2, <2>3, <2>4 DEF TypeOK, ScalarsOK
<1> QED
  BY <1>1, Inductive, PTL

\* Undo, redo and pruning never step off the list, whose ends the code does
\* not test for (WalkStaysInList; fbuf_undo.cpp:583-593, 457).
THEOREM WalksStayInList == Spec => []WalkStaysInList
<1>1. IInv => WalkStaysInList
  <2> SUFFICES ASSUME IInv PROVE WalkStaysInList
    OBVIOUS
  <2>1. edits \in Seq(EditRecs) /\ cur \in 1 .. Len(edits) /\ maxUndo \in Nat
    BY DEF IInv, ListOK, ScalarsOK
  <2>2. ASSUME pc = "prune", undoCount > maxUndo
        PROVE  Len(edits) > 1 /\ cur > 1
    <3>1. cur = Len(edits)
      BY <2>2 DEF IInv, SealedWhereWalksBegin, IsTip
    <3>2. ASSUME Len(edits) = 1
          PROVE  FALSE
      <4>1. BoundariesIn(edits, 2, Len(edits)) = {}
        BY <3>2 DEF BoundariesIn
      <4>2. undoCount = 0
        BY <4>1, FS_EmptySet DEF IInv, UndoCountIsBoundaries
      <4> QED
        BY <2>1, <2>2, <4>2
    <3> QED
      BY <2>1, <3>1, <3>2
  <2> QED
    BY <2>2 DEF IInv, WalksHaveRoom, WalkStaysInList
<1> QED
  BY <1>1, Inductive, PTL

\* Records that were undone end in a boundary, so no edit is ever merged into
\* an undone record (UndoneTailIsSealed; fbuf_undo.cpp:522).
THEOREM UndoneTailSealed == Spec => []UndoneTailIsSealed
<1>1. IInv => UndoneTailIsSealed
  BY DEF IInv
<1> QED
  BY <1>1, Inductive, PTL

\* The oldest state an undo can come to is a boundary (OldestIsBoundary;
\* fbuf_undo.cpp:546-560).
THEOREM OldestBoundary == Spec => []OldestIsBoundary
<1>1. IInv => OldestIsBoundary
  BY DEF IInv
<1> QED
  BY <1>1, Inductive, PTL

\* Walks and the no-edit toggle begin at a sealed position
\* (SealedWhereWalksBegin; macro.cpp:353, fbuf_undo.cpp:603-612).
THEOREM WalksBeginSealed == Spec => []SealedWhereWalksBegin
<1>1. IInv => SealedWhereWalksBegin
  BY DEF IInv
<1> QED
  BY <1>1, Inductive, PTL

\* A deletion record owns the lines it took out exactly while it is applied:
\* the Asserts of EdOpLineRangeDelete never fire (DeletionsOwnTheirLines).
THEOREM DeletionsOwn == Spec => []DeletionsOwnTheirLines
<1>1. IInv => DeletionsOwnTheirLines
  BY DEF IInv
<1> QED
  BY <1>1, Inductive, PTL

\* Undo and redo index inside the line array as it is when they run
\* (RecordsFit; fbuf_undo.cpp:162-290).
THEOREM RecordsAlwaysFit == Spec => []RecordsFit
<1>1. IInv => RecordsFit
  BY DEF IInv
<1> QED
  BY <1>1, Inductive, PTL

\* d_UndoCount is the number of boundaries after the oldest record
\* (UndoCountIsBoundaries; fbuf_undo.cpp:457-503, 546-560).
THEOREM UndoCountExact == Spec => []UndoCountIsBoundaries
<1>1. IInv => UndoCountIsBoundaries
  BY DEF IInv
<1> QED
  BY <1>1, Inductive, PTL

-----------------------------------------------------------------------------
(* Pages *)

Page == [Nat -> Content]
PageOf(f) == [y \in Nat |-> IF y < f.capacity THEN f.li[y] ELSE Blank]
PageOfLines(lines) == [y \in Nat |-> IF y < Len(lines) THEN lines[y + 1] ELSE Blank]
BlankFrom(d, n) == \A y \in Nat : y >= n => d[y] = Blank

\* A page with n blank lines inserted, n lines deleted, or lines written over.
Opened(d, first, n) ==
  [y \in Nat |-> IF y < first THEN d[y] ELSE IF y < first + n THEN Blank ELSE d[y - n]]
Closed(d, first, n) == [y \in Nat |-> IF y < first THEN d[y] ELSE d[y + n]]
Covered(d, first, n, lis) ==
  [y \in Nat |-> IF first <= y /\ y < first + n THEN lis[y - first] ELSE d[y]]

\* Two functions on a set that agree everywhere.
LEMMA SamePage ==
  ASSUME NEW d, NEW e, d = [y \in Nat |-> d[y]], e = [y \in Nat |-> e[y]],
         \A y \in Nat : d[y] = e[y]
  PROVE  d = e
<1>1. [y \in Nat |-> d[y]] = [y \in Nat |-> e[y]]
  OBVIOUS
<1> QED
  BY <1>1

LEMMA StoreTypes ==
  ASSUME NEW f, IsStore(f)
  PROVE  /\ f.capacity \in Nat
         /\ f.lineCount \in Nat /\ f.lineCount <= f.capacity
         /\ f.li \in [0 .. f.capacity - 1 -> Content]
         /\ DOMAIN f.li = 0 .. f.capacity - 1
         /\ \A y \in Nat : y < f.capacity => f.li[y] \in Content
  BY DEF IsStore

\* The page of a store is a page, and blank from the end of file on when the
\* array is.
LEMMA PageType ==
  ASSUME NEW f, IsStore(f)
  PROVE  /\ PageOf(f) \in Page
         /\ BlankBeyondEof(f) <=> BlankFrom(PageOf(f), f.lineCount)
<1>1. PageOf(f) \in Page
  BY StoreTypes DEF PageOf, Page, Content
<1>2. \A y \in Nat : y < f.capacity <=> y \in DOMAIN f.li
  BY StoreTypes
<1>3. \A y \in DOMAIN f.li : y \in Nat
  BY StoreTypes
<1> QED
  BY <1>1, <1>2, <1>3 DEF PageOf, BlankBeyondEof, BlankFrom

\* FBUF::LineInfoReserve leaves the text as it is.
LEMMA ReservePage ==
  ASSUME NEW f, IsStore(f), BlankBeyondEof(f), NEW n \in Nat
  PROVE  PageOf(LineInfoReserve(f, n)) = PageOf(f)
<1> DEFINE g == LineInfoReserve(f, n)
           size == n + LineHeadSpace
           kept == [y \in 0 .. size - 1 |-> IF y < f.lineCount THEN f.li[y] ELSE Blank]
<1>1. CASE f.capacity >= n
  BY <1>1 DEF LineInfoReserve
<1>2. CASE ~(f.capacity >= n)
  <2>1. g = [li |-> kept, capacity |-> size, lineCount |-> f.lineCount]
    BY <1>2 DEF LineInfoReserve, IsStore
  <2>2. size \in Nat /\ size >= f.capacity
    BY <1>2, StoreTypes, HeadSpaceAssumption
  <2>3. g.li = kept /\ g.capacity = size
    BY <2>1
  <2>4. ASSUME NEW y \in Nat
        PROVE  (IF y < g.capacity THEN g.li[y] ELSE Blank)
                 = (IF y < f.capacity THEN f.li[y] ELSE Blank)
    <3>1. y < size => kept[y] = IF y < f.lineCount THEN f.li[y] ELSE Blank
      BY <2>2
    <3>2. y < f.capacity /\ y >= f.lineCount => f.li[y] = Blank
      BY StoreTypes DEF BlankBeyondEof
    <3> HIDE DEF g, size, kept
    <3> QED
      BY <2>2, <2>3, <3>1, <3>2, StoreTypes
  <2> QED
    BY <2>4 DEF PageOf
<1> QED
  BY <1>1, <1>2

\* FBUF::InsertLines__ opens a hole in the text, at and beyond EOF as well.
LEMMA InsertPage ==
  ASSUME NEW f, IsStore(f), BlankBeyondEof(f), NEW first \in Nat, NEW n \in Nat
  PROVE  LET g == InsertLines(f, first, n)
         IN  PageOf(g) = Opened(PageOf(f), first, n) /\ BlankBeyondEof(g)
<1> DEFINE g == InsertLines(f, first, n)
<1>1. IsStore(g)
  BY InsertKeeps
<1>2. CASE f.lineCount <= first
  <2>1. g = LineInfoReserve(f, first + n) /\ first + n \in Nat
    BY <1>2 DEF InsertLines
  <2>2. PageOf(g) = PageOf(f) /\ g.lineCount = f.lineCount
    BY <2>1, ReservePage, ReserveKeeps
  <2> HIDE DEF g
  <2>3. BlankFrom(PageOf(f), f.lineCount) /\ PageOf(f) \in Page
    BY PageType
  <2>4. ASSUME NEW y \in Nat
        PROVE  PageOf(f)[y] = Opened(PageOf(f), first, n)[y]
    BY <1>2, <2>3, StoreTypes DEF Opened, BlankFrom
  <2>5. PageOf(f) = Opened(PageOf(f), first, n)
    BY <2>3, <2>4, SamePage DEF Opened, Page
  <2>6. BlankBeyondEof(g)
    BY <1>1, <2>2, <2>3, PageType
  <2> QED
    BY <2>2, <2>5, <2>6 DEF g
<1>3. CASE first < f.lineCount
  <2> DEFINE newCount == f.lineCount + n
             roomy    == f.capacity >= newCount
             size     == IF roomy THEN f.capacity ELSE newCount + LineHeadSpace
             Moved(z) == IF z < first THEN f.li[z]
                         ELSE IF z < first + n THEN Blank
                         ELSE IF z < newCount THEN f.li[z - n]
                         ELSE IF roomy THEN f.li[z] ELSE Blank
  <2>1. /\ g.li = [z \in 0 .. size - 1 |-> Moved(z)]
        /\ g.capacity = size /\ g.lineCount = newCount
    BY <1>3, StoreTypes DEF InsertLines
  <2>2. /\ size \in Nat /\ size >= newCount /\ size >= f.capacity
        /\ newCount \in Nat /\ (roomy => size = f.capacity)
    BY StoreTypes, HeadSpaceAssumption
  <2>3. ASSUME NEW y \in Nat
        PROVE  (IF y < size THEN Moved(y) ELSE Blank) = Opened(PageOf(f), first, n)[y]
    <3>1. \A z \in Nat : z < f.capacity /\ z >= f.lineCount => f.li[z] = Blank
      BY StoreTypes DEF BlankBeyondEof
    <3>2. Opened(PageOf(f), first, n)[y] =
            IF y < first THEN PageOf(f)[y]
            ELSE IF y < first + n THEN Blank ELSE PageOf(f)[y - n]
      BY DEF Opened
    <3>3. CASE y < first
      BY <1>3, <2>2, <3>2, <3>3, StoreTypes DEF PageOf
    <3>4. CASE first <= y /\ y < first + n
      BY <1>3, <2>2, <3>2, <3>4, StoreTypes
    <3>5. CASE first + n <= y
      <4>1. y - n \in Nat /\ ~(y < first) /\ ~(y < first + n)
        BY <3>5
      <4>2. PageOf(f)[y - n] = IF y - n < f.capacity THEN f.li[y - n] ELSE Blank
        BY <4>1 DEF PageOf
      <4>3. CASE y < newCount
        BY <2>2, <3>2, <4>1, <4>2, <4>3, StoreTypes
      <4>4. CASE ~(y < newCount)
        <5>1. PageOf(f)[y - n] = Blank
          BY <3>1, <4>1, <4>2, <4>4, StoreTypes
        <5>2. roomy /\ y < size => f.li[y] = Blank
          BY <2>2, <3>1, <4>4, StoreTypes
        <5> QED
          BY <3>2, <4>1, <4>4, <5>1, <5>2
      <4> QED
        BY <4>3, <4>4
    <3> QED
      BY <3>3, <3>4, <3>5
  <2>4. ASSUME NEW y \in Nat
        PROVE  (IF y < g.capacity THEN g.li[y] ELSE Blank) = Opened(PageOf(f), first, n)[y]
    <3>1. y < size => g.li[y] = Moved(y)
      BY <2>1, <2>2
    <3> HIDE DEF g, size, Moved
    <3> QED
      BY <2>1, <2>3, <3>1
  <2>5. PageOf(g) = Opened(PageOf(f), first, n)
    <3> HIDE DEF g
    <3>1. \A y \in Nat : PageOf(g)[y] = Opened(PageOf(f), first, n)[y]
      BY <2>4 DEF PageOf
    <3> QED
      BY <3>1, SamePage DEF PageOf, Opened
  <2>6. ASSUME NEW y \in Nat, y >= newCount
        PROVE  Opened(PageOf(f), first, n)[y] = Blank
    <3>1. y - n \in Nat /\ y - n >= f.lineCount /\ y >= first + n /\ y >= first
      BY <1>3, <2>6, StoreTypes
    <3>2. PageOf(f)[y - n] = Blank
      BY <3>1, PageType DEF BlankFrom
    <3> QED
      BY <3>1, <3>2 DEF Opened
  <2>7. BlankBeyondEof(g)
    <3> HIDE DEF g, newCount
    <3>1. BlankFrom(PageOf(g), g.lineCount)
      BY <2>1, <2>5, <2>6 DEF BlankFrom
    <3> QED
      BY <1>1, <3>1, PageType
  <2> QED
    BY <2>5, <2>7
<1> QED
  BY <1>2, <1>3, StoreTypes

\* FBUF::DeleteLines__ takes n lines out of the text, as many of them as there
\* are.
LEMMA DeletePage ==
  ASSUME NEW f, IsStore(f), BlankBeyondEof(f), NEW first \in Nat,
         NEW n \in Nat \ {0}, NEW asked \in Int,
         \/ asked = first + n - 1
         \/ asked >= first + n - 1 /\ first + n = f.lineCount
  PROVE  LET g == DeleteLines(f, first, asked)
         IN  PageOf(g) = Closed(PageOf(f), first, n) /\ BlankBeyondEof(g)
<1> DEFINE g    == DeleteLines(f, first, asked)
           last == IF asked > LastLine(f) THEN LastLine(f) ELSE asked
           m    == last - first + 1
           left == f.lineCount - m
           Slid(z) == IF z < first THEN f.li[z]
                      ELSE IF z < left THEN f.li[z + m]
                      ELSE IF z < f.lineCount THEN Blank
                      ELSE f.li[z]
<1>1. /\ IsStore(g) /\ asked >= first /\ LastLine(f) = f.lineCount - 1
      /\ PageOf(f) \in Page /\ BlankFrom(PageOf(f), f.lineCount)
  BY DeleteKeeps, PageType DEF LastLine
<1>2. \A y \in Nat : y >= f.lineCount => PageOf(f)[y] = Blank
  BY <1>1 DEF BlankFrom
<1>3. \A y \in Nat : PageOf(f)[y] = IF y < f.capacity THEN f.li[y] ELSE Blank
  BY DEF PageOf
<1>0. f.lineCount \in Nat /\ f.capacity \in Nat /\ f.lineCount <= f.capacity
  BY StoreTypes
<1>4. CASE first > LastLine(f)
  <2>1. g = f
    BY <1>4 DEF DeleteLines
  <2>2. ASSUME NEW y \in Nat
        PROVE  PageOf(f)[y] = Closed(PageOf(f), first, n)[y]
    <3>1. CASE y < first
      BY <3>1 DEF Closed
    <3>2. CASE ~(y < first)
      <4>1. y + n \in Nat /\ y + n >= f.lineCount /\ y >= f.lineCount
        BY <1>1, <1>4, <3>2, StoreTypes
      <4> QED
        BY <1>2, <3>2, <4>1 DEF Closed
    <3> QED
      BY <3>1, <3>2
  <2>3. PageOf(f) = Closed(PageOf(f), first, n)
    BY <2>2, SamePage DEF PageOf, Closed
  <2> QED
    BY <2>1, <2>3
<1>5. CASE ~(first > LastLine(f))
  <2>1. /\ g.li = [z \in 0 .. f.capacity - 1 |-> Slid(z)]
        /\ g.capacity = f.capacity /\ g.lineCount = left
    BY <1>1, <1>5, StoreTypes DEF DeleteLines
  <2>2. /\ last \in first .. f.lineCount - 1
        /\ last = f.lineCount - 1 \/ last = first + n - 1
        /\ last <= first + n - 1
    <3>1. CASE asked > f.lineCount - 1
      <4>1. last = f.lineCount - 1
        BY <1>1, <3>1
      <4> QED
        BY <1>0, <1>1, <1>5, <3>1, <4>1
    <3>2. CASE ~(asked > f.lineCount - 1)
      <4>1. last = asked
        BY <1>1, <3>2
      <4> QED
        BY <1>0, <1>1, <1>5, <3>2, <4>1
    <3> QED
      BY <3>1, <3>2
  <2> HIDE DEF last
  <2>3. /\ m \in Nat /\ m >= 1 /\ first + m <= f.lineCount
        /\ left \in Nat /\ left >= first /\ left < f.lineCount
        /\ m = n \/ left = first
        /\ m <= n
    BY <1>0, <2>2
  <2> HIDE DEF m
  <2>5. f.lineCount = left + m
    BY <1>0, <2>3
  <2> HIDE DEF left
  <2>6. ASSUME NEW y \in Nat, y >= left
        PROVE  PageOf(f)[y + n] = Blank
    BY <1>0, <1>2, <2>3, <2>5, <2>6
  <2>7. ASSUME NEW y \in Nat
        PROVE  (IF y < f.capacity THEN Slid(y) ELSE Blank)
                 = Closed(PageOf(f), first, n)[y]
    <3>1. CASE y < first
      <4>1. y < f.capacity
        BY <2>3, <3>1, StoreTypes
      <4> QED
        BY <1>3, <3>1, <4>1 DEF Closed
    <3>2. CASE first <= y /\ y < left
      <4>1. m = n /\ y + n \in Nat /\ y + n < f.capacity /\ y < f.capacity /\ ~(y < first)
        BY <2>3, <2>5, <3>2, StoreTypes
      <4> QED
        BY <1>3, <3>2, <4>1 DEF Closed
    <3>3. CASE left <= y
      <4>1. ~(y < first) /\ ~(y < left) /\ PageOf(f)[y + n] = Blank
        BY <2>3, <2>6, <3>3
      <4>2. y >= f.lineCount /\ y < f.capacity => f.li[y] = Blank
        BY <1>2, <1>3
      <4>3. Closed(PageOf(f), first, n)[y] = Blank
        BY <4>1 DEF Closed
      <4> QED
        BY <4>1, <4>2, <4>3, StoreTypes
    <3> QED
      BY <2>3, <3>1, <3>2, <3>3
  <2>8. ASSUME NEW y \in Nat
        PROVE  (IF y < g.capacity THEN g.li[y] ELSE Blank)
                 = Closed(PageOf(f), first, n)[y]
    <3>1. y < f.capacity => g.li[y] = Slid(y)
      BY <2>1, StoreTypes
    <3> HIDE DEF g, Slid
    <3> QED
      BY <2>1, <2>7, <3>1
  <2> HIDE DEF g
  <2>9. PageOf(g) = Closed(PageOf(f), first, n)
    <3>1. \A y \in Nat : PageOf(g)[y] = Closed(PageOf(f), first, n)[y]
      BY <2>8 DEF PageOf
    <3> QED
      BY <3>1, SamePage DEF PageOf, Closed
  <2>10. \A y \in Nat : y >= left => PageOf(g)[y] = Blank
    BY <2>3, <2>6, <2>9 DEF Closed
  <2> QED
    BY <1>1, <2>1, <2>9, <2>10, PageType DEF BlankFrom, g
<1> QED
  BY <1>4, <1>5

\* A new line count leaves the text alone, and is right where the text ends
\* before it.
LEMMA CountPage ==
  ASSUME NEW f, IsStore(f), NEW n \in Nat, n <= f.capacity
  PROVE  LET g == SetLineCount(f, n)
         IN  /\ PageOf(g) = PageOf(f)
             /\ BlankFrom(PageOf(f), n) => BlankBeyondEof(g)
<1> DEFINE g == SetLineCount(f, n)
<1>1. g = [li |-> f.li, capacity |-> f.capacity, lineCount |-> n]
  BY DEF SetLineCount, IsStore
<1>2. IsStore(g)
  BY SetCountKeeps
<1>3. g.li = f.li /\ g.capacity = f.capacity /\ g.lineCount = n
  BY <1>1
<1> HIDE DEF g
<1>4. PageOf(g) = PageOf(f)
  BY <1>3 DEF PageOf
<1> QED
  BY <1>2, <1>3, <1>4, PageType DEF g

\* One entry set, with the count or without.
LEMMA EntryPage ==
  ASSUME NEW f, IsStore(f), NEW y \in Nat, y < f.capacity, NEW c \in Content
  PROVE  PageOf([f EXCEPT !.li[y] = c]) = [PageOf(f) EXCEPT ![y] = c]
<1> DEFINE g == [f EXCEPT !.li[y] = c]
<1>1. g = [li |-> [f.li EXCEPT ![y] = c], capacity |-> f.capacity,
           lineCount |-> f.lineCount]
  <2> DEFINE L == f.li
             C == f.capacity
             n == f.lineCount
             M == [f.li EXCEPT ![y] = c]
  <2>1. f = [li |-> L, capacity |-> C, lineCount |-> n]
    BY DEF IsStore
  <2>2. g = [f EXCEPT !.li = M]
    OBVIOUS
  <2> HIDE DEF L, C, n, M
  <2>3. [f EXCEPT !.li = M] = [li |-> M, capacity |-> C, lineCount |-> n]
    BY <2>1
  <2> QED
    BY <2>2, <2>3 DEF M, C, n
<1>2. g.li = [f.li EXCEPT ![y] = c] /\ g.capacity = f.capacity
  BY <1>1
<1> HIDE DEF g
<1>3. ASSUME NEW z \in Nat
      PROVE  (IF z < f.capacity THEN [f.li EXCEPT ![y] = c][z] ELSE Blank)
               = [PageOf(f) EXCEPT ![y] = c][z]
  BY StoreTypes DEF PageOf
<1>4. [PageOf(f) EXCEPT ![y] = c] = [z \in Nat |-> [PageOf(f) EXCEPT ![y] = c][z]]
  BY DEF PageOf
<1>5. \A z \in Nat : PageOf(g)[z] = [PageOf(f) EXCEPT ![y] = c][z]
  BY <1>2, <1>3 DEF PageOf
<1>6. PageOf(g) = [z \in Nat |-> PageOf(g)[z]]
  BY DEF PageOf
<1> QED
  BY <1>4, <1>5, <1>6, SamePage DEF g

\* EdOpAltLineContent::swapContent sets an entry and the count.
LEMMA SwapPage ==
  ASSUME NEW f, IsStore(f), NEW er, er.line \in Nat, er.line < f.capacity,
         er.li \in Content, er.count \in Nat, er.count <= f.capacity
  PROVE  LET g == SwapIn(f, er)
             d == [PageOf(f) EXCEPT ![er.line] = er.li]
         IN  PageOf(g) = d /\ (BlankFrom(d, er.count) => BlankBeyondEof(g))
<1> DEFINE h == [li |-> [f.li EXCEPT ![er.line] = er.li], capacity |-> f.capacity,
                 lineCount |-> f.lineCount]
<1>1. [f EXCEPT !.li[er.line] = er.li] = h
  BY DEF IsStore
<1>2. SwapIn(f, er) = [h EXCEPT !.lineCount = er.count]
  <2>1. SwapIn(f, er) = [f EXCEPT !.li[er.line] = er.li, !.lineCount = er.count]
    BY DEF SwapIn
  <2>2. SwapIn(f, er) = [li |-> [f.li EXCEPT ![er.line] = er.li],
                         capacity |-> f.capacity, lineCount |-> er.count]
    BY <2>1 DEF IsStore
  <2> QED
    BY <2>2
<1>3. IsStore(h) /\ h.capacity = f.capacity
  <2>1. IsStore([f EXCEPT !.li[er.line] = er.li])
    BY SetEntryKeeps
  <2> QED
    BY <1>1, <2>1
<1>4. PageOf(h) = [PageOf(f) EXCEPT ![er.line] = er.li]
  <2>1. PageOf([f EXCEPT !.li[er.line] = er.li]) = [PageOf(f) EXCEPT ![er.line] = er.li]
    BY EntryPage
  <2> QED
    BY <1>1, <2>1
<1> HIDE DEF h
<1>5. SwapIn(f, er) = SetLineCount(h, er.count)
  BY <1>2 DEF SetLineCount
<1>6. er.count <= h.capacity
  BY <1>3
<1>7. /\ PageOf(SetLineCount(h, er.count)) = PageOf(h)
      /\ BlankFrom(PageOf(h), er.count) => BlankBeyondEof(SetLineCount(h, er.count))
  BY <1>3, <1>6, CountPage
<1> QED
  BY <1>4, <1>5, <1>7

\* Lines written over entries of the array.
LEMMA OverlayPage ==
  ASSUME NEW f, IsStore(f), NEW first \in Nat, NEW n \in Nat,
         first + n <= f.capacity, NEW lis \in [0 .. n - 1 -> Content]
  PROVE  PageOf(Overlay(f, first, lis)) = Covered(PageOf(f), first, n, lis)
<1> DEFINE over == [y \in 0 .. f.capacity - 1 |->
                      IF y - first \in DOMAIN lis THEN lis[y - first] ELSE f.li[y]]
           g    == Overlay(f, first, lis)
<1>1. Overlay(f, first, lis) = [f EXCEPT !.li = over]
  BY DEF Overlay
<1> HIDE DEF over
<1>2. [f EXCEPT !.li = over] =
        [li |-> over, capacity |-> f.capacity, lineCount |-> f.lineCount]
  BY DEF IsStore
<1>3. g.li = over /\ g.capacity = f.capacity
  BY <1>1, <1>2
<1> HIDE DEF g
<1>4. ASSUME NEW y \in Nat
      PROVE  (IF y < f.capacity THEN over[y] ELSE Blank)
               = Covered(PageOf(f), first, n, lis)[y]
  <2>1. y - first \in 0 .. n - 1 <=> first <= y /\ y < first + n
    OBVIOUS
  <2>2. y < f.capacity => over[y] = IF first <= y /\ y < first + n
                                      THEN lis[y - first] ELSE f.li[y]
    BY <2>1, StoreTypes DEF over
  <2> QED
    BY <2>2, StoreTypes DEF PageOf, Covered
<1>5. \A y \in Nat : PageOf(g)[y] = Covered(PageOf(f), first, n, lis)[y]
  BY <1>3, <1>4 DEF PageOf
<1> QED
  BY <1>5, SamePage DEF PageOf, Covered, g

\* Lines cut out of a store are lines of its page.
LEMMA SlicePage ==
  ASSUME NEW f, IsStore(f), NEW first \in Nat, NEW n \in Nat,
         first + n <= f.capacity, NEW i \in 0 .. n - 1
  PROVE  Slice(f, first, n)[i] = PageOf(f)[first + i]
<1>1. first + i \in Nat /\ first + i < f.capacity
  BY StoreTypes
<1> QED
  BY <1>1 DEF Slice, PageOf
-----------------------------------------------------------------------------
\* What record er of the list says of the pages d below and e above it, when
\* it is applied to the buffer and when it is undone.
Between(d, e, er, applied) ==
  CASE er.kind = "boundary" -> e = d
    [] er.kind = "alt" ->
         IF applied THEN d = [e EXCEPT ![er.line] = er.li] /\ BlankFrom(d, er.count)
                    ELSE e = [d EXCEPT ![er.line] = er.li] /\ BlankFrom(e, er.count)
    [] er.kind = "ins" -> e = Opened(d, er.first, er.n) /\ BlankFrom(d, er.count)
    [] er.kind = "del" ->
         /\ e = Closed(d, er.first, er.n) /\ BlankFrom(d, er.count)
         /\ \A i \in 0 .. er.n - 1 :
              er.saved[i] = IF applied THEN d[er.first + i] ELSE Blank

\* A record that an edit or a redo leaves, and one that an undo leaves.
Made(d, e, er)   == Between(d, e, er, TRUE)
Unmade(d, e, er) == Between(d, e, er, FALSE)

\* Closing what was opened, and opening what was closed with its lines put
\* back, restores a page.
LEMMA CloseOpened ==
  ASSUME NEW d \in Page, NEW first \in Nat, NEW n \in Nat
  PROVE  Closed(Opened(d, first, n), first, n) = d
<1>1. ASSUME NEW y \in Nat
      PROVE  Closed(Opened(d, first, n), first, n)[y] = d[y]
  BY DEF Closed, Opened
<1> QED
  BY <1>1, SamePage DEF Closed, Page

LEMMA RestoreClosed ==
  ASSUME NEW d \in Page, NEW first \in Nat, NEW n \in Nat, NEW lis,
         \A i \in 0 .. n - 1 : lis[i] = d[first + i]
  PROVE  Covered(Opened(Closed(d, first, n), first, n), first, n, lis) = d
<1>1. ASSUME NEW y \in Nat
      PROVE  Covered(Opened(Closed(d, first, n), first, n), first, n, lis)[y] = d[y]
  <2>1. CASE y < first
    BY <2>1 DEF Closed, Opened, Covered
  <2>2. CASE first <= y /\ y < first + n
    <3>1. y - first \in 0 .. n - 1 /\ first + (y - first) = y
      BY <2>2
    <3> QED
      BY <2>2, <3>1 DEF Covered
  <2>3. CASE first + n <= y
    <3>1. y - n \in Nat /\ ~(y - n < first) /\ (y - n) + n = y
      BY <2>3
    <3> QED
      BY <2>3, <3>1 DEF Closed, Opened, Covered
  <2> QED
    BY <2>1, <2>2, <2>3
<1> QED
  BY <1>1, SamePage DEF Covered, Page

\* What is written over lines that go away next is lost.
LEMMA CloseCovered ==
  ASSUME NEW d \in Page, NEW first \in Nat, NEW n \in Nat, NEW lis
  PROVE  Closed(Covered(d, first, n, lis), first, n) = Closed(d, first, n)
<1>1. ASSUME NEW y \in Nat
      PROVE  Closed(Covered(d, first, n, lis), first, n)[y] = Closed(d, first, n)[y]
  BY DEF Closed, Covered
<1> QED
  BY <1>1, SamePage DEF Closed

\* The pages the operations make are pages.
LEMMA PageOps ==
  ASSUME NEW d \in Page, NEW first \in Nat, NEW n \in Nat
  PROVE  /\ Opened(d, first, n) \in Page
         /\ Closed(d, first, n) \in Page
         /\ \A c \in Content : [d EXCEPT ![first] = c] \in Page
<1>1. \A y \in Nat : Opened(d, first, n)[y] \in Content
  BY DEF Opened, Page, Content
<1>2. \A y \in Nat : Closed(d, first, n)[y] \in Content
  BY DEF Closed, Page
<1>3. \A c \in Content : [d EXCEPT ![first] = c] \in Page
  BY DEF Page
<1>4. Opened(d, first, n) = [y \in Nat |-> Opened(d, first, n)[y]]
  BY DEF Opened
<1>5. Closed(d, first, n) = [y \in Nat |-> Closed(d, first, n)[y]]
  BY DEF Closed
<1> QED
  BY <1>1, <1>2, <1>3, <1>4, <1>5 DEF Page

\* EditRec::VUndo brings back the page below the record, and leaves in the
\* record what a redo needs to bring back the page above it.
LEMMA UndoneReplays ==
  ASSUME NEW f, IsStore(f), BlankBeyondEof(f), NEW er \in EditRecs, Fits(er, f),
         NEW d \in Page, NEW e \in Page, Made(d, e, er), PageOf(f) = e
  PROVE  /\ PageOf(Undone(f, er)) = d
         /\ BlankBeyondEof(Undone(f, er))
         /\ Unmade(d, e, UndoneRec(f, er))
<1>0. f.lineCount \in Nat /\ f.capacity \in Nat /\ f.lineCount <= f.capacity
  BY StoreTypes
<1>1. CASE er.kind = "boundary"
  BY <1>1 DEF Undone, UndoneRec, Between, Made, Unmade
<1>2. CASE er.kind = "alt"
  <2>1. /\ er.count \in Nat /\ er.line \in Nat /\ er.li \in Content
        /\ er.line < f.capacity /\ er.count <= f.capacity
    BY <1>2, RecordFields DEF Fits
  <2>2. d = [e EXCEPT ![er.line] = er.li] /\ BlankFrom(d, er.count)
    BY <1>2 DEF Between, Made, Unmade
  <2> DEFINE r == AltLine(f.lineCount, er.line, f.li[er.line])
  <2>3. Undone(f, er) = SwapIn(f, er) /\ UndoneRec(f, er) = r
    BY <1>2 DEF Undone, UndoneRec, SwapOut
  <2>4. PageOf(SwapIn(f, er)) = d /\ BlankBeyondEof(SwapIn(f, er))
    BY <2>1, <2>2, SwapPage
  <2>5. PageOf(Undone(f, er)) = d /\ BlankBeyondEof(Undone(f, er))
    BY <2>3, <2>4
  <2>6. r.kind = "alt" /\ r.count = f.lineCount /\ r.line = er.line /\ r.li = e[er.line]
    BY <1>0, <2>1 DEF AltLine, PageOf
  <2>7. e = [d EXCEPT ![er.line] = e[er.line]]
    BY <2>1, <2>2 DEF Page
  <2>8. BlankFrom(e, f.lineCount)
    BY PageType
  <2> HIDE DEF r
  <2> QED
    BY <2>3, <2>5, <2>6, <2>7, <2>8 DEF Between, Made, Unmade
<1>3. CASE er.kind = "ins"
  <2> DEFINE h == DeleteLines(f, er.first, er.first + er.n - 1)
  <2>1. /\ er.count \in Nat /\ er.first \in Nat /\ er.n \in Nat \ {0}
        /\ er.count + er.n <= f.capacity
    BY <1>3, RecordFields DEF Fits
  <2>2. e = Opened(d, er.first, er.n) /\ BlankFrom(d, er.count)
    BY <1>3 DEF Between, Made, Unmade
  <2>3. er.first + er.n - 1 \in Int
    BY <2>1
  <2>4. IsStore(h) /\ h.capacity = f.capacity
    BY <2>1, <2>3, DeleteKeeps
  <2>5. PageOf(h) = Closed(e, er.first, er.n)
    BY <2>1, <2>3, DeletePage
  <2>6. Undone(f, er) = SetLineCount(h, er.count) /\ UndoneRec(f, er) = er
    BY <1>3 DEF Undone, UndoneRec
  <2> HIDE DEF h
  <2>7. PageOf(h) = d /\ er.count <= h.capacity
    BY <1>0, <2>1, <2>2, <2>4, <2>5, CloseOpened
  <2>8. Unmade(d, e, er)
    BY <1>3, <2>2 DEF Between, Made, Unmade
  <2> QED
    BY <2>1, <2>2, <2>4, <2>6, <2>7, <2>8, CountPage
<1>4. CASE er.kind = "del"
  <2> DEFINE h == InsertLines(f, er.first, er.n)
             o == Overlay(h, er.first, er.saved)
             s == Slice(h, er.first, er.n)
             r == RangeDelete(er.count, er.first, er.n, s, FALSE)
  <2>1. /\ er.count \in Nat /\ er.first \in Nat /\ er.n \in Nat \ {0}
        /\ er.n \in Nat
        /\ er.saved \in [0 .. er.n - 1 -> Content]
        /\ er.first + er.n <= er.count /\ er.count <= f.capacity
    BY <1>4, RecordFields DEF Fits
  <2>2. /\ e = Closed(d, er.first, er.n) /\ BlankFrom(d, er.count)
        /\ \A i \in 0 .. er.n - 1 : er.saved[i] = d[er.first + i]
    BY <1>4 DEF Between, Made, Unmade
  <2>3. /\ IsStore(h) /\ h.capacity >= f.capacity /\ h.capacity >= er.first + er.n
        /\ PageOf(h) = Opened(e, er.first, er.n)
    BY <2>1, InsertKeeps, InsertPage
  <2>4. h.capacity \in Nat /\ er.first + er.n <= h.capacity
    BY <2>1, <2>3, StoreTypes
  <2>5. /\ Undone(f, er) = SetLineCount(o, er.count) /\ UndoneRec(f, er) = r
    BY <1>4 DEF Undone, UndoneRec
  <2> HIDE DEF h
  <2>6. /\ IsStore(o) /\ o.capacity = h.capacity
        /\ PageOf(o) = Covered(Opened(e, er.first, er.n), er.first, er.n, er.saved)
    <3>1. /\ IsStore(Overlay(h, er.first, er.saved))
          /\ Overlay(h, er.first, er.saved).capacity = h.capacity
      BY <2>1, <2>3, OverlayKeeps
    <3>2. PageOf(Overlay(h, er.first, er.saved)) =
            Covered(PageOf(h), er.first, er.n, er.saved)
      BY <2>1, <2>3, <2>4, OverlayPage
    <3> QED
      BY <2>3, <3>1, <3>2
  <2>7. PageOf(o) = d
    <3>1. Covered(Opened(Closed(d, er.first, er.n), er.first, er.n), er.first, er.n,
                  er.saved) = d
      BY <2>1, <2>2, RestoreClosed
    <3> QED
      BY <2>2, <2>6, <3>1
  <2>8. \A i \in 0 .. er.n - 1 : s[i] = Blank
    <3>1. ASSUME NEW i \in 0 .. er.n - 1
          PROVE  Opened(e, er.first, er.n)[er.first + i] = Blank
      BY <2>1 DEF Opened
    <3>2. ASSUME NEW i \in 0 .. er.n - 1
          PROVE  Slice(h, er.first, er.n)[i] = PageOf(h)[er.first + i]
      BY <2>1, <2>3, <2>4, SlicePage
    <3> QED
      BY <2>3, <3>1, <3>2
  <2> HIDE DEF o, s
  <2>9. er.count <= o.capacity
    BY <1>0, <2>1, <2>3, <2>4, <2>6
  <2>10. PageOf(Undone(f, er)) = d /\ BlankBeyondEof(Undone(f, er))
    BY <2>1, <2>2, <2>5, <2>6, <2>7, <2>9, CountPage
  <2>11. /\ r.kind = "del" /\ r.count = er.count /\ r.first = er.first
         /\ r.n = er.n /\ r.saved = s
    BY DEF RangeDelete
  <2> HIDE DEF r
  <2>12. Unmade(d, e, r)
    BY <2>2, <2>8, <2>11 DEF Between, Made, Unmade
  <2> QED
    BY <2>5, <2>10, <2>12
<1> QED
  BY <1>1, <1>2, <1>3, <1>4, RecordFields

\* EditRec::VRedo brings back the page above the record, and leaves in the
\* record what an undo needs to bring back the page below it.
LEMMA RedoneReplays ==
  ASSUME NEW f, IsStore(f), BlankBeyondEof(f), NEW er \in EditRecs, Fits(er, f),
         NEW d \in Page, NEW e \in Page, Unmade(d, e, er), PageOf(f) = d
  PROVE  /\ PageOf(Redone(f, er)) = e
         /\ BlankBeyondEof(Redone(f, er))
         /\ Made(d, e, RedoneRec(f, er))
<1>0. f.lineCount \in Nat /\ f.capacity \in Nat /\ f.lineCount <= f.capacity
  BY StoreTypes
<1>1. CASE er.kind = "boundary"
  BY <1>1 DEF Redone, RedoneRec, Between, Made, Unmade
<1>2. CASE er.kind = "alt"
  <2>1. /\ Redone(f, er) = Undone(f, er) /\ RedoneRec(f, er) = UndoneRec(f, er)
        /\ Made(e, d, er)
    BY <1>2 DEF Redone, RedoneRec, Undone, UndoneRec, Between, Made, Unmade
  <2>2. /\ PageOf(Undone(f, er)) = e
        /\ BlankBeyondEof(Undone(f, er))
        /\ Unmade(e, d, UndoneRec(f, er))
    BY <2>1, UndoneReplays
  <2>3. UndoneRec(f, er).kind = "alt"
    BY <1>2, UndoneKeeps
  <2> QED
    BY <2>1, <2>2, <2>3 DEF Between, Made, Unmade
<1>3. CASE er.kind = "ins"
  <2> DEFINE h == InsertLines(f, er.first, er.n)
  <2>1. /\ er.count \in Nat /\ er.first \in Nat /\ er.n \in Nat \ {0}
        /\ er.n \in Nat /\ er.count + er.n <= f.capacity
    BY <1>3, RecordFields DEF Fits
  <2>2. e = Opened(d, er.first, er.n) /\ BlankFrom(d, er.count)
    BY <1>3 DEF Between, Made, Unmade
  <2>3. IsStore(h) /\ h.capacity >= f.capacity /\ PageOf(h) = e
    BY <2>1, <2>2, InsertKeeps, InsertPage
  <2>4. h.capacity \in Nat
    BY <2>3, StoreTypes
  <2>5. Redone(f, er) = SetLineCount(h, er.count + er.n) /\ RedoneRec(f, er) = er
    BY <1>3 DEF Redone, RedoneRec
  <2> HIDE DEF h
  <2>6. BlankFrom(e, er.count + er.n)
    <3>1. ASSUME NEW y \in Nat, y >= er.count + er.n
          PROVE  Opened(d, er.first, er.n)[y] = Blank
      <4>1. y - er.n \in Nat /\ y - er.n >= er.count /\ y >= er.count
        BY <2>1, <3>1
      <4>2. d[y] = Blank /\ d[y - er.n] = Blank
        BY <2>2, <4>1 DEF BlankFrom
      <4> QED
        BY <4>2 DEF Opened
    <3> QED
      BY <2>2, <3>1 DEF BlankFrom
  <2>7. Made(d, e, er)
    BY <1>3, <2>2 DEF Between, Made, Unmade
  <2>8. er.count + er.n \in Nat /\ er.count + er.n <= h.capacity
    BY <1>0, <2>1, <2>3, <2>4
  <2> QED
    BY <2>3, <2>5, <2>6, <2>7, <2>8, CountPage
<1>4. CASE er.kind = "del"
  <2> DEFINE o == Overlay(f, er.first, er.saved)
             h == DeleteLines(o, er.first, er.first + er.n - 1)
             s == Slice(f, er.first, er.n)
             r == RangeDelete(er.count, er.first, er.n, s, TRUE)
  <2>1. /\ er.count \in Nat /\ er.first \in Nat /\ er.n \in Nat \ {0}
        /\ er.n \in Nat
        /\ er.saved \in [0 .. er.n - 1 -> Content]
        /\ er.first + er.n <= er.count /\ er.count <= f.capacity
        /\ er.first + er.n - 1 \in Int
    BY <1>4, RecordFields DEF Fits
  <2>2. /\ e = Closed(d, er.first, er.n) /\ BlankFrom(d, er.count)
        /\ \A i \in 0 .. er.n - 1 : er.saved[i] = Blank
    BY <1>4 DEF Between, Made, Unmade
  <2>3. er.first + er.n <= f.capacity
    BY <1>0, <2>1
  <2>4. /\ IsStore(o) /\ o.capacity = f.capacity /\ o.lineCount = f.lineCount
        /\ PageOf(o) = Covered(d, er.first, er.n, er.saved)
    BY ZenonT(30), <2>1, <2>3, OverlayKeeps, OverlayPage
  <2>5. BlankBeyondEof(o)
    <3>1. BlankFrom(d, f.lineCount)
      BY PageType
    <3>2. ASSUME NEW y \in Nat, y >= f.lineCount
          PROVE  Covered(d, er.first, er.n, er.saved)[y] = Blank
      <4>1. CASE er.first <= y /\ y < er.first + er.n
        <5>1. y - er.first \in 0 .. er.n - 1
          BY <2>1, <4>1
        <5> QED
          BY <2>2, <4>1, <5>1 DEF Covered
      <4>2. CASE ~(er.first <= y /\ y < er.first + er.n)
        BY <3>1, <3>2, <4>2 DEF Covered, BlankFrom
      <4> QED
        BY <4>1, <4>2
    <3> QED
      BY <2>4, <3>2, PageType DEF BlankFrom
  <2>6. \A i \in 0 .. er.n - 1 : s[i] = d[er.first + i]
    BY <2>1, <2>3, SlicePage
  <2>7. Redone(f, er) = SetLineCount(h, er.count - er.n) /\ RedoneRec(f, er) = r
    BY <1>4 DEF Redone, RedoneRec
  <2> HIDE DEF o, s
  <2>8. /\ IsStore(h) /\ h.capacity = f.capacity
        /\ PageOf(h) = Closed(PageOf(o), er.first, er.n)
    BY <2>1, <2>4, <2>5, DeleteKeeps, DeletePage
  <2> HIDE DEF h
  <2>9. PageOf(h) = e
    BY <2>1, <2>2, <2>4, <2>8, CloseCovered
  <2>10. BlankFrom(e, er.count - er.n)
    <3>1. ASSUME NEW y \in Nat, y >= er.count - er.n
          PROVE  Closed(d, er.first, er.n)[y] = Blank
      <4>1. y + er.n \in Nat /\ y + er.n >= er.count /\ y >= er.first
        BY <2>1, <3>1
      <4> QED
        BY <2>1, <2>2, <4>1 DEF BlankFrom, Closed
    <3> QED
      BY <2>2, <3>1 DEF BlankFrom
  <2>11. er.count - er.n \in Nat /\ er.count - er.n <= h.capacity
    BY <1>0, <2>1, <2>8
  <2>12. PageOf(Redone(f, er)) = e /\ BlankBeyondEof(Redone(f, er))
    BY <2>7, <2>8, <2>9, <2>10, <2>11, CountPage
  <2>13. /\ r.kind = "del" /\ r.count = er.count /\ r.first = er.first
         /\ r.n = er.n /\ r.saved = s
    BY DEF RangeDelete
  <2> HIDE DEF r
  <2>14. Made(d, e, r)
    BY <2>2, <2>6, <2>13 DEF Between, Made, Unmade
  <2> QED
    BY <2>7, <2>12, <2>14
<1> QED
  BY <1>1, <1>2, <1>3, <1>4, RecordFields
-----------------------------------------------------------------------------
\* A store and the file it is read from, or written to, show the same page.
LEMMA StoreOfPage ==
  ASSUME NEW lines \in Seq(Content)
  PROVE  PageOf(StoreOf(lines)) = PageOfLines(lines) /\ BlankBeyondEof(StoreOf(lines))
<1> DEFINE g == StoreOf(lines)
           size == Len(lines) + LineHeadSpace
           read == [y \in 0 .. size - 1 |->
                      IF y < Len(lines) THEN lines[y + 1] ELSE Blank]
<1>1. size \in Nat /\ Len(lines) <= size /\ Len(lines) \in Nat
  BY HeadSpaceAssumption
<1>2. IsStore(g) /\ g.li = read /\ g.capacity = size /\ g.lineCount = Len(lines)
  BY StoreOfType DEF StoreOf
<1> HIDE DEF g
<1>3. ASSUME NEW y \in Nat
      PROVE  PageOf(g)[y] = PageOfLines(lines)[y]
  <2>1. y < size => read[y] = IF y < Len(lines) THEN lines[y + 1] ELSE Blank
    BY <1>1
  <2>2. PageOf(g)[y] = IF y < size THEN read[y] ELSE Blank
    BY <1>2 DEF PageOf
  <2> HIDE DEF size, read
  <2> QED
    BY <1>1, <2>1, <2>2 DEF PageOfLines
<1>4. PageOf(g) = PageOfLines(lines)
  BY <1>3, SamePage DEF PageOf, PageOfLines
<1>5. BlankFrom(PageOfLines(lines), Len(lines))
  BY <1>1 DEF BlankFrom, PageOfLines
<1> QED
  BY <1>2, <1>4, <1>5, PageType DEF g

LEMMA FilePage ==
  ASSUME NEW f, IsStore(f), BlankBeyondEof(f)
  PROVE  PageOfLines(FileLines(f)) = PageOf(f)
<1>1. f.lineCount \in Nat /\ f.lineCount <= f.capacity /\ f.capacity \in Nat
  BY StoreTypes
<1>2. /\ Len(FileLines(f)) = f.lineCount
      /\ \A i \in 1 .. f.lineCount : FileLines(f)[i] = f.li[i - 1]
  <2>1. FileLines(f) \in Seq(Content) /\ DOMAIN FileLines(f) = 1 .. f.lineCount
    BY FileLinesType DEF FileLines
  <2> QED
    BY <1>1, <2>1, LenProperties DEF FileLines
<1>3. ASSUME NEW y \in Nat
      PROVE  PageOfLines(FileLines(f))[y] = PageOf(f)[y]
  <2>1. CASE y < f.lineCount
    <3>1. y + 1 \in 1 .. f.lineCount /\ (y + 1) - 1 = y /\ y < f.capacity
      BY <1>1, <2>1
    <3> QED
      BY <1>2, <2>1, <3>1 DEF PageOf, PageOfLines
  <2>2. CASE ~(y < f.lineCount)
    <3>1. PageOf(f)[y] = Blank
      BY <1>1, <2>2, PageType DEF BlankFrom
    <3> QED
      BY <1>2, <2>2, <3>1 DEF PageOfLines
  <2> QED
    BY <2>1, <2>2
<1> QED
  BY <1>3, SamePage DEF PageOf, PageOfLines

\* The lines of a file that Document keeps.
UsedLines(lines) ==
  {i \in 1 .. Len(lines) : \E j \in i .. Len(lines) : lines[j] # Blank}

LEMMA UsedFinite ==
  ASSUME NEW lines \in Seq(Content)
  PROVE  /\ IsFiniteSet(UsedLines(lines))
         /\ Cardinality(UsedLines(lines)) \in Nat
         /\ Cardinality(UsedLines(lines)) <= Len(lines)
         /\ Document(lines) = SubSeq(lines, 1, Cardinality(UsedLines(lines)))
<1>1. Len(lines) \in Nat
  OBVIOUS
<1>2. IsFiniteSet(1 .. Len(lines)) /\ Cardinality(1 .. Len(lines)) = Len(lines)
  BY <1>1, FS_Interval
<1>3. UsedLines(lines) \in SUBSET (1 .. Len(lines))
  BY DEF UsedLines
<1>4. Document(lines) = SubSeq(lines, 1, Cardinality(UsedLines(lines)))
  BY DEF Document, UsedLines
<1> QED
  BY <1>2, <1>3, <1>4, FS_Subset, FS_CardinalityType

\* Line i is used exactly when something stands on the page from it on.
LEMMA UsedOnPage ==
  ASSUME NEW lines \in Seq(Content), NEW i \in Nat \ {0}
  PROVE  i \in UsedLines(lines)
           <=> \E y \in Nat : y >= i - 1 /\ PageOfLines(lines)[y] # Blank
<1>1. Len(lines) \in Nat
  OBVIOUS
<1>2. ASSUME i \in UsedLines(lines)
      PROVE  \E y \in Nat : y >= i - 1 /\ PageOfLines(lines)[y] # Blank
  <2>1. PICK j \in i .. Len(lines) : lines[j] # Blank
    BY <1>2 DEF UsedLines
  <2>2. j - 1 \in Nat /\ j - 1 >= i - 1 /\ j - 1 < Len(lines) /\ (j - 1) + 1 = j
    BY <1>1, <2>1
  <2> QED
    BY <2>1, <2>2 DEF PageOfLines
<1>3. ASSUME NEW y \in Nat, y >= i - 1, PageOfLines(lines)[y] # Blank
      PROVE  i \in UsedLines(lines)
  <2>1. y < Len(lines) /\ lines[y + 1] # Blank
    BY <1>3 DEF PageOfLines
  <2>2. y + 1 \in i .. Len(lines) /\ i \in 1 .. Len(lines)
    BY <1>1, <1>3, <2>1
  <2> QED
    BY <2>1, <2>2 DEF UsedLines
<1> QED
  BY <1>2, <1>3

\* Files that show the same page are the same document.
LEMMA SameDocument ==
  ASSUME NEW a \in Seq(Content), NEW b \in Seq(Content),
         PageOfLines(a) = PageOfLines(b)
  PROVE  Document(a) = Document(b)
<1>1. UsedLines(a) \subseteq Nat \ {0} /\ UsedLines(b) \subseteq Nat \ {0}
  BY DEF UsedLines
<1>2. \A i \in Nat \ {0} : i \in UsedLines(a) <=> i \in UsedLines(b)
  BY UsedOnPage
<1>3. UsedLines(a) = UsedLines(b)
  BY <1>1, <1>2
<1> DEFINE m == Cardinality(UsedLines(a))
<1>4. /\ m \in Nat /\ m <= Len(a) /\ m <= Len(b)
      /\ Document(a) = SubSeq(a, 1, m) /\ Document(b) = SubSeq(b, 1, m)
  BY <1>3, UsedFinite
<1> HIDE DEF m
<1>5. \A i \in 1 .. m : a[i] \in Content /\ b[i] \in Content
  BY <1>4
<1>6. /\ SubSeq(a, 1, m) \in Seq(Content) /\ Len(SubSeq(a, 1, m)) = m
      /\ SubSeq(b, 1, m) \in Seq(Content) /\ Len(SubSeq(b, 1, m)) = m
      /\ \A i \in 1 .. m : SubSeq(a, 1, m)[i] = a[i] /\ SubSeq(b, 1, m)[i] = b[i]
  BY <1>4, <1>5, SubSeqProperties
<1>7. ASSUME NEW i \in 1 .. m
      PROVE  a[i] = b[i]
  <2>1. i - 1 \in Nat /\ i - 1 < Len(a) /\ i - 1 < Len(b) /\ (i - 1) + 1 = i
    BY <1>4
  <2>2. PageOfLines(a)[i - 1] = a[i] /\ PageOfLines(b)[i - 1] = b[i]
    BY <2>1 DEF PageOfLines
  <2> QED
    BY <2>2
<1> QED
  BY <1>4, <1>6, <1>7, SeqEqual

\* A document shows the page of the file it was taken from.
LEMMA DocumentPage ==
  ASSUME NEW lines \in Seq(Content)
  PROVE  PageOfLines(Document(lines)) = PageOfLines(lines)
<1> DEFINE m == Cardinality(UsedLines(lines))
           t == Document(lines)
<1>1. /\ m \in Nat /\ m <= Len(lines) /\ t = SubSeq(lines, 1, m)
      /\ IsFiniteSet(UsedLines(lines)) /\ Len(lines) \in Nat
  BY UsedFinite
<1>2. ASSUME NEW i \in UsedLines(lines)
      PROVE  i <= m
  <2>1. i \in Nat /\ 1 .. i \subseteq UsedLines(lines)
    BY DEF UsedLines
  <2>2. Cardinality(1 .. i) = i
    BY <2>1, FS_Interval
  <2> QED
    BY <1>1, <2>1, <2>2, FS_Subset
<1> HIDE DEF m, t
<1>3. \A i \in 1 .. m : lines[i] \in Content
  BY <1>1
<1>4. Len(t) = m /\ \A i \in 1 .. m : t[i] = lines[i]
  BY <1>1, <1>3, SubSeqProperties
<1>5. ASSUME NEW y \in Nat
      PROVE  PageOfLines(t)[y] = PageOfLines(lines)[y]
  <2>1. CASE y < m
    <3>1. y + 1 \in 1 .. m /\ y < Len(lines)
      BY <1>1, <2>1
    <3> QED
      BY <1>4, <2>1, <3>1 DEF PageOfLines
  <2>2. CASE ~(y < m) /\ y < Len(lines)
    <3>1. y + 1 \in 1 .. Len(lines) /\ ~(y + 1 <= m)
      BY <1>1, <2>2
    <3>2. y + 1 \notin UsedLines(lines)
      BY <1>2, <3>1
    <3>3. lines[y + 1] = Blank
      BY <1>1, <3>1, <3>2 DEF UsedLines
    <3> QED
      BY <1>4, <2>2, <3>3 DEF PageOfLines
  <2>3. CASE ~(y < m) /\ ~(y < Len(lines))
    BY <1>4, <2>3 DEF PageOfLines
  <2> QED
    BY <2>1, <2>2, <2>3
<1> QED
  BY <1>5, SamePage DEF PageOfLines, t

\* FBUF_WriteToDiskOk writes a file that shows the buffer's page.
LEMMA WrittenPage ==
  ASSUME IsStore(fb), BlankBeyondEof(fb)
  PROVE  PageOfLines(WrittenLines) = PageOf(fb)
<1>1. FileLines(fb) \in Seq(Content) /\ PageOfLines(FileLines(fb)) = PageOf(fb)
  BY FileLinesType, FilePage
<1>2. PageOfLines(DocOf(fb)) = PageOf(fb)
  BY <1>1, DocumentPage DEF DocOf
<1>3. PageOfLines(<<Blank>>) = PageOfLines(<<>>)
  <2>1. ASSUME NEW y \in Nat
        PROVE  PageOfLines(<<Blank>>)[y] = PageOfLines(<<>>)[y]
    BY DEF PageOfLines
  <2> QED
    BY <2>1, SamePage DEF PageOfLines
<1> QED
  BY <1>1, <1>2, <1>3 DEF WrittenLines
-----------------------------------------------------------------------------
\* A list s of records whose first n are applied goes with the pages docs:
\* docs[k] stands above record k, docs[k - 1] below it.
Chain(docs, s, n) ==
  /\ docs \in [0 .. Len(s) -> Page]
  /\ \A k \in 1 .. Len(s) : Between(docs[k - 1], docs[k], s[k], k <= n)

\* Above and below a boundary stands the same page, whether it counts as
\* applied or not.
LEMMA ChainBoundary ==
  ASSUME NEW s \in Seq(EditRecs), NEW docs, NEW c \in 1 .. Len(s), IsBoundary(s[c])
  PROVE  /\ Chain(docs, s, c) <=> Chain(docs, s, c - 1)
         /\ Chain(docs, s, c) => docs[c] = docs[c - 1]
<1>1. \A d, e, a, b : Between(d, e, s[c], a) <=> Between(d, e, s[c], b)
  BY DEF IsBoundary, Between
<1>2. \A k \in 1 .. Len(s) : k # c => (k <= c <=> k <= c - 1)
  OBVIOUS
<1>3. \A k \in 1 .. Len(s) :
        Between(docs[k - 1], docs[k], s[k], k <= c)
          <=> Between(docs[k - 1], docs[k], s[k], k <= c - 1)
  <2> SUFFICES ASSUME NEW k \in 1 .. Len(s)
               PROVE  Between(docs[k - 1], docs[k], s[k], k <= c)
                        <=> Between(docs[k - 1], docs[k], s[k], k <= c - 1)
    OBVIOUS
  <2>1. CASE k = c
    BY <1>1, <2>1
  <2>2. CASE k # c
    <3>1. (k <= c) = (k <= c - 1)
      BY <1>2, <2>2
    <3> QED
      BY <3>1
  <2> QED
    BY <2>1, <2>2
<1>4. Between(docs[c - 1], docs[c], s[c], TRUE) => docs[c] = docs[c - 1]
  BY DEF Between, IsBoundary
<1>5. Chain(docs, s, c) => Between(docs[c - 1], docs[c], s[c], TRUE)
  <2>1. (c <= c) = TRUE
    OBVIOUS
  <2> QED
    BY <2>1 DEF Chain
<1> QED
  BY <1>3, <1>4, <1>5 DEF Chain

\* Records whose contents a boundary does not share may be exchanged for
\* another boundary.
LEMMA ChainRenewed ==
  ASSUME NEW s \in Seq(EditRecs), NEW t \in Seq(EditRecs), Len(t) = Len(s),
         \A k \in 1 .. Len(s) : t[k] = s[k] \/ (IsBoundary(t[k]) /\ IsBoundary(s[k])),
         NEW docs, NEW n \in Int, Chain(docs, s, n)
  PROVE  Chain(docs, t, n)
<1>1. ASSUME NEW k \in 1 .. Len(s)
      PROVE  Between(docs[k - 1], docs[k], t[k], k <= n)
  <2>1. Between(docs[k - 1], docs[k], s[k], k <= n)
    BY DEF Chain
  <2>2. IsBoundary(t[k]) /\ IsBoundary(s[k])
          => Between(docs[k - 1], docs[k], t[k], k <= n)
    BY <2>1 DEF Between, IsBoundary
  <2> QED
    BY <2>1, <2>2
<1> QED
  BY <1>1 DEF Chain

\* A record added after record c puts its page on top of those up to c.
ListWith(s, c, er) == Append(SubSeq(s, 1, c), er)
PagesWith(docs, c, p) == [k \in 0 .. c + 1 |-> IF k <= c THEN docs[k] ELSE p]

LEMMA ChainAppended ==
  ASSUME NEW s \in Seq(EditRecs), NEW c \in 1 .. Len(s), NEW docs,
         Chain(docs, s, c), NEW p \in Page, NEW er \in EditRecs,
         Made(docs[c], p, er),
         NEW t, t = ListWith(s, c, er)
  PROVE  \E e : /\ Chain(e, t, c + 1)
                /\ e[c + 1] = p
                /\ \A k \in 0 .. c : e[k] = docs[k]
<1> DEFINE e == PagesWith(docs, c, p)
<1>1. /\ t \in Seq(EditRecs) /\ Len(t) = c + 1
      /\ \A k \in 1 .. c : t[k] = s[k]
      /\ t[c + 1] = er
  BY AppendAfter DEF ListWith
<1>2. c \in Nat /\ c <= Len(s) /\ Len(s) \in Nat
  OBVIOUS
<1>3. /\ e \in [0 .. c + 1 -> Page]
      /\ e[c + 1] = p
      /\ \A k \in 0 .. c : e[k] = docs[k]
  <2>1. docs \in [0 .. Len(s) -> Page]
    BY DEF Chain
  <2>2. \A k \in 0 .. c : docs[k] \in Page
    BY <1>2, <2>1
  <2>3. \A k \in 0 .. c + 1 : (IF k <= c THEN docs[k] ELSE p) \in Page
    BY <1>2, <2>2
  <2>4. c + 1 \in 0 .. c + 1 /\ ~(c + 1 <= c) /\ \A k \in 0 .. c : k \in 0 .. c + 1
    BY <1>2
  <2> QED
    BY <2>3, <2>4 DEF PagesWith
<1> HIDE DEF e
<1>4. ASSUME NEW k \in 1 .. c + 1
      PROVE  Between(e[k - 1], e[k], t[k], k <= c + 1)
  <2>1. (k <= c + 1) = TRUE
    OBVIOUS
  <2>2. CASE k = c + 1
    <3>1. k - 1 = c /\ e[k - 1] = docs[c]
      BY <1>2, <1>3, <2>2
    <3> QED
      BY <1>1, <1>3, <2>1, <2>2, <3>1 DEF Made
  <2>3. CASE k # c + 1
    <3>1. k \in 1 .. c /\ k - 1 \in 0 .. c /\ k \in 1 .. Len(s) /\ (k <= c) = TRUE
      BY <1>2, <2>3
    <3>2. Between(docs[k - 1], docs[k], s[k], TRUE)
      BY <3>1 DEF Chain
    <3>3. e[k - 1] = docs[k - 1] /\ e[k] = docs[k] /\ t[k] = s[k]
      BY <1>1, <1>2, <1>3, <3>1
    <3> QED
      BY <2>1, <3>2, <3>3
  <2> QED
    BY <2>2, <2>3
<1> QED
  BY <1>1, <1>3, <1>4 DEF Chain

\* A second edit of the line the newest record saved changes only the page on
\* top.
LEMMA ChainCoalesced ==
  ASSUME NEW s \in Seq(EditRecs), NEW c \in 1 .. Len(s), c = Len(s), NEW docs,
         Chain(docs, s, c), s[c].kind = "alt", NEW x \in Content
  PROVE  \E e : /\ Chain(e, s, c)
                /\ e[c] = [docs[c] EXCEPT ![s[c].line] = x]
                /\ \A k \in 0 .. c - 1 : e[k] = docs[k]
<1> DEFINE y == s[c].line
           p == [docs[c] EXCEPT ![y] = x]
           e == [docs EXCEPT ![c] = p]
<1>1. y \in Nat /\ docs \in [0 .. Len(s) -> Page] /\ Len(s) \in Nat
  BY RecordFields DEF Chain
<1>2. docs[c] \in Page /\ docs[c - 1] \in Page
  BY <1>1
<1>3. p \in Page
  BY <1>1, <1>2, PageOps
<1>4. docs[c - 1] = [docs[c] EXCEPT ![y] = s[c].li] /\ BlankFrom(docs[c - 1], s[c].count)
  <2>1. (c <= c) = TRUE
    OBVIOUS
  <2>2. Between(docs[c - 1], docs[c], s[c], TRUE)
    BY <2>1 DEF Chain
  <2> QED
    BY <2>2 DEF Between
<1>5. [docs[c] EXCEPT ![y] = s[c].li] = [p EXCEPT ![y] = s[c].li]
  BY <1>1, <1>2 DEF Page
<1> HIDE DEF p
<1>6. /\ e \in [0 .. Len(s) -> Page]
      /\ e[c] = p
      /\ \A k \in 0 .. c - 1 : e[k] = docs[k]
  BY <1>1, <1>3
<1> HIDE DEF e
<1>7. Between(e[c - 1], e[c], s[c], TRUE)
  <2>1. e[c - 1] = docs[c - 1]
    BY <1>6
  <2> QED
    BY <1>4, <1>5, <1>6, <2>1 DEF Between
<1>8. ASSUME NEW k \in 1 .. Len(s)
      PROVE  Between(e[k - 1], e[k], s[k], k <= c)
  <2>1. (k <= c) = TRUE
    OBVIOUS
  <2>2. CASE k = c
    BY <1>7, <2>1, <2>2
  <2>3. CASE k # c
    <3>1. e[k - 1] = docs[k - 1] /\ e[k] = docs[k]
      BY <1>6, <2>3
    <3> QED
      BY <3>1 DEF Chain
  <2> QED
    BY <2>2, <2>3
<1> QED
  BY <1>6, <1>8 DEF Chain, p

\* The oldest record goes with the page below it.
LEMMA ChainDropped ==
  ASSUME NEW s \in Seq(EditRecs), Len(s) > 1, NEW docs, NEW c \in Int,
         Chain(docs, s, c)
  PROVE  Chain([k \in 0 .. Len(s) - 1 |-> docs[k + 1]], Tail(s), c - 1)
<1> DEFINE e == [k \in 0 .. Len(s) - 1 |-> docs[k + 1]]
<1>1. /\ Tail(s) \in Seq(EditRecs) /\ Len(Tail(s)) = Len(s) - 1
      /\ \A k \in 1 .. Len(s) - 1 : Tail(s)[k] = s[k + 1]
  BY DropOldest
<1>2. Len(s) \in Nat /\ docs \in [0 .. Len(s) -> Page]
  BY DEF Chain
<1>3. /\ e \in [0 .. Len(s) - 1 -> Page]
      /\ \A k \in 0 .. Len(s) - 1 : e[k] = docs[k + 1]
  BY <1>2
<1> HIDE DEF e
<1>4. ASSUME NEW k \in 1 .. Len(s) - 1
      PROVE  Between(e[k - 1], e[k], Tail(s)[k], k <= c - 1)
  <2>1. k + 1 \in 1 .. Len(s) /\ (k + 1) - 1 = k /\ (k - 1) + 1 = k
        /\ k - 1 \in 0 .. Len(s) - 1 /\ k \in 0 .. Len(s) - 1
    BY <1>2
  <2>2. (k + 1 <= c) = (k <= c - 1)
    OBVIOUS
  <2>3. Between(docs[(k + 1) - 1], docs[k + 1], s[k + 1], k + 1 <= c)
    BY <2>1 DEF Chain
  <2>4. e[k - 1] = docs[(k + 1) - 1] /\ e[k] = docs[k + 1] /\ Tail(s)[k] = s[k + 1]
    BY <1>1, <1>3, <2>1
  <2> QED
    BY <2>2, <2>3, <2>4
<1> QED
  BY <1>1, <1>3, <1>4 DEF Chain, e

\* A record undone or redone, with the rest of the list as it was.
LEMMA ChainWalked ==
  ASSUME NEW s \in Seq(EditRecs), NEW i \in 1 .. Len(s), NEW r \in EditRecs,
         r.kind = s[i].kind, NEW docs, NEW n \in Int, NEW m \in Int,
         \/ n = i /\ m = i - 1
         \/ n = i - 1 /\ m = i,
         Chain(docs, s, n), Between(docs[i - 1], docs[i], r, i <= m)
  PROVE  Chain(docs, [s EXCEPT ![i] = r], m)
<1> DEFINE t == [s EXCEPT ![i] = r]
<1>1. /\ t \in Seq(EditRecs) /\ Len(t) = Len(s)
      /\ \A k \in 1 .. Len(s) : k # i => t[k] = s[k]
      /\ t[i] = r
  BY RenewRecord
<1> HIDE DEF t
<1>2. ASSUME NEW k \in 1 .. Len(s)
      PROVE  Between(docs[k - 1], docs[k], t[k], k <= m)
  <2>1. CASE k = i
    BY <1>1, <2>1
  <2>2. CASE k # i
    <3>1. (k <= m) = (k <= n)
      BY <2>2
    <3> QED
      BY <1>1, <2>2, <3>1 DEF Chain
  <2> QED
    BY <2>1, <2>2
<1> QED
  BY <1>1, <1>2 DEF Chain, t
-----------------------------------------------------------------------------
\* The record the buffer's page stands above: the current one, or the one
\* below it while it waits to be redone.
Shown == IF pc = "redo" THEN cur - 1 ELSE cur

\* The pages docs go with the edit list, and the buffer shows the one at its
\* position.
Shows(docs) == Chain(docs, edits, Shown) /\ docs[Shown] = PageOf(fb)

\* Every state of the list has such pages, and nothing waits beyond EOF.
Replays == BlankBeyondEof(fb) /\ \E docs : Shows(docs)

\* A step is tied to the pages before it by what becomes of the boundaries:
\* those that stay keep their page.
KeepsPages(docs, e) ==
  \A k \in 1 .. Len(edits') :
    IsBoundary(edits'[k]) =>
      k \in 1 .. Len(edits) /\ edits'[k] = edits[k] /\ e[k] = docs[k]

LEMMA ShownType ==
  ASSUME IInv
  PROVE  /\ Shown \in 0 .. Len(edits) /\ Len(edits) \in Nat
         /\ edits \in Seq(EditRecs) /\ cur \in 1 .. Len(edits)
         /\ pc = "redo" => cur < Len(edits)
         /\ IsStore(fb)
  BY DEF IInv, ListOK, ScalarsOK, WalksHaveRoom, Shown

\* A step that leaves the buffer and the position alone, and of the list
\* renews at most the boundary at the position.
LEMMA SteadyShows ==
  ASSUME IInv, IInv', NEW docs, Shows(docs), fb' = fb, cur' = cur,
         \/ edits' = edits
         \/ /\ edits' = [edits EXCEPT ![cur] = Boundary(dirty, lastFileStat)]
            /\ IsBoundary(edits[cur]),
         pc' # pc => pc # "redo" /\ (pc' = "redo" => IsBoundary(edits[cur]))
  PROVE  Shows(docs)'
<1>1. /\ cur \in 1 .. Len(edits) /\ edits \in Seq(EditRecs) /\ edits' \in Seq(EditRecs)
      /\ Shown \in 0 .. Len(edits) /\ Len(edits) \in Nat
  BY ShownType DEF IInv, ListOK
<1>2. /\ Len(edits') = Len(edits)
      /\ \A k \in 1 .. Len(edits) :
           edits'[k] = edits[k] \/ (IsBoundary(edits'[k]) /\ IsBoundary(edits[k]))
  <2>1. CASE edits' = edits
    BY <2>1
  <2>2. CASE /\ edits' = [edits EXCEPT ![cur] = Boundary(dirty, lastFileStat)]
             /\ IsBoundary(edits[cur])
    <3> DEFINE b == Boundary(dirty, lastFileStat)
    <3>1. IsBoundary(b) /\ b \in EditRecs
      BY BoundaryFields DEF IInv, ScalarsOK
    <3> HIDE DEF b
    <3>2. /\ Len(edits') = Len(edits)
          /\ \A k \in 1 .. Len(edits) : edits'[k] = IF k = cur THEN b ELSE edits[k]
      BY <1>1, <2>2, <3>1, ExceptSeq DEF b
    <3> QED
      BY <2>2, <3>1, <3>2
  <2> QED
    BY <2>1, <2>2
<1>3. Chain(docs, edits', Shown) /\ docs[Shown] = PageOf(fb')
  <2>1. Shown \in Int
    BY <1>1
  <2> QED
    BY <1>1, <1>2, <2>1, ChainRenewed DEF Shows
<1>4. CASE pc' = pc \/ pc' # "redo"
  <2>1. Shown' = Shown
    BY <1>4 DEF Shown
  <2> QED
    BY <1>3, <2>1 DEF Shows
<1>5. CASE pc' # pc /\ pc' = "redo"
  <2>1. Shown = cur /\ Shown' = cur - 1 /\ IsBoundary(edits[cur])
    BY <1>5 DEF Shown
  <2>2. IsBoundary(edits'[cur])
    BY <1>1, <1>2, <2>1
  <2>3. cur \in 1 .. Len(edits')
    BY <1>1, <1>2
  <2>4. Chain(docs, edits', cur - 1) /\ docs[cur] = docs[cur - 1]
    BY <1>1, <1>3, <2>1, <2>2, <2>3, ChainBoundary
  <2> QED
    BY <1>3, <2>1, <2>4 DEF Shows
<1> QED
  BY <1>4, <1>5

\* Commands and the traffic with the file leave the pages alone, and so does
\* the command loop where it finds a boundary.
LEMMA QuietReplays ==
  ASSUME IInv, IInv', NEW docs, Shows(docs),
         \/ Command
         \/ OtherSync
         \/ UndoInsBoundary /\ (noEdit \/ IsBoundary(edits[cur]))
  PROVE  Shows(docs)' /\ fb' = fb /\ cur' = cur
<1>1. CASE UserUndo \/ UserRedo
  <2>1. /\ pc = "fetched" /\ fb' = fb /\ cur' = cur
        /\ \/ edits' = edits
           \/ edits' = [edits EXCEPT ![cur] = Boundary(dirty, lastFileStat)]
    BY <1>1 DEF UserUndo, UserRedo, StartWalk
  <2>2. IsBoundary(edits[cur])
    BY <2>1 DEF IInv, SealedWhereWalksBegin
  <2> QED
    BY <2>1, <2>2, SteadyShows
<1>2. CASE ToglNoEdit \/ \E m \in MaxUndoValues : SetMaxUndo(m)
  <2>1. Running /\ pc' = "loop" /\ fb' = fb /\ cur' = cur /\ edits' = edits
    BY <1>2 DEF ToglNoEdit, SetMaxUndo, Running
  <2> QED
    BY <2>1, SteadyShows DEF Running
<1>3. CASE OtherSync
  <2>1. /\ fb' = fb /\ cur' = cur /\ edits' = edits
        /\ pc' = pc \/ (Running /\ pc' = "loop")
    BY <1>3 DEF OtherSync, WriteToDisk, WrittenElsewhere, DeclineRefresh, DiskChanged
  <2> QED
    BY <2>1, SteadyShows DEF Running
<1>4. CASE UndoInsBoundary /\ (noEdit \/ IsBoundary(edits[cur]))
  <2>1. /\ pc = "loop" /\ pc' = "fetched" /\ fb' = fb /\ cur' = cur
        /\ \/ edits' = edits
           \/ /\ edits' = [edits EXCEPT ![cur] = Boundary(dirty, lastFileStat)]
              /\ IsBoundary(edits[cur])
    BY <1>4 DEF UndoInsBoundary, undoVars
  <2> QED
    BY <2>1, SteadyShows
<1> QED
  BY <1>1, <1>2, <1>3, <1>4 DEF Command

\* A record added to the list by an edit.
LEMMA AddedReplays ==
  ASSUME IInv, IInv', NEW docs, Shows(docs), Running, pc' # "redo",
         NEW er \in EditRecs, edits' = Append(KeptEdits, er), cur' = cur + 1,
         Made(PageOf(fb), PageOf(fb'), er)
  PROVE  \E e : /\ Shows(e)'
                /\ \A k \in 0 .. cur : e[k] = docs[k]
                /\ e[cur + 1] = PageOf(fb')
<1>1. /\ cur \in 1 .. Len(edits) /\ edits \in Seq(EditRecs)
      /\ Shown = cur /\ Shown' = cur + 1
  BY ShownType DEF Shown, Running
<1>2. PageOf(fb') \in Page
  BY PageType DEF IInv, ScalarsOK
<1>3. Chain(docs, edits, cur) /\ Made(docs[cur], PageOf(fb'), er)
  BY <1>1 DEF Shows
<1>4. edits' = ListWith(edits, cur, er)
  BY DEF KeptEdits, ListWith
<1>5. PICK e : /\ Chain(e, edits', cur + 1)
               /\ e[cur + 1] = PageOf(fb')
               /\ \A k \in 0 .. cur : e[k] = docs[k]
  BY <1>1, <1>2, <1>3, <1>4, ChainAppended
<1>6. Chain(e, edits', Shown') /\ e[Shown'] = PageOf(fb')
  BY <1>1, <1>5
<1> QED
  BY <1>5, <1>6 DEF Shows

\* The boundaries below a record an edit adds keep their pages.
LEMMA AddedKeeps ==
  ASSUME IInv, IInv', NEW docs, Shows(docs), Running, pc' # "redo",
         NEW er \in EditRecs, edits' = Append(KeptEdits, er), cur' = cur + 1,
         Made(PageOf(fb), PageOf(fb'), er), ~IsBoundary(er)
  PROVE  \E e : Shows(e)' /\ KeepsPages(docs, e)
<1>1. PICK e : /\ Shows(e)'
               /\ \A k \in 0 .. cur : e[k] = docs[k]
  BY AddedReplays
<1>2. cur \in 1 .. Len(edits) /\ edits \in Seq(EditRecs) /\ Len(edits) \in Nat
  BY ShownType
<1>3. /\ Len(edits') = cur + 1
      /\ \A k \in 1 .. cur : edits'[k] = edits[k]
      /\ edits'[cur + 1] = er
  BY <1>2, AppendAfter DEF KeptEdits
<1>4. ASSUME NEW k \in 1 .. cur + 1, IsBoundary(edits'[k])
      PROVE  k \in 1 .. Len(edits) /\ edits'[k] = edits[k] /\ e[k] = docs[k]
  <2>1. k # cur + 1
    BY <1>3, <1>4
  <2>2. k \in 1 .. cur /\ k \in 0 .. cur
    BY <1>2, <2>1
  <2> QED
    BY <1>1, <1>2, <1>3, <2>2
<1> QED
  BY <1>1, <1>3, <1>4 DEF KeepsPages

\* FBUF::UndoInsBoundary, where it adds a boundary.
LEMMA CommitReplays ==
  ASSUME IInv, IInv', NEW docs, Shows(docs), UndoInsBoundary,
         ~noEdit, ~IsBoundary(edits[cur])
  PROVE  \E e : /\ Shows(e)'
                /\ \A k \in 0 .. cur : e[k] = docs[k]
                /\ e[cur + 1] = PageOf(fb)
<1> DEFINE b == Boundary(dirty, lastFileStat)
<1>1. b \in EditRecs /\ IsBoundary(b)
  BY BoundaryFields DEF IInv, ScalarsOK
<1>2. /\ Running /\ pc' # "redo" /\ fb' = fb
      /\ edits' = Append(KeptEdits, b) /\ cur' = cur + 1
  BY DEF UndoInsBoundary, Running
<1> HIDE DEF b
<1>3. Made(PageOf(fb), PageOf(fb'), b)
  BY <1>1, <1>2 DEF Made, Between, IsBoundary
<1>4. \E e : /\ Shows(e)'
             /\ \A k \in 0 .. cur : e[k] = docs[k]
             /\ e[cur + 1] = PageOf(fb')
  BY <1>1, <1>2, <1>3, AddedReplays
<1> QED
  BY <1>2, <1>4

\* One record pruned.
LEMMA PruneReplays ==
  ASSUME IInv, IInv', NEW docs, Shows(docs), PruneStep, undoCount > maxUndo
  PROVE  \E e : /\ Shows(e)'
                /\ \A k \in 0 .. Len(edits) - 1 : e[k] = docs[k + 1]
<1>1. /\ pc = "prune" /\ pc' = "prune" /\ fb' = fb
      /\ edits' = Tail(edits) /\ cur' = cur - 1
  BY DEF PruneStep
<1>2. /\ cur \in 1 .. Len(edits) /\ edits \in Seq(EditRecs) /\ Len(edits) \in Nat
      /\ cur' >= 1 /\ Shown = cur /\ Shown' = cur - 1
  BY <1>1, ShownType DEF Shown, IInv, ListOK
<1>3. Len(edits) > 1 /\ cur \in Int
  BY <1>1, <1>2
<1> DEFINE e == [k \in 0 .. Len(edits) - 1 |-> docs[k + 1]]
<1>4. Chain(e, edits', cur - 1)
  BY <1>1, <1>2, <1>3, ChainDropped DEF Shows
<1>5. \A k \in 0 .. Len(edits) - 1 : e[k] = docs[k + 1]
  OBVIOUS
<1> HIDE DEF e
<1>6. e[cur - 1] = PageOf(fb')
  <2>1. cur - 1 \in 0 .. Len(edits) - 1 /\ (cur - 1) + 1 = cur
    BY <1>2
  <2> QED
    BY <1>1, <1>2, <1>5, <2>1 DEF Shows
<1>7. Chain(e, edits', Shown') /\ e[Shown'] = PageOf(fb')
  BY <1>2, <1>4, <1>6
<1> QED
  BY <1>5, <1>7 DEF Shows

\* A buffer just read from lines.
LEMMA RestartReplays ==
  ASSUME NEW lines \in Seq(Content), NEW s, s = <<Boundary(FALSE, NoStat)>>
  PROVE  /\ BlankBeyondEof(StoreOf(lines))
         /\ PageOf(StoreOf(lines)) = PageOfLines(lines)
         /\ \E docs : Chain(docs, s, 1) /\ docs[1] = PageOfLines(lines)
<1> DEFINE p == PageOfLines(lines)
           docs == [k \in 0 .. 1 |-> p]
<1>1. /\ IsStore(StoreOf(lines)) /\ BlankBeyondEof(StoreOf(lines))
      /\ PageOf(StoreOf(lines)) = p
  BY StoreOfType, StoreOfPage
<1>2. p \in Page
  BY <1>1, PageType
<1>3. Len(s) = 1 /\ IsBoundary(s[1])
  BY OneBoundary
<1> HIDE DEF p
<1>4. docs \in [0 .. Len(s) -> Page] /\ docs[0] = p /\ docs[1] = p
  BY <1>2, <1>3
<1> HIDE DEF docs
<1>5. ASSUME NEW k \in 1 .. Len(s)
      PROVE  Between(docs[k - 1], docs[k], s[k], k <= 1)
  <2>1. k = 1 /\ k - 1 = 0
    BY <1>3
  <2> QED
    BY <1>3, <1>4, <2>1 DEF Between, IsBoundary
<1>6. Chain(docs, s, 1)
  BY <1>4, <1>5 DEF Chain
<1> QED
  BY <1>1, <1>4, <1>6 DEF p

\* FBUF::PutLineRaw
LEMMA PutLineReplays ==
  ASSUME IInv, IInv', BlankBeyondEof(fb), NEW docs, Shows(docs),
         NEW y \in 0 .. MaxLine, NEW c \in Content, PutLine(y, c)
  PROVE  /\ BlankBeyondEof(fb')
         /\ \E e : Shows(e)' /\ KeepsPages(docs, e)
<1> DEFINE wide  == LineInfoReserve(fb, y + 1)
           grown == IF fb.lineCount < y + 1 THEN SetLineCount(wide, y + 1) ELSE fb
           er    == AltLine(grown.lineCount, y, grown.li[y])
           p     == PageOf(fb)
           q     == [p EXCEPT ![y] = c]
<1>1. /\ Running /\ pc' = "loop"
      /\ fb' = [grown EXCEPT !.li[y] = c]
      /\ IF IsAltContentOfLine(Newest, y)
           THEN UNCHANGED undoVars ELSE AddEdit(er)
  BY DEF PutLine, MayEdit
<1>2. /\ y \in Nat /\ y + 1 \in Nat /\ IsStore(fb)
      /\ fb.lineCount \in Nat /\ fb.capacity \in Nat /\ fb.lineCount <= fb.capacity
  BY BoundsAssumption, ShownType, StoreTypes
<1>3. /\ IsStore(wide) /\ wide.lineCount = fb.lineCount
      /\ wide.capacity >= y + 1 /\ PageOf(wide) = p
  BY <1>2, ReserveKeeps, ReservePage
<1>4. p \in Page /\ BlankFrom(p, fb.lineCount)
  BY <1>2, PageType
<1> HIDE DEF wide, p
<1>5. /\ IsStore(grown) /\ y < grown.lineCount
      /\ PageOf(grown) = p /\ BlankFrom(p, grown.lineCount)
  <2>1. CASE fb.lineCount < y + 1
    <3>1. y + 1 <= wide.capacity /\ BlankFrom(p, y + 1)
      BY <1>2, <1>3, <1>4, <2>1, StoreTypes DEF BlankFrom
    <3>2. LET g == SetLineCount(wide, y + 1)
          IN  IsStore(g) /\ g.lineCount = y + 1 /\ PageOf(g) = p
      BY <1>2, <1>3, <3>1, SetCountKeeps, CountPage
    <3> QED
      BY <1>2, <2>1, <3>1, <3>2
  <2>2. CASE ~(fb.lineCount < y + 1)
    BY <1>2, <1>4, <2>2 DEF p
  <2> QED
    BY <2>1, <2>2
<1> HIDE DEF grown
<1>6. /\ grown.lineCount \in Nat /\ grown.capacity \in Nat
      /\ y < grown.capacity /\ grown.li[y] \in Content /\ grown.li[y] = p[y]
  BY <1>2, <1>5, StoreTypes DEF PageOf
<1>7. IsStore([grown EXCEPT !.li[y] = c]) /\ [grown EXCEPT !.li[y] = c].lineCount = grown.lineCount
  BY <1>2, <1>5, SetEntryKeeps
<1>8. PageOf([grown EXCEPT !.li[y] = c]) = q
  BY <1>2, <1>5, <1>6, EntryPage
<1>9. PageOf(fb') = q /\ IsStore(fb') /\ fb'.lineCount = grown.lineCount
  BY <1>1, <1>7, <1>8
<1>10. BlankBeyondEof(fb')
  <2>1. BlankFrom(q, grown.lineCount)
    BY <1>2, <1>4, <1>5, <1>6 DEF BlankFrom, Page
  <2> QED
    BY <1>9, <2>1, PageType
<1>11. /\ cur \in 1 .. Len(edits) /\ edits \in Seq(EditRecs) /\ Len(edits) \in Nat
       /\ Shown = cur /\ Chain(docs, edits, cur) /\ docs[cur] = p
  BY <1>1, ShownType DEF Shown, Running, Shows, p
<1>12. CASE IsAltContentOfLine(Newest, y)
  <2>1. edits' = edits /\ cur' = cur
    BY <1>1, <1>12 DEF undoVars
  <2>2. cur = Len(edits) /\ edits[cur].kind = "alt" /\ edits[cur].line = y
    BY <1>11, <1>12 DEF IsAltContentOfLine, Newest, IInv, UndoneTailIsSealed, IsBoundary
  <2>3. PICK e : /\ Chain(e, edits, cur)
                 /\ e[cur] = [docs[cur] EXCEPT ![edits[cur].line] = c]
                 /\ \A k \in 0 .. cur - 1 : e[k] = docs[k]
    BY <1>11, <2>2, ChainCoalesced
  <2>4. Shown' = cur
    BY <1>1, <2>1 DEF Shown
  <2>5. Chain(e, edits', Shown') /\ e[Shown'] = PageOf(fb')
    BY <1>9, <1>11, <2>1, <2>2, <2>3, <2>4
  <2>6. KeepsPages(docs, e)
    <3>1. ASSUME NEW k \in 1 .. Len(edits), IsBoundary(edits[k])
          PROVE  e[k] = docs[k]
      BY <1>11, <2>2, <2>3, <3>1 DEF IsBoundary
    <3> QED
      BY <2>1, <3>1 DEF KeepsPages
  <2> QED
    BY <1>10, <2>5, <2>6 DEF Shows
<1>13. CASE ~IsAltContentOfLine(Newest, y)
  <2>1. /\ er \in EditRecs /\ er.kind = "alt" /\ er.count = grown.lineCount
        /\ er.line = y /\ er.li = p[y]
    BY <1>2, <1>6, AltLineFields
  <2>2. AddEdit(er)
    BY <1>1, <1>13
  <2> HIDE DEF er
  <2>3. edits' = Append(KeptEdits, er) /\ cur' = cur + 1
    BY <2>2 DEF AddEdit
  <2>4. p = [q EXCEPT ![y] = p[y]]
    BY <1>2, <1>4 DEF Page
  <2>5. Made(p, q, er)
    BY <1>5, <2>1, <2>4 DEF Made, Between
  <2>6. Made(PageOf(fb), PageOf(fb'), er)
    BY <1>9, <2>5 DEF p
  <2> QED
    BY <1>1, <1>10, <2>1, <2>3, <2>6, AddedKeeps DEF IsBoundary
<1> QED
  BY <1>12, <1>13

\* FBUF::InsBlankLinesBefore
LEMMA InsBlankLinesReplays ==
  ASSUME IInv, IInv', BlankBeyondEof(fb), NEW docs, Shows(docs),
         NEW y \in 0 .. MaxLine, NEW n \in 1 .. MaxInsert, InsBlankLinesBefore(y, n)
  PROVE  /\ BlankBeyondEof(fb')
         /\ \E e : Shows(e)' /\ KeepsPages(docs, e)
<1>1. Running /\ pc' = "loop" /\ fb' = InsertLines(fb, y, n)
  BY DEF InsBlankLinesBefore, MayEdit
<1>2. y \in Nat /\ n \in Nat \ {0} /\ n \in Nat /\ IsStore(fb) /\ fb.lineCount \in Nat
  BY BoundsAssumption, ShownType, StoreTypes
<1>3. PageOf(fb') = Opened(PageOf(fb), y, n) /\ BlankBeyondEof(fb')
  BY <1>1, <1>2, InsertPage
<1>4. CASE fb.lineCount <= y
  <2>1. edits' = edits /\ cur' = cur
    BY <1>4 DEF InsBlankLinesBefore, undoVars
  <2>2. PageOf(fb') = PageOf(fb)
    <3>1. fb' = LineInfoReserve(fb, y + n) /\ y + n \in Nat
      BY <1>1, <1>2, <1>4 DEF InsertLines
    <3> QED
      BY <1>2, <3>1, ReservePage
  <2>3. Shown' = Shown
    BY <1>1, <2>1 DEF Shown, Running
  <2>4. Shows(docs)'
    BY <2>1, <2>2, <2>3 DEF Shows
  <2> QED
    BY <1>3, <2>1, <2>4 DEF KeepsPages
<1>5. CASE ~(fb.lineCount <= y)
  <2> DEFINE er == RangeInsert(fb.lineCount, y, n)
  <2>1. AddEdit(er)
    BY <1>5 DEF InsBlankLinesBefore
  <2>2. /\ er \in EditRecs /\ er.kind = "ins" /\ er.count = fb.lineCount
        /\ er.first = y /\ er.n = n
    BY <1>2, RangeInsertFields
  <2> HIDE DEF er
  <2>3. edits' = Append(KeptEdits, er) /\ cur' = cur + 1
    BY <2>1 DEF AddEdit
  <2>4. BlankFrom(PageOf(fb), fb.lineCount)
    BY <1>2, PageType
  <2>5. Made(PageOf(fb), PageOf(fb'), er)
    BY <1>3, <2>2, <2>4 DEF Made, Between
  <2> QED
    BY <1>1, <1>3, <2>2, <2>3, <2>5, AddedKeeps DEF IsBoundary
<1> QED
  BY <1>4, <1>5

\* FBUF::DelLines
LEMMA DelLinesReplays ==
  ASSUME IInv, IInv', BlankBeyondEof(fb), NEW docs, Shows(docs),
         NEW first \in 0 .. MaxLine, NEW asked \in 0 .. MaxLine,
         DelLines(first, asked)
  PROVE  /\ BlankBeyondEof(fb')
         /\ \E e : Shows(e)' /\ KeepsPages(docs, e)
<1> DEFINE last == IF asked > LastLine(fb) THEN LastLine(fb) ELSE asked
           n    == last - first + 1
           s    == Slice(fb, first, n)
           er   == RangeDelete(fb.lineCount, first, n, s, TRUE)
<1>1. /\ Running /\ pc' = "loop"
      /\ first <= LastLine(fb) /\ first <= asked
      /\ AddEdit(er)
      /\ fb' = DeleteLines(fb, first, asked)
  BY DEF DelLines, MayEdit
<1>2. /\ first \in Nat /\ asked \in Nat /\ asked \in Int /\ IsStore(fb)
      /\ fb.lineCount \in Nat /\ fb.capacity \in Nat /\ fb.lineCount <= fb.capacity
      /\ LastLine(fb) = fb.lineCount - 1
  BY BoundsAssumption, ShownType, StoreTypes DEF LastLine
<1>3. last \in first .. LastLine(fb) /\ (last = asked \/ (last = LastLine(fb) /\ asked >= last))
  BY <1>1, <1>2
<1> HIDE DEF last
<1>4. /\ n \in Nat \ {0} /\ n \in Nat /\ first + n <= fb.capacity
      /\ \/ asked = first + n - 1
         \/ asked >= first + n - 1 /\ first + n = fb.lineCount
  BY <1>2, <1>3
<1> HIDE DEF n
<1>5. PageOf(fb') = Closed(PageOf(fb), first, n) /\ BlankBeyondEof(fb')
  BY <1>1, <1>2, <1>4, DeletePage
<1>6. s \in [0 .. n - 1 -> Content] /\ \A i \in 0 .. n - 1 : s[i] = PageOf(fb)[first + i]
  <2>1. Slice(fb, first, n) \in [0 .. n - 1 -> Content]
    BY <1>2, <1>4, SliceType
  <2>2. ASSUME NEW i \in 0 .. n - 1
        PROVE  Slice(fb, first, n)[i] = PageOf(fb)[first + i]
    BY <1>2, <1>4, SlicePage
  <2> QED
    BY <2>1, <2>2
<1> HIDE DEF s
<1>7. /\ er.kind = "del" /\ er.count = fb.lineCount /\ er.first = first
      /\ er.n = n /\ er.saved = s
  BY DEF RangeDelete
<1> HIDE DEF er
<1>8. edits' = Append(KeptEdits, er) /\ cur' = cur + 1
  BY <1>1 DEF AddEdit
<1>9. er \in EditRecs
  <2>1. s \in UNION {[0 .. m - 1 -> Content] : m \in Nat}
    BY <1>4, <1>6
  <2>2. er = [kind |-> "del", count |-> fb.lineCount, first |-> first, n |-> n,
              saved |-> s, applied |-> TRUE]
    BY DEF er, RangeDelete
  <2> QED
    BY <1>2, <1>4, <1>6, <2>1, <2>2 DEF EditRecs
<1>10. BlankFrom(PageOf(fb), fb.lineCount)
  BY <1>2, PageType
<1>11. Made(PageOf(fb), PageOf(fb'), er)
  BY <1>5, <1>6, <1>7, <1>10 DEF Made, Between
<1> QED
  BY <1>1, <1>5, <1>7, <1>8, <1>9, <1>11, AddedKeeps DEF IsBoundary

\* FBUF::Undo_EdOpUndo and FBUF::Undo_EdOpRedo move between the pages of the
\* list and leave them, and its boundaries, as they are.
LEMMA WalkKeepsPages ==
  ASSUME IInv, NEW docs, NEW r \in EditRecs, r.kind = edits[cur].kind,
         IsBoundary(edits[cur]) => r = edits[cur],
         edits' = [edits EXCEPT ![cur] = r]
  PROVE  /\ edits' \in Seq(EditRecs) /\ Len(edits') = Len(edits)
         /\ KeepsPages(docs, docs)
<1>1. cur \in 1 .. Len(edits) /\ edits \in Seq(EditRecs)
  BY ShownType
<1>2. /\ edits' \in Seq(EditRecs) /\ Len(edits') = Len(edits)
      /\ \A k \in 1 .. Len(edits) : k # cur => edits'[k] = edits[k]
      /\ edits'[cur] = r
  BY <1>1, RenewRecord
<1>3. ASSUME NEW k \in 1 .. Len(edits), IsBoundary(edits'[k])
      PROVE  edits'[k] = edits[k]
  BY <1>2, <1>3 DEF IsBoundary
<1> QED
  BY <1>2, <1>3 DEF KeepsPages

LEMMA EdOpUndoReplays ==
  ASSUME IInv, BlankBeyondEof(fb), NEW docs, Shows(docs), EdOpUndo
  PROVE  BlankBeyondEof(fb') /\ Shows(docs)' /\ KeepsPages(docs, docs)
<1> DEFINE er == edits[cur]
           r  == UndoneRec(fb, er)
<1>1. /\ pc = "undo" /\ fb' = Undone(fb, er) /\ edits' = [edits EXCEPT ![cur] = r]
      /\ cur' = cur - 1 /\ pc' \in {"undo", "loop"}
  BY DEF EdOpUndo, Arrive
<1>2. /\ cur \in 1 .. Len(edits) /\ edits \in Seq(EditRecs) /\ Len(edits) \in Nat
      /\ IsStore(fb) /\ er \in EditRecs /\ Fits(er, fb)
      /\ Shown = cur /\ Shown' = cur - 1
  BY <1>1, ShownType, RecordsFitEach DEF IInv, Shown
<1>3. /\ Chain(docs, edits, cur) /\ docs[cur] = PageOf(fb)
      /\ docs[cur - 1] \in Page /\ docs[cur] \in Page
  BY <1>2 DEF Shows, Chain
<1>4. r \in EditRecs /\ r.kind = er.kind
  BY <1>2, UndoneKeeps
<1>5. IsBoundary(er) => r = er
  BY DEF UndoneRec, IsBoundary
<1> HIDE DEF r
<1>6. KeepsPages(docs, docs)
  BY <1>1, <1>4, <1>5, WalkKeepsPages
<1>7. Made(docs[cur - 1], docs[cur], er)
  <2>1. (cur <= cur) = TRUE
    BY <1>2
  <2> QED
    BY <1>2, <1>3, <2>1 DEF Chain, Made
<1>8. /\ PageOf(fb') = docs[cur - 1] /\ BlankBeyondEof(fb')
      /\ Unmade(docs[cur - 1], docs[cur], r)
  BY <1>1, <1>2, <1>3, <1>7, UndoneReplays DEF r
<1>9. Chain(docs, edits', cur - 1)
  <2>1. (cur <= cur - 1) = FALSE /\ cur \in Int /\ cur - 1 \in Int
    BY <1>2
  <2>2. Between(docs[cur - 1], docs[cur], r, cur <= cur - 1)
    BY <1>8, <2>1 DEF Unmade
  <2> QED
    BY <1>1, <1>2, <1>3, <1>4, <2>1, <2>2, ChainWalked
<1>10. Chain(docs, edits', Shown') /\ docs[Shown'] = PageOf(fb')
  BY <1>2, <1>8, <1>9
<1> QED
  BY <1>6, <1>8, <1>10 DEF Shows

LEMMA EdOpRedoReplays ==
  ASSUME IInv, BlankBeyondEof(fb), NEW docs, Shows(docs), EdOpRedo
  PROVE  BlankBeyondEof(fb') /\ Shows(docs)' /\ KeepsPages(docs, docs)
<1> DEFINE er == edits[cur]
           r  == RedoneRec(fb, er)
<1>1. /\ pc = "redo" /\ fb' = Redone(fb, er) /\ edits' = [edits EXCEPT ![cur] = r]
      /\ cur' = cur + 1
      /\ IF IsBoundary(edits'[cur + 1]) THEN pc' = "loop" ELSE pc' = "redo"
  BY DEF EdOpRedo, Arrive
<1>2. /\ cur \in 1 .. Len(edits) /\ edits \in Seq(EditRecs) /\ Len(edits) \in Nat
      /\ IsStore(fb) /\ er \in EditRecs /\ Fits(er, fb)
      /\ Shown = cur - 1 /\ cur < Len(edits)
  BY <1>1, ShownType, RecordsFitEach DEF IInv, Shown
<1>3. /\ Chain(docs, edits, cur - 1) /\ docs[cur - 1] = PageOf(fb)
      /\ docs[cur - 1] \in Page /\ docs[cur] \in Page
  BY <1>2 DEF Shows, Chain
<1>4. r \in EditRecs /\ r.kind = er.kind
  BY <1>2, RedoneKeeps
<1>5. IsBoundary(er) => r = er
  BY DEF RedoneRec, IsBoundary
<1> HIDE DEF r
<1>6. KeepsPages(docs, docs) /\ edits' \in Seq(EditRecs) /\ Len(edits') = Len(edits)
  BY <1>1, <1>4, <1>5, WalkKeepsPages
<1>7. Unmade(docs[cur - 1], docs[cur], er)
  <2>1. (cur <= cur - 1) = FALSE
    BY <1>2
  <2> QED
    BY <1>2, <1>3, <2>1 DEF Chain, Unmade
<1>8. /\ PageOf(fb') = docs[cur] /\ BlankBeyondEof(fb')
      /\ Made(docs[cur - 1], docs[cur], r)
  BY <1>1, <1>2, <1>3, <1>7, RedoneReplays DEF r
<1>9. Chain(docs, edits', cur)
  <2>1. (cur <= cur) = TRUE /\ cur \in Int /\ cur - 1 \in Int
    BY <1>2
  <2>2. Between(docs[cur - 1], docs[cur], r, cur <= cur)
    BY <1>8, <2>1 DEF Made
  <2> QED
    BY <1>1, <1>2, <1>3, <1>4, <2>1, <2>2, ChainWalked
<1>10. Chain(docs, edits', Shown') /\ docs[Shown'] = PageOf(fb')
  <2>1. CASE IsBoundary(edits'[cur + 1])
    <3>1. cur + 1 \in 1 .. Len(edits') /\ (cur + 1) - 1 = cur
      BY <1>2, <1>6
    <3>2. Chain(docs, edits', cur + 1) /\ docs[cur + 1] = docs[cur]
      BY <1>6, <1>9, <2>1, <3>1, ChainBoundary
    <3>3. Shown' = cur + 1
      BY <1>1, <2>1 DEF Shown
    <3> QED
      BY <1>8, <3>2, <3>3
  <2>2. CASE ~IsBoundary(edits'[cur + 1])
    <3>1. Shown' = cur
      BY <1>1, <1>2, <2>2 DEF Shown
    <3> QED
      BY <1>8, <1>9, <3>1
  <2> QED
    BY <2>1, <2>2
<1> QED
  BY <1>6, <1>8, <1>10 DEF Shows

\* An edit that does not mark the buffer dirty has written nothing: it asked
\* for lines beyond EOF.
LEMMA EditDirties ==
  ASSUME IInv, BlankBeyondEof(fb), Edit
  PROVE  /\ Running /\ pc' = "loop" /\ UNCHANGED <<lastFileStat, disk, clock>>
         /\ dirty' \/ (PageOf(fb') = PageOf(fb) /\ UNCHANGED <<dirty, undoVars>>)
<1>1. CASE \E y \in 0 .. MaxLine, c \in Content : PutLine(y, c)
  BY <1>1 DEF PutLine, MayEdit
<1>2. CASE \E first \in 0 .. MaxLine, last \in 0 .. MaxLine : DelLines(first, last)
  BY <1>2 DEF DelLines, MayEdit
<1>3. ASSUME NEW y \in 0 .. MaxLine, NEW n \in 1 .. MaxInsert, InsBlankLinesBefore(y, n)
      PROVE  /\ Running /\ pc' = "loop" /\ UNCHANGED <<lastFileStat, disk, clock>>
             /\ dirty' \/ (PageOf(fb') = PageOf(fb) /\ UNCHANGED <<dirty, undoVars>>)
  <2>1. /\ Running /\ pc' = "loop" /\ UNCHANGED <<lastFileStat, disk, clock>>
        /\ fb' = InsertLines(fb, y, n)
    BY <1>3 DEF InsBlankLinesBefore, MayEdit
  <2>2. CASE fb.lineCount <= y
    <3>1. UNCHANGED <<dirty, undoVars>>
      BY <1>3, <2>2 DEF InsBlankLinesBefore
    <3>2. y \in Nat /\ n \in Nat /\ IsStore(fb)
      BY BoundsAssumption, ShownType
    <3>3. fb' = LineInfoReserve(fb, y + n) /\ y + n \in Nat
      BY <2>1, <2>2, <3>2 DEF InsertLines
    <3>4. PageOf(fb') = PageOf(fb)
      BY <3>2, <3>3, ReservePage
    <3> QED
      BY <2>1, <3>1, <3>4
  <2>3. CASE ~(fb.lineCount <= y)
    BY <1>3, <2>1, <2>3 DEF InsBlankLinesBefore
  <2> QED
    BY <2>2, <2>3
<1> QED
  BY <1>1, <1>2, <1>3 DEF Edit

LEMMA EditReplays ==
  ASSUME IInv, IInv', BlankBeyondEof(fb), NEW docs, Shows(docs), Edit
  PROVE  /\ BlankBeyondEof(fb')
         /\ \E e : Shows(e)' /\ KeepsPages(docs, e)
  BY PutLineReplays, InsBlankLinesReplays, DelLinesReplays DEF Edit
-----------------------------------------------------------------------------
\* Every boundary of a step's list was there before, with its page, or has
\* just been given the state of a buffer that is not in a walk.
CarriesPages(docs, e) ==
  \A k \in 1 .. Len(edits') :
    IsBoundary(edits'[k]) =>
      \/ \E j \in 1 .. Len(edits) : edits'[k] = edits[j] /\ e[k] = docs[j]
      \/ /\ Running
         /\ edits'[k] = Boundary(dirty, lastFileStat)
         /\ e[k] = PageOf(fb)

LEMMA KeepsCarries ==
  ASSUME NEW docs, NEW e, KeepsPages(docs, e)
  PROVE  CarriesPages(docs, e)
  BY DEF KeepsPages, CarriesPages

\* The same for the steps that QuietReplays is about.
LEMMA QuietCarries ==
  ASSUME IInv, NEW docs, Shows(docs),
         \/ Command
         \/ OtherSync
         \/ UndoInsBoundary /\ (noEdit \/ IsBoundary(edits[cur]))
  PROVE  CarriesPages(docs, docs)
<1> DEFINE b == Boundary(dirty, lastFileStat)
<1>1. \/ edits' = edits
      \/ Running /\ edits' = [edits EXCEPT ![cur] = b]
  BY DEF Command, UserUndo, UserRedo, StartWalk, ToglNoEdit, SetMaxUndo, OtherSync,
         WriteToDisk, WrittenElsewhere, DeclineRefresh, UndoInsBoundary, undoVars,
         Running
<1>2. cur \in 1 .. Len(edits) /\ edits \in Seq(EditRecs)
  BY ShownType
<1>3. CASE edits' = edits
  BY <1>3 DEF CarriesPages
<1>4. CASE Running /\ edits' = [edits EXCEPT ![cur] = b]
  <2>1. /\ Len(edits') = Len(edits)
        /\ \A k \in 1 .. Len(edits) : edits'[k] = IF k = cur THEN b ELSE edits[k]
    BY <1>2, <1>4
  <2>2. docs[cur] = PageOf(fb)
    BY <1>4 DEF Shows, Shown, Running
  <2> QED
    BY <1>4, <2>1, <2>2 DEF CarriesPages
<1> QED
  BY <1>1, <1>3, <1>4

\* Every step but a refresh carries the pages on.
LEMMA StepReplays ==
  ASSUME IInv, IInv', BlankBeyondEof(fb), NEW docs, Shows(docs), [Next]_vars
  PROVE  \/ ReadFromDisk
         \/ /\ BlankBeyondEof(fb')
            /\ \E e : Shows(e)' /\ CarriesPages(docs, e)
<1>1. CASE \/ Command
           \/ OtherSync
           \/ UndoInsBoundary /\ (noEdit \/ IsBoundary(edits[cur]))
  BY <1>1, QuietReplays, QuietCarries
<1>2. CASE UndoInsBoundary /\ ~noEdit /\ ~IsBoundary(edits[cur])
  <2>1. PICK e : /\ Shows(e)'
                 /\ \A k \in 0 .. cur : e[k] = docs[k]
                 /\ e[cur + 1] = PageOf(fb)
    BY <1>2, CommitReplays
  <2>2. /\ Running /\ fb' = fb
        /\ edits' = Append(KeptEdits, Boundary(dirty, lastFileStat))
    BY <1>2 DEF UndoInsBoundary, Running
  <2>3. cur \in 1 .. Len(edits) /\ edits \in Seq(EditRecs) /\ Len(edits) \in Nat
    BY ShownType
  <2>4. /\ Len(edits') = cur + 1
        /\ \A k \in 1 .. cur : edits'[k] = edits[k]
        /\ edits'[cur + 1] = Boundary(dirty, lastFileStat)
    <3>1. Boundary(dirty, lastFileStat) \in EditRecs
      BY BoundaryFields DEF IInv, ScalarsOK
    <3> QED
      BY <2>2, <2>3, <3>1, AppendAfter DEF KeptEdits
  <2>5. ASSUME NEW k \in 1 .. cur + 1
        PROVE  \/ \E j \in 1 .. Len(edits) : edits'[k] = edits[j] /\ e[k] = docs[j]
               \/ edits'[k] = Boundary(dirty, lastFileStat) /\ e[k] = PageOf(fb)
    <3>1. CASE k = cur + 1
      BY <2>1, <2>4, <3>1
    <3>2. CASE k # cur + 1
      <4>1. k \in 1 .. cur /\ k \in 0 .. cur /\ k \in 1 .. Len(edits)
        BY <2>3, <3>2
      <4> QED
        BY <2>1, <2>4, <4>1
    <3> QED
      BY <3>1, <3>2
  <2>6. CarriesPages(docs, e)
    BY <2>2, <2>4, <2>5 DEF CarriesPages
  <2> QED
    BY <2>1, <2>2, <2>6
<1>3. CASE PruneStep
  <2>1. CASE undoCount > maxUndo
    <3>1. PICK e : /\ Shows(e)'
                   /\ \A k \in 0 .. Len(edits) - 1 : e[k] = docs[k + 1]
      BY <1>3, <2>1, PruneReplays
    <3>2. fb' = fb /\ edits' = Tail(edits)
      BY <1>3, <2>1 DEF PruneStep
    <3>3. edits \in Seq(EditRecs) /\ Len(edits) \in Nat /\ Len(edits) > 1
      BY <1>3, <2>1, ShownType DEF PruneStep, IInv, ListOK
    <3>4. /\ Len(edits') = Len(edits) - 1
          /\ \A k \in 1 .. Len(edits) - 1 : edits'[k] = edits[k + 1]
      BY <3>2, <3>3, DropOldest
    <3>5. ASSUME NEW k \in 1 .. Len(edits) - 1
          PROVE  \E j \in 1 .. Len(edits) : edits'[k] = edits[j] /\ e[k] = docs[j]
      <4>1. k + 1 \in 1 .. Len(edits) /\ k \in 0 .. Len(edits) - 1
        BY <3>3
      <4> QED
        BY <3>1, <3>4, <4>1
    <3>6. CarriesPages(docs, e)
      BY <3>4, <3>5 DEF CarriesPages
    <3> QED
      BY <3>1, <3>2, <3>6
  <2>2. CASE ~(undoCount > maxUndo)
    <3>1. pc = "prune" /\ pc' = "fetched" /\ fb' = fb /\ cur' = cur /\ edits' = edits
      BY <1>3, <2>2 DEF PruneStep, undoVars
    <3>2. Shows(docs)'
      BY <3>1, SteadyShows
    <3> QED
      BY <3>1, <3>2 DEF CarriesPages
  <2> QED
    BY <2>1, <2>2
<1>4. CASE Edit
  BY <1>4, EditReplays, KeepsCarries
<1>5. CASE Walk
  BY <1>5, EdOpUndoReplays, EdOpRedoReplays, KeepsCarries DEF Walk
<1>6. CASE UNCHANGED vars
  <2>1. fb' = fb /\ edits' = edits /\ cur' = cur /\ pc' = pc
    BY <1>6 DEF vars
  <2>2. Shows(docs)'
    BY <2>1, SteadyShows
  <2> QED
    BY <2>1, <2>2 DEF CarriesPages
<1> QED
  BY <1>1, <1>2, <1>3, <1>4, <1>5, <1>6 DEF Next

\* A refresh starts the list over on the page of the file.
LEMMA RefreshReplays ==
  ASSUME IInv, ReadFromDisk
  PROVE  /\ BlankBeyondEof(fb') /\ PageOf(fb') = PageOfLines(disk.lines)
         /\ \E e : Shows(e)' /\ e[1] = PageOfLines(disk.lines)
<1>1. /\ fb' = StoreOf(disk.lines) /\ edits' = <<Boundary(FALSE, NoStat)>>
      /\ cur' = 1 /\ pc' = "loop"
  BY DEF ReadFromDisk, Undo_Reinit
<1>2. disk.lines \in Seq(Content)
  BY DEF IInv, ScalarsOK
<1>3. /\ BlankBeyondEof(fb') /\ PageOf(fb') = PageOfLines(disk.lines)
      /\ \E e : Chain(e, edits', 1) /\ e[1] = PageOfLines(disk.lines)
  BY <1>1, <1>2, RestartReplays
<1>4. Shown' = 1
  BY <1>1 DEF Shown
<1>5. PICK e : Chain(e, edits', 1) /\ e[1] = PageOfLines(disk.lines)
  BY <1>3
<1>6. Chain(e, edits', Shown') /\ e[Shown'] = PageOf(fb')
  BY <1>3, <1>4, <1>5
<1> QED
  BY <1>3, <1>5, <1>6 DEF Shows

LEMMA InitReplays == Init => Replays
<1> SUFFICES ASSUME Init PROVE Replays
  OBVIOUS
<1>1. PICK d \in InitDocs : fb = StoreOf(d)
  BY DEF Init
<1>2. d \in Seq(Content) /\ edits = <<Boundary(FALSE, NoStat)>> /\ Shown = 1
  BY DocsAssumption DEF Init, Shown
<1> QED
  BY <1>1, <1>2, RestartReplays DEF Replays, Shows

LEMMA NextReplays == IInv /\ IInv' /\ Replays /\ [Next]_vars => Replays'
<1> SUFFICES ASSUME IInv, IInv', Replays, [Next]_vars
             PROVE  Replays'
  OBVIOUS
<1>1. PICK docs : Shows(docs)
  BY DEF Replays
<1>2. CASE ReadFromDisk
  BY <1>2, RefreshReplays DEF Replays
<1>3. CASE ~ReadFromDisk
  BY <1>1, <1>3, StepReplays DEF Replays
<1> QED
  BY <1>2, <1>3

\* The records of the list always replay the buffer's text: there are pages,
\* one above and one below every record, that the records turn into each other
\* and among which the buffer's own stands at d_pCurrentEdit.
THEOREM RecordsReplay == Spec => []Replays
<1>1. IInv /\ Replays /\ [Next]_vars /\ IInv' => Replays'
  BY NextReplays
<1> QED
  BY <1>1, Inductive, InitReplays, PTL DEF Spec

\* No line content waits in the array beyond the last line (NoLinesBeyondEof;
\* fbuf_edit.cpp, FBUF::LineInfoReserve).
THEOREM NothingBeyondEof == Spec => []NoLinesBeyondEof
<1>1. Replays => NoLinesBeyondEof
  BY DEF Replays, NoLinesBeyondEof
<1> QED
  BY <1>1, RecordsReplay, PTL
-----------------------------------------------------------------------------
\* The stamps of the past are no newer than the clock, and the file's is not
\* that of a list that was just started.
StampsOld ==
  /\ disk.stat.time \in 1 .. clock
  /\ lastFileStat.time <= clock
  /\ \A k \in 1 .. Len(edits) : IsBoundary(edits[k]) => edits[k].stat.time <= clock

\* A boundary that was clean when the file had the stat it has now stands
\* above the file's page.
CleanBoundaries(docs) ==
  \A k \in 1 .. Len(edits) :
    IsBoundary(edits[k]) /\ ~edits[k].dirty /\ edits[k].stat = disk.stat
      => docs[k] = PageOfLines(disk.lines)

\* CleanMatchesDisk on pages, held through the pruning loop.
CleanBuffer ==
  pc \notin {"undo", "redo"} /\ ~dirty /\ lastFileStat = disk.stat
    => PageOf(fb) = PageOfLines(disk.lines)

CleanReplays ==
  /\ BlankBeyondEof(fb)
  /\ StampsOld
  /\ CleanBuffer
  /\ \E docs : Shows(docs) /\ CleanBoundaries(docs)

\* A step leaves the file alone, or stamps it later than anything before.
LEMMA FileMoves ==
  ASSUME TickOnWrite, IInv, [Next]_vars
  PROVE  \/ UNCHANGED <<disk, clock>>
         \/ /\ clock' = clock + 1 /\ disk'.stat.time = clock + 1
            /\ \/ WriteToDisk
               \/ \E d \in ForeignDocs : WrittenElsewhere(d)
<1>1. ASSUME NEW lines, FileWritten(lines)
      PROVE  clock' = clock + 1 /\ disk'.stat.time = clock + 1
  BY <1>1 DEF FileWritten
<1>2. CASE WriteToDisk
  BY <1>1, <1>2 DEF WriteToDisk
<1>3. CASE \E d \in ForeignDocs : WrittenElsewhere(d)
  BY <1>1, <1>3 DEF WrittenElsewhere
<1>4. CASE ~WriteToDisk /\ ~\E d \in ForeignDocs : WrittenElsewhere(d)
  <2>1. CASE Edit
    BY <2>1 DEF Edit, PutLine, InsBlankLinesBefore, DelLines
  <2>2. CASE Command
    BY <2>2 DEF Command, UserUndo, UserRedo, StartWalk, ToglNoEdit, SetMaxUndo
  <2>3. CASE UndoInsBoundary \/ PruneStep \/ Walk \/ DeclineRefresh \/ ReadFromDisk
    BY <2>3 DEF UndoInsBoundary, PruneStep, Walk, EdOpUndo, EdOpRedo, DeclineRefresh,
                ReadFromDisk
  <2>4. CASE UNCHANGED vars
    BY <2>4 DEF vars
  <2> QED
    BY <1>4, <2>1, <2>2, <2>3, <2>4 DEF Next, OtherSync
<1> QED
  BY <1>2, <1>3, <1>4

\* The stat a buffer knows is the one it knew or one of the file's.
LEMMA StatMoves ==
  ASSUME [Next]_vars
  PROVE  lastFileStat' \in {lastFileStat, disk.stat, disk'.stat}
<1>1. CASE Edit
  BY <1>1 DEF Edit, PutLine, InsBlankLinesBefore, DelLines
<1>2. CASE Command
  BY <1>2 DEF Command, UserUndo, UserRedo, StartWalk, ToglNoEdit, SetMaxUndo
<1>3. CASE UndoInsBoundary \/ PruneStep \/ Walk \/ OtherSync \/ ReadFromDisk
  BY <1>3 DEF UndoInsBoundary, PruneStep, Walk, EdOpUndo, EdOpRedo, OtherSync,
              WriteToDisk, WrittenElsewhere, DeclineRefresh, ReadFromDisk
<1>4. CASE UNCHANGED vars
  BY <1>4 DEF vars
<1> QED
  BY <1>1, <1>2, <1>3, <1>4 DEF Next

\* Carried pages keep the stamps old and the clean boundaries on the file's
\* page.
LEMMA CarriedClean ==
  ASSUME TickOnWrite, IInv, IInv', StampsOld, CleanBuffer, [Next]_vars,
         NEW docs, CleanBoundaries(docs), NEW e, CarriesPages(docs, e)
  PROVE  StampsOld' /\ CleanBoundaries(e)'
<1>1. /\ clock \in Nat /\ disk.stat \in FileStat /\ disk'.stat \in FileStat
      /\ lastFileStat \in FileStat /\ dirty \in BOOLEAN
      /\ clock' \in Nat /\ lastFileStat' \in FileStat
      /\ disk.stat.time \in Nat /\ disk'.stat.time \in Nat /\ lastFileStat.time \in Nat
  BY DEF IInv, ScalarsOK, FileStat
<1>2. /\ disk'.stat.time \in 1 .. clock'
      /\ clock <= clock'
      /\ \/ UNCHANGED <<disk, clock>>
         \/ disk'.stat.time > clock
  BY <1>1, FileMoves DEF StampsOld
<1>3. lastFileStat'.time <= clock'
  <2>1. /\ lastFileStat.time <= clock'
        /\ disk.stat.time <= clock'
        /\ disk'.stat.time <= clock'
    BY <1>1, <1>2 DEF StampsOld
  <2> QED
    BY <2>1, StatMoves
<1>4. LET b == Boundary(dirty, lastFileStat)
      IN  b.dirty = dirty /\ b.stat = lastFileStat
  BY DEF Boundary
<1>5. ASSUME NEW k \in 1 .. Len(edits'), IsBoundary(edits'[k])
      PROVE  /\ edits'[k].stat.time <= clock /\ edits'[k].stat.time \in Nat
             /\ ~edits'[k].dirty /\ edits'[k].stat = disk.stat
                  => e[k] = PageOfLines(disk.lines)
  <2>1. CASE \E j \in 1 .. Len(edits) : edits'[k] = edits[j] /\ e[k] = docs[j]
    <3>1. PICK j \in 1 .. Len(edits) : edits'[k] = edits[j] /\ e[k] = docs[j]
      BY <2>1
    <3>2. IsBoundary(edits[j]) /\ edits[j] \in EditRecs
      BY <1>5, <3>1 DEF IInv, ListOK
    <3>3. edits[j].stat.time \in Nat
      BY <3>2, RecordFields DEF IsBoundary, FileStat
    <3> QED
      BY <3>1, <3>2, <3>3 DEF StampsOld, CleanBoundaries
  <2>2. CASE /\ Running
             /\ edits'[k] = Boundary(dirty, lastFileStat)
             /\ e[k] = PageOf(fb)
    BY <1>1, <1>4, <2>2 DEF StampsOld, CleanBuffer, Running
  <2> QED
    BY <1>5, <2>1, <2>2 DEF CarriesPages
<1>6. StampsOld'
  <2>1. ASSUME NEW k \in 1 .. Len(edits'), IsBoundary(edits'[k])
        PROVE  edits'[k].stat.time <= clock'
    BY <1>1, <1>2, <1>5, <2>1
  <2> QED
    BY <1>2, <1>3, <2>1 DEF StampsOld
<1>7. ASSUME NEW k \in 1 .. Len(edits'), IsBoundary(edits'[k]), ~edits'[k].dirty,
             edits'[k].stat = disk'.stat
      PROVE  e[k] = PageOfLines(disk'.lines)
  <2>1. disk' = disk
    BY <1>1, <1>2, <1>5, <1>7
  <2> QED
    BY <1>5, <1>7, <2>1
<1> QED
  BY <1>6, <1>7 DEF CleanBoundaries

\* A walk that has arrived at a clean boundary shows its page.
LEMMA ArrivesClean ==
  ASSUME IInv, IInv', Walk, NEW e, Shows(e)', CleanBoundaries(e)'
  PROVE  CleanBuffer'
<1> SUFFICES ASSUME pc' \notin {"undo", "redo"}, ~dirty', lastFileStat' = disk'.stat
             PROVE  PageOf(fb') = PageOfLines(disk'.lines)
  BY DEF CleanBuffer
<1>1. PICK at : /\ cur' = at /\ lastFileStat' = lastFileStat
                /\ IsBoundary(edits'[at]) /\ pc' = "loop"
                /\ dirty' = (edits'[at].dirty \/ edits'[at].stat # lastFileStat)
  BY DEF Walk, EdOpUndo, EdOpRedo, Arrive
<1>2. at \in 1 .. Len(edits') /\ Shown' = at
  BY <1>1 DEF IInv, ListOK, Shown
<1>3. ~edits'[at].dirty /\ edits'[at].stat = disk'.stat
  BY <1>1
<1>4. e[at] = PageOfLines(disk'.lines)
  BY <1>1, <1>2, <1>3 DEF CleanBoundaries
<1> QED
  BY <1>2, <1>4 DEF Shows

\* Every other step that leaves the buffer clean has not touched its text, or
\* has just written the file.
LEMMA StaysClean ==
  ASSUME TickOnWrite, IInv, IInv', BlankBeyondEof(fb), StampsOld, CleanBuffer,
         [Next]_vars, ~Walk, ~ReadFromDisk
  PROVE  CleanBuffer'
<1>1. CASE Edit
  <2>1. dirty' \in BOOLEAN
    BY DEF IInv, ScalarsOK
  <2> QED
    BY <1>1, <2>1, EditDirties DEF CleanBuffer, Running
<1>2. CASE UndoInsBoundary \/ PruneStep
  <2>1. UNCHANGED <<fb, dirty, lastFileStat, disk>> /\ pc \notin {"undo", "redo"}
    BY <1>2 DEF UndoInsBoundary, PruneStep
  <2> QED
    BY <2>1 DEF CleanBuffer
<1>3. CASE Command
  <2>1. UNCHANGED <<fb, dirty, lastFileStat, disk>> /\ pc \notin {"undo", "redo"}
    BY <1>3 DEF Command, UserUndo, UserRedo, StartWalk, ToglNoEdit, SetMaxUndo, Running
  <2> QED
    BY <2>1 DEF CleanBuffer
<1>4. CASE WriteToDisk
  <2>1. fb' = fb /\ disk'.lines = WrittenLines
    BY <1>4 DEF WriteToDisk, FileWritten
  <2>2. PageOfLines(WrittenLines) = PageOf(fb)
    BY WrittenPage, ShownType
  <2> QED
    BY <2>1, <2>2 DEF CleanBuffer
<1>5. CASE \E d \in ForeignDocs : WrittenElsewhere(d)
  <2>1. lastFileStat' = lastFileStat /\ disk'.stat.time = clock + 1
    BY <1>5 DEF WrittenElsewhere, FileWritten
  <2>2. clock \in Nat /\ lastFileStat.time \in Nat /\ lastFileStat.time <= clock
    BY DEF IInv, ScalarsOK, FileStat, StampsOld
  <2>3. lastFileStat' # disk'.stat
    BY <2>1, <2>2
  <2> QED
    BY <2>3 DEF CleanBuffer
<1>6. CASE DeclineRefresh
  BY <1>6 DEF DeclineRefresh, CleanBuffer
<1>7. CASE UNCHANGED vars
  BY <1>7 DEF vars, CleanBuffer
<1> QED
  BY <1>1, <1>2, <1>3, <1>4, <1>5, <1>6, <1>7 DEF Next, OtherSync

LEMMA RefreshClean ==
  ASSUME IInv, IInv', StampsOld, ReadFromDisk
  PROVE  CleanReplays'
<1>1. /\ BlankBeyondEof(fb') /\ PageOf(fb') = PageOfLines(disk.lines)
      /\ \E e : Shows(e)' /\ e[1] = PageOfLines(disk.lines)
  BY RefreshReplays
<1>2. PICK e : Shows(e)' /\ e[1] = PageOfLines(disk.lines)
  BY <1>1
<1>3. /\ edits' = <<Boundary(FALSE, NoStat)>> /\ lastFileStat' = disk.stat
      /\ disk' = disk /\ clock' = clock
  BY DEF ReadFromDisk, Undo_Reinit
<1>4. Len(edits') = 1 /\ edits'[1].stat.time = 0
  BY <1>3 DEF Boundary, NoStat
<1>5. clock \in Nat /\ disk.stat.time \in 1 .. clock
  BY DEF IInv, ScalarsOK, StampsOld
<1>6. StampsOld'
  <2>1. clock' \in Nat /\ disk'.stat.time \in 1 .. clock' /\ lastFileStat'.time <= clock'
    <3>1. disk' = disk /\ clock' = clock /\ lastFileStat' = disk.stat
      BY <1>3
    <3>2. disk.stat.time \in 1 .. clock /\ clock \in Nat
      BY <1>5
    <3> QED
      BY <3>1, <3>2
  <2>2. ASSUME NEW k \in 1 .. Len(edits')
        PROVE  edits'[k].stat.time <= clock'
    <3>1. k = 1
      BY <1>4
    <3> QED
      BY <1>4, <2>1, <3>1
  <2> QED
    BY <2>1, <2>2 DEF StampsOld
<1>7. CleanBoundaries(e)'
  BY <1>2, <1>3, <1>4 DEF CleanBoundaries
<1>8. CleanBuffer'
  BY <1>1, <1>3 DEF CleanBuffer
<1> QED
  BY <1>1, <1>2, <1>6, <1>7, <1>8 DEF CleanReplays

LEMMA NextClean ==
  ASSUME TickOnWrite
  PROVE  IInv /\ IInv' /\ CleanReplays /\ [Next]_vars => CleanReplays'
<1> SUFFICES ASSUME IInv, IInv', CleanReplays, [Next]_vars
             PROVE  CleanReplays'
  OBVIOUS
<1>1. PICK docs : Shows(docs) /\ CleanBoundaries(docs)
  BY DEF CleanReplays
<1>2. CASE ReadFromDisk
  BY <1>2, RefreshClean DEF CleanReplays
<1>3. CASE ~ReadFromDisk
  <2>1. BlankBeyondEof(fb) /\ StampsOld /\ CleanBuffer
    BY DEF CleanReplays
  <2>2. /\ BlankBeyondEof(fb')
        /\ \E e : Shows(e)' /\ CarriesPages(docs, e)
    BY <1>1, <1>3, <2>1, StepReplays
  <2>3. PICK e : Shows(e)' /\ CarriesPages(docs, e)
    BY <2>2
  <2>4. StampsOld' /\ CleanBoundaries(e)'
    BY <1>1, <2>1, <2>3, CarriedClean
  <2>5. CleanBuffer'
    BY <1>3, <2>1, <2>3, <2>4, ArrivesClean, StaysClean
  <2> QED
    BY <2>2, <2>3, <2>4, <2>5 DEF CleanReplays
<1> QED
  BY <1>2, <1>3

LEMMA InitClean == Init => CleanReplays
<1> SUFFICES ASSUME Init PROVE CleanReplays
  OBVIOUS
<1>1. PICK d \in InitDocs :
        fb = StoreOf(d) /\ disk = [lines |-> d, stat |-> [time |-> 1, size |-> SizeOf(d)]]
  BY DEF Init
<1>2. /\ d \in Seq(Content) /\ edits = <<Boundary(FALSE, NoStat)>> /\ Shown = 1
      /\ lastFileStat = disk.stat /\ clock = 1
  BY DocsAssumption DEF Init, Shown
<1>3. /\ BlankBeyondEof(fb) /\ PageOf(fb) = PageOfLines(d)
      /\ \E e : Chain(e, edits, 1) /\ e[1] = PageOfLines(d)
  BY <1>1, <1>2, RestartReplays
<1>4. PICK e : Chain(e, edits, 1) /\ e[1] = PageOfLines(d)
  BY <1>3
<1>5. /\ disk.lines = d /\ disk.stat.time = 1
      /\ Len(edits) = 1 /\ edits[1].stat.time = 0
  BY <1>1, <1>2 DEF Boundary, NoStat
<1>6. StampsOld
  <2>1. disk.stat.time \in 1 .. clock /\ lastFileStat.time <= clock
    <3>1. disk.stat.time = 1 /\ lastFileStat = disk.stat /\ clock = 1
      BY <1>2, <1>5
    <3> QED
      BY <3>1
  <2>2. ASSUME NEW k \in 1 .. Len(edits)
        PROVE  edits[k].stat.time <= clock
    <3>1. k = 1
      BY <1>5
    <3>2. clock = 1
      BY <1>2
    <3> QED
      BY <1>5, <3>1, <3>2
  <2> QED
    BY <2>1, <2>2 DEF StampsOld
<1>7. CleanBoundaries(e)
  BY <1>4, <1>5 DEF CleanBoundaries
<1>8. CleanBuffer
  BY <1>3, <1>5 DEF CleanBuffer
<1> QED
  BY <1>2, <1>3, <1>4, <1>6, <1>7, <1>8 DEF CleanReplays, Shows

\* Where no two writes of a file fall into one second, a buffer that is not
\* dirty and knows its file's stat holds what the file holds, whatever was
\* undone, redone, saved and refreshed before (CleanMatchesDisk;
\* ed_core.h:1069-1070).
THEOREM CleanIsDisk ==
  ASSUME TickOnWrite
  PROVE  Spec => []CleanMatchesDisk
<1>1. IInv /\ CleanReplays => CleanMatchesDisk
  <2> SUFFICES ASSUME IInv, CleanReplays, Running, ~dirty, lastFileStat = disk.stat
               PROVE  DocOf(fb) = Document(disk.lines)
    BY DEF CleanMatchesDisk
  <2>1. IsStore(fb) /\ BlankBeyondEof(fb) /\ disk.lines \in Seq(Content)
    BY DEF IInv, ScalarsOK, CleanReplays
  <2>2. PageOf(fb) = PageOfLines(disk.lines)
    BY DEF CleanReplays, CleanBuffer, Running
  <2>3. FileLines(fb) \in Seq(Content) /\ PageOfLines(FileLines(fb)) = PageOf(fb)
    BY <2>1, FileLinesType, FilePage
  <2> QED
    BY <2>1, <2>2, <2>3, SameDocument DEF DocOf
<1>2. IInv /\ IInv' /\ CleanReplays /\ [Next]_vars => CleanReplays'
  BY NextClean
<1> QED
  BY <1>1, <1>2, Inductive, InitClean, PTL DEF Spec
-----------------------------------------------------------------------------
\* The numbering of boundaries: how many there are up to record k, which one
\* is the i-th, and the snapshots at them.
Count(s, k) == Cardinality(BoundariesIn(s, 1, k))
At(s, i)    == CHOOSE k \in 1 .. Len(s) : IsBoundary(s[k]) /\ Count(s, k) = i
Committed(s, t) == [i \in 1 .. Count(s, Len(s)) |-> t[At(s, i)]]

LEMMA CountStep ==
  ASSUME NEW s, NEW k \in Nat
  PROVE  /\ Count(s, k) \in Nat
         /\ Count(s, 0) = 0
         /\ Count(s, k + 1) = Count(s, k) + (IF IsBoundary(s[k + 1]) THEN 1 ELSE 0)
<1>1. Count(s, k) \in Nat
  BY BoundariesFinite DEF Count
<1>2. BoundariesIn(s, 1, 0) = {}
  BY DEF BoundariesIn
<1>3. Count(s, 0) = 0
  BY <1>2, FS_EmptySet DEF Count
<1> QED
  BY <1>1, <1>3, LastBoundary DEF Count

\* Lists that have their boundaries in the same places count them alike.
LEMMA CountSame ==
  ASSUME NEW s, NEW t, NEW k \in Nat,
         \A j \in 1 .. k : IsBoundary(t[j]) <=> IsBoundary(s[j])
  PROVE  Count(t, k) = Count(s, k)
  BY SameBoundaries DEF Count

\* Later positions count no less.
LEMMA CountGrows ==
  ASSUME NEW s, NEW j \in Nat, NEW k \in Nat, j <= k
  PROVE  Count(s, j) <= Count(s, k)
<1>1. Count(s, k) = Count(s, j) + Cardinality(BoundariesIn(s, j + 1, k))
  BY SplitBoundaries DEF Count
<1>2. Count(s, j) \in Nat /\ Cardinality(BoundariesIn(s, j + 1, k)) \in Nat
  BY BoundariesFinite DEF Count
<1> QED
  BY <1>1, <1>2

\* No two boundaries have the same number.
LEMMA CountInjective ==
  ASSUME NEW s, NEW j \in Nat \ {0}, NEW k \in Nat \ {0},
         IsBoundary(s[j]), IsBoundary(s[k]), Count(s, j) = Count(s, k)
  PROVE  j = k
<1>1. ASSUME NEW a \in Nat \ {0}, NEW b \in Nat \ {0}, a < b, IsBoundary(s[b])
      PROVE  Count(s, a) < Count(s, b)
  <2>1. a <= b - 1 /\ b - 1 \in Nat /\ (b - 1) + 1 = b
    BY <1>1
  <2>2. Count(s, b) = Count(s, b - 1) + 1 /\ Count(s, b - 1) \in Nat
    BY <1>1, <2>1, CountStep
  <2>3. Count(s, a) <= Count(s, b - 1) /\ Count(s, a) \in Nat
    BY <2>1, CountGrows, CountStep
  <2> QED
    BY <2>2, <2>3
<1>2. Count(s, j) \in Nat /\ Count(s, k) \in Nat
  BY CountStep
<1> QED
  BY <1>1, <1>2

\* Every number up to the count is that of a boundary.
LEMMA CountOnto ==
  ASSUME NEW s, NEW k \in Nat, NEW i \in 1 .. Count(s, k)
  PROVE  \E j \in 1 .. k : IsBoundary(s[j]) /\ Count(s, j) = i
<1> DEFINE S == {n \in Nat : \A m \in 1 .. Count(s, n) :
                   \E j \in 1 .. n : IsBoundary(s[j]) /\ Count(s, j) = m}
<1>1. 0 \in S
  <2>1. Count(s, 0) = 0
    BY CountStep
  <2>2. ~\E m : m \in 1 .. Count(s, 0)
    BY <2>1
  <2> QED
    BY <2>2
<1>2. ASSUME NEW n \in S
      PROVE  n + 1 \in S
  <2>1. /\ Count(s, n) \in Nat
        /\ Count(s, n + 1) = Count(s, n) + (IF IsBoundary(s[n + 1]) THEN 1 ELSE 0)
    BY CountStep
  <2>2. ASSUME NEW m \in 1 .. Count(s, n + 1)
        PROVE  \E j \in 1 .. n + 1 : IsBoundary(s[j]) /\ Count(s, j) = m
    <3>1. CASE m \in 1 .. Count(s, n)
      <4>1. PICK j \in 1 .. n : IsBoundary(s[j]) /\ Count(s, j) = m
        BY <3>1
      <4>2. j \in 1 .. n + 1
        OBVIOUS
      <4> QED
        BY <4>1, <4>2
    <3>2. CASE m \notin 1 .. Count(s, n)
      <4>1. IsBoundary(s[n + 1]) /\ Count(s, n + 1) = m
        BY <2>1, <3>2
      <4>2. n + 1 \in 1 .. n + 1
        OBVIOUS
      <4> QED
        BY <4>1, <4>2
    <3> QED
      BY <3>1, <3>2
  <2> QED
    BY <2>2
<1>3. S = Nat
  <2> HIDE DEF S
  <2>1. S \in SUBSET Nat
    BY DEF S
  <2> QED
    BY <1>1, <1>2, <2>1, AllNumbers
<1> QED
  BY <1>3

\* The first record, and the first record of a longer list.
LEMMA CountFirst ==
  ASSUME NEW s
  PROVE  Count(s, 1) = IF IsBoundary(s[1]) THEN 1 ELSE 0
<1>1. 0 \in Nat /\ 0 + 1 = 1
  OBVIOUS
<1>2. Count(s, 0 + 1) = Count(s, 0) + (IF IsBoundary(s[0 + 1]) THEN 1 ELSE 0)
  BY <1>1, CountStep
<1>3. Count(s, 0) = 0
  BY <1>1, CountStep
<1> QED
  BY <1>1, <1>2, <1>3

\* The number of a boundary.
LEMMA CountAt ==
  ASSUME NEW s \in Seq(EditRecs), NEW k \in 1 .. Len(s), IsBoundary(s[k])
  PROVE  /\ Count(s, k) \in 1 .. Count(s, Len(s))
         /\ At(s, Count(s, k)) = k
<1>1. k \in Nat \ {0} /\ k - 1 \in Nat /\ (k - 1) + 1 = k /\ Len(s) \in Nat /\ k <= Len(s)
  OBVIOUS
<1>2. Count(s, k) = Count(s, k - 1) + 1 /\ Count(s, k - 1) \in Nat
  BY <1>1, CountStep
<1>3. Count(s, k) <= Count(s, Len(s)) /\ Count(s, Len(s)) \in Nat
  BY <1>1, CountGrows, CountStep
<1>4. Count(s, k) \in 1 .. Count(s, Len(s))
  BY <1>2, <1>3
<1>5. \A j \in 1 .. Len(s) : IsBoundary(s[j]) /\ Count(s, j) = Count(s, k) => j = k
  BY CountInjective
<1> QED
  BY <1>4, <1>5 DEF At

\* The committed documents are told by the boundaries: a sequence that has
\* the snapshot of each boundary at its number is the one they make up.
LEMMA CommittedAt ==
  ASSUME NEW s \in Seq(EditRecs), NEW t, NEW k \in 1 .. Len(s), IsBoundary(s[k])
  PROVE  Committed(s, t)[Count(s, k)] = t[k]
  BY CountAt DEF Committed

LEMMA CommittedType ==
  ASSUME NEW D, NEW s \in Seq(EditRecs), NEW t \in Seq(D), Len(t) = Len(s)
  PROVE  /\ Committed(s, t) \in Seq(D)
         /\ Len(Committed(s, t)) = Count(s, Len(s))
         /\ Count(s, Len(s)) \in Nat
<1>1. Len(s) \in Nat /\ Count(s, Len(s)) \in Nat
  BY CountStep
<1>2. ASSUME NEW i \in 1 .. Count(s, Len(s))
      PROVE  Committed(s, t)[i] \in D
  <2>1. PICK k \in 1 .. Len(s) : IsBoundary(s[k]) /\ Count(s, k) = i
    BY <1>1, CountOnto
  <2>2. Committed(s, t)[i] = t[k]
    BY <2>1, CommittedAt
  <2> QED
    BY <2>2
<1>3. Committed(s, t) = [i \in 1 .. Count(s, Len(s)) |-> Committed(s, t)[i]]
  BY DEF Committed
<1>4. Committed(s, t) \in [1 .. Count(s, Len(s)) -> D]
  BY <1>2, <1>3
<1> QED
  BY <1>1, <1>4

LEMMA CommittedIs ==
  ASSUME NEW D, NEW s \in Seq(EditRecs), NEW t \in Seq(D), Len(t) = Len(s),
         NEW f \in Seq(D), Len(f) = Count(s, Len(s)),
         \A k \in 1 .. Len(s) : IsBoundary(s[k]) => f[Count(s, k)] = t[k]
  PROVE  Committed(s, t) = f
<1>1. /\ Committed(s, t) \in Seq(D) /\ Len(Committed(s, t)) = Len(f)
      /\ Len(s) \in Nat
  BY CommittedType
<1>2. ASSUME NEW i \in 1 .. Len(f)
      PROVE  Committed(s, t)[i] = f[i]
  <2>1. i \in 1 .. Count(s, Len(s))
    OBVIOUS
  <2>2. PICK k \in 1 .. Len(s) : IsBoundary(s[k]) /\ Count(s, k) = i
    BY <1>1, <2>1, CountOnto
  <2> QED
    BY <2>2, CommittedAt
<1> QED
  BY <1>1, <1>2, SeqEqual

\* Lists with their boundaries in the same places commit the same documents.
LEMMA CommittedSame ==
  ASSUME NEW D, NEW s \in Seq(EditRecs), NEW r \in Seq(EditRecs), Len(r) = Len(s),
         NEW t \in Seq(D), Len(t) = Len(s),
         \A k \in 1 .. Len(s) : IsBoundary(r[k]) <=> IsBoundary(s[k])
  PROVE  /\ Committed(r, t) = Committed(s, t)
         /\ \A k \in 0 .. Len(s) : Count(r, k) = Count(s, k)
<1>1. ASSUME NEW k \in 0 .. Len(s)
      PROVE  Count(r, k) = Count(s, k)
  <2>1. k \in Nat /\ \A j \in 1 .. k : IsBoundary(r[j]) <=> IsBoundary(s[j])
    OBVIOUS
  <2> QED
    BY <2>1, CountSame
<1>2. Count(r, Len(r)) = Count(s, Len(s))
  <2>1. Len(r) \in 0 .. Len(s)
    OBVIOUS
  <2> QED
    BY <1>1, <2>1
<1>3. ASSUME NEW k \in 1 .. Len(r), IsBoundary(r[k])
      PROVE  Committed(s, t)[Count(r, k)] = t[k]
  <2>1. k \in 1 .. Len(s) /\ k \in 0 .. Len(s) /\ IsBoundary(s[k])
    BY <1>3
  <2> QED
    BY <1>1, <2>1, CommittedAt
<1>4. Committed(s, t) \in Seq(D) /\ Len(Committed(s, t)) = Count(r, Len(r))
  BY <1>2, CommittedType
<1>5. Committed(r, t) = Committed(s, t)
  BY <1>3, <1>4, CommittedIs
<1> QED
  BY <1>1, <1>5

UpTo(q, n) == SubSeq(q, 1, n)
With(q, d) == Append(q, d)
Rest(q)    == Tail(q)

\* A record of an edit gives up the documents above the position.
LEMMA CommittedEdit ==
  ASSUME NEW D, NEW s \in Seq(EditRecs), NEW t \in Seq(D), Len(t) = Len(s),
         NEW c \in 1 .. Len(s), NEW er \in EditRecs, ~IsBoundary(er), NEW d \in D,
         NEW r, r = ListWith(s, c, er), NEW u, u = ListWith(t, c, d)
  PROVE  /\ Committed(r, u) = UpTo(Committed(s, t), Count(s, c))
         /\ Count(r, c + 1) = Count(s, c)
<1>1. /\ r \in Seq(EditRecs) /\ Len(r) = c + 1
      /\ \A k \in 1 .. c : r[k] = s[k]
      /\ r[c + 1] = er
  BY AppendAfter DEF ListWith
<1>2. c \in Nat /\ c <= Len(s) /\ Len(s) \in Nat
  OBVIOUS
<1>3. /\ u \in Seq(D) /\ Len(u) = c + 1
      /\ \A k \in 1 .. c : u[k] = t[k]
  BY <1>2, AppendAfter DEF ListWith
<1>4. ASSUME NEW k \in 0 .. c
      PROVE  Count(r, k) = Count(s, k) /\ Count(s, k) \in Nat /\ Count(s, k) <= Count(s, c)
  <2>1. k \in Nat /\ \A j \in 1 .. k : IsBoundary(r[j]) <=> IsBoundary(s[j])
    BY <1>1, <1>2
  <2>2. k <= c
    BY <1>2
  <2>3. Count(r, k) = Count(s, k)
    BY <2>1, CountSame
  <2>4. Count(s, k) \in Nat /\ Count(s, k) <= Count(s, c)
    BY <1>2, <2>1, <2>2, CountStep, CountGrows
  <2> QED
    BY <2>3, <2>4
<1>5. Count(r, c + 1) = Count(s, c) /\ Count(s, c) \in Nat
  <2>1. Count(r, c) = Count(s, c) /\ Count(s, c) \in Nat
    BY <1>2, <1>4
  <2>2. Count(r, c + 1) = Count(r, c) + 0
    BY <1>1, <1>2, CountStep
  <2> QED
    BY <2>1, <2>2
<1> DEFINE f == SubSeq(Committed(s, t), 1, Count(s, c))
<1>6. /\ f \in Seq(D) /\ Len(f) = Count(s, c)
      /\ \A i \in 1 .. Count(s, c) : f[i] = Committed(s, t)[i]
  <2>1. /\ Committed(s, t) \in Seq(D) /\ Len(Committed(s, t)) = Count(s, Len(s))
        /\ Count(s, Len(s)) \in Nat
    BY CommittedType
  <2>2. Count(s, c) <= Count(s, Len(s))
    BY <1>2, CountGrows
  <2> QED
    BY <1>5, <2>1, <2>2
<1> HIDE DEF f
<1>7. ASSUME NEW k \in 1 .. Len(r), IsBoundary(r[k])
      PROVE  f[Count(r, k)] = u[k]
  <2>1. k \in 1 .. c /\ k \in 0 .. c /\ k \in 1 .. Len(s) /\ IsBoundary(s[k])
    BY <1>1, <1>2, <1>7
  <2>2. Count(s, k) \in 1 .. Count(s, c)
    BY <1>4, <1>5, <2>1, CountAt
  <2>3. Committed(s, t)[Count(s, k)] = t[k]
    BY <2>1, CommittedAt
  <2> QED
    BY <1>3, <1>4, <1>6, <2>1, <2>2, <2>3
<1>8. Committed(r, u) = f
  <2>1. u \in Seq(D) /\ Len(u) = Len(r) /\ Len(f) = Count(r, Len(r))
    BY <1>1, <1>2, <1>3, <1>5, <1>6
  <2> QED
    BY <1>1, <1>6, <1>7, <2>1, CommittedIs
<1> QED
  BY <1>5, <1>8 DEF f, UpTo

\* A boundary above all others commits one document more.
LEMMA CommittedMore ==
  ASSUME NEW D, NEW s \in Seq(EditRecs), NEW t \in Seq(D), Len(t) = Len(s),
         NEW c \in 1 .. Len(s), Count(s, c) = Count(s, Len(s)),
         NEW er \in EditRecs, IsBoundary(er),
         NEW d \in D,
         NEW r, r = ListWith(s, c, er), NEW u, u = ListWith(t, c, d)
  PROVE  /\ Committed(r, u) = With(Committed(s, t), d)
         /\ Count(r, c + 1) = Count(s, c) + 1
<1>1. /\ r \in Seq(EditRecs) /\ Len(r) = c + 1
      /\ \A k \in 1 .. c : r[k] = s[k]
      /\ r[c + 1] = er
  BY AppendAfter DEF ListWith
<1>2. c \in Nat /\ c <= Len(s) /\ Len(s) \in Nat
  OBVIOUS
<1>3. /\ u \in Seq(D) /\ Len(u) = c + 1
      /\ \A k \in 1 .. c : u[k] = t[k]
      /\ u[c + 1] = d
  BY <1>2, AppendAfter DEF ListWith
<1>4. ASSUME NEW k \in 0 .. c
      PROVE  Count(r, k) = Count(s, k) /\ Count(s, k) \in Nat /\ Count(s, k) <= Count(s, c)
  <2>1. k \in Nat /\ \A j \in 1 .. k : IsBoundary(r[j]) <=> IsBoundary(s[j])
    BY <1>1, <1>2
  <2>2. k <= c
    BY <1>2
  <2>3. Count(r, k) = Count(s, k)
    BY <2>1, CountSame
  <2>4. Count(s, k) \in Nat /\ Count(s, k) <= Count(s, c)
    BY <1>2, <2>1, <2>2, CountStep, CountGrows
  <2> QED
    BY <2>3, <2>4
<1>5. Count(r, c + 1) = Count(s, c) + 1 /\ Count(s, c) \in Nat
  <2>1. Count(r, c) = Count(s, c) /\ Count(s, c) \in Nat
    BY <1>2, <1>4
  <2>2. Count(r, c + 1) = Count(r, c) + 1
    BY <1>1, <1>2, CountStep
  <2> QED
    BY <2>1, <2>2
<1> DEFINE f == Append(Committed(s, t), d)
<1>6. /\ f \in Seq(D) /\ Len(f) = Count(s, c) + 1
      /\ \A i \in 1 .. Count(s, c) : f[i] = Committed(s, t)[i]
      /\ f[Count(s, c) + 1] = d
  <2>1. /\ Committed(s, t) \in Seq(D) /\ Len(Committed(s, t)) = Count(s, c)
    BY CommittedType
  <2> QED
    BY <1>5, <2>1, AppendProperties
<1> HIDE DEF f
<1>7. ASSUME NEW k \in 1 .. Len(r), IsBoundary(r[k])
      PROVE  f[Count(r, k)] = u[k]
  <2>1. CASE k = c + 1
    BY <1>3, <1>5, <1>6, <2>1
  <2>2. CASE k # c + 1
    <3>1. k \in 1 .. c /\ k \in 0 .. c /\ k \in 1 .. Len(s) /\ IsBoundary(s[k])
      BY <1>1, <1>2, <1>7, <2>2
    <3>2. Count(s, k) \in 1 .. Count(s, c)
      <4>1. Count(s, k) \in 1 .. Count(s, Len(s))
        BY <3>1, CountAt
      <4> QED
        BY <1>4, <1>5, <3>1, <4>1
    <3>3. Committed(s, t)[Count(s, k)] = t[k]
      BY <3>1, CommittedAt
    <3> QED
      BY <1>3, <1>4, <1>6, <3>1, <3>2, <3>3
  <2> QED
    BY <2>1, <2>2
<1>8. Committed(r, u) = f
  <2>1. u \in Seq(D) /\ Len(u) = Len(r) /\ Len(f) = Count(r, Len(r))
    BY <1>1, <1>2, <1>3, <1>5, <1>6
  <2>2. r \in Seq(EditRecs) /\ f \in Seq(D)
    BY <1>1, <1>6
  <2> QED
    BY <1>7, <2>1, <2>2, CommittedIs
<1> QED
  BY <1>5, <1>8 DEF f, With

\* Without its oldest record a list counts one boundary less, if that was one.
LEMMA CountTail ==
  ASSUME NEW s \in Seq(EditRecs), Len(s) > 1, NEW k \in 0 .. Len(s) - 1
  PROVE  Count(Tail(s), k) = Count(s, k + 1) - (IF IsBoundary(s[1]) THEN 1 ELSE 0)
<1> DEFINE t == Tail(s)
           c == IF IsBoundary(s[1]) THEN 1 ELSE 0
           S == {n \in Nat : n <= Len(s) - 1 => Count(t, n) = Count(s, n + 1) - c}
<1>1. \A j \in 1 .. Len(s) - 1 : t[j] = s[j + 1]
  BY DropOldest
<1> HIDE DEF t
<1>2. c \in Nat /\ Len(s) \in Nat
  OBVIOUS
<1>3. 0 \in S
  <2>1. Count(t, 0) = 0 /\ Count(s, 0 + 1) = Count(s, 0) + c /\ Count(s, 0) = 0
    BY CountStep
  <2> QED
    BY <2>1, <1>2
<1>4. ASSUME NEW n \in S
      PROVE  n + 1 \in S
  <2> SUFFICES ASSUME n + 1 <= Len(s) - 1
               PROVE  Count(t, n + 1) = Count(s, (n + 1) + 1) - c
    OBVIOUS
  <2>1. n <= Len(s) - 1 /\ n + 1 \in 1 .. Len(s) - 1 /\ n \in Nat /\ n + 1 \in Nat
    BY <1>2
  <2>2. t[n + 1] = s[(n + 1) + 1]
    BY <1>1, <2>1
  <2>3. /\ Count(t, n + 1) = Count(t, n) + (IF IsBoundary(t[n + 1]) THEN 1 ELSE 0)
        /\ Count(s, (n + 1) + 1) =
             Count(s, n + 1) + (IF IsBoundary(s[(n + 1) + 1]) THEN 1 ELSE 0)
        /\ Count(s, n + 1) \in Nat
    BY <2>1, CountStep
  <2>4. Count(t, n) = Count(s, n + 1) - c
    BY <2>1
  <2> HIDE DEF c
  <2> QED
    BY <1>2, <2>2, <2>3, <2>4
<1>5. S = Nat
  <2> HIDE DEF S
  <2>1. S \in SUBSET Nat
    BY DEF S
  <2> QED
    BY <1>3, <1>4, <2>1, AllNumbers
<1> HIDE DEF c
<1>6. k \in S /\ k <= Len(s) - 1
  BY <1>2, <1>5
<1> QED
  BY <1>6 DEF t, c

LEMMA CommittedTail ==
  ASSUME NEW D, NEW s \in Seq(EditRecs), NEW t \in Seq(D), Len(t) = Len(s), Len(s) > 1
  PROVE  Committed(Rest(s), Rest(t)) =
           IF IsBoundary(s[1]) THEN Rest(Committed(s, t)) ELSE Committed(s, t)
<1> DEFINE r == Tail(s)
           u == Tail(t)
           f == IF IsBoundary(s[1]) THEN Tail(Committed(s, t)) ELSE Committed(s, t)
           c == IF IsBoundary(s[1]) THEN 1 ELSE 0
<1>1. /\ r \in Seq(EditRecs) /\ Len(r) = Len(s) - 1 /\ Len(s) \in Nat
      /\ \A k \in 1 .. Len(s) - 1 : r[k] = s[k + 1] /\ u[k] = t[k + 1]
  BY DropOldest
<1>2. \A k \in 0 .. Len(s) - 1 : Count(r, k) = Count(s, k + 1) - c
  BY CountTail
<1> HIDE DEF r, u
<1>3. /\ Committed(s, t) \in Seq(D) /\ Len(Committed(s, t)) = Count(s, Len(s))
      /\ Count(s, Len(s)) \in Nat
  BY CommittedType
<1>4. c \in {0, 1} /\ Count(r, Len(r)) = Count(s, Len(s)) - c /\ Count(r, Len(r)) \in Nat
  <2>1. Len(r) \in 0 .. Len(s) - 1 /\ Len(r) + 1 = Len(s) /\ Len(r) \in Nat
    BY <1>1
  <2> QED
    BY <1>2, <2>1, CountStep
<1>5. /\ f \in Seq(D) /\ Len(f) = Count(r, Len(r))
      /\ \A i \in 1 .. Count(r, Len(r)) : f[i] = Committed(s, t)[i + c]
  <2>1. CASE IsBoundary(s[1])
    <3>1. Count(s, 1) \in 1 .. Count(s, Len(s))
      <4>1. Count(s, 1) = 1 /\ Count(s, 1) <= Count(s, Len(s))
        <5>1. Count(s, 1) = 1
          BY <2>1, CountFirst
        <5>2. Count(s, 1) <= Count(s, Len(s))
          BY <1>1, CountGrows
        <5> QED
          BY <5>1, <5>2
      <4> QED
        BY <1>3, <4>1
    <3>2. /\ f = Tail(Committed(s, t)) /\ c = 1
          /\ Count(r, Len(r)) = Count(s, Len(s)) - 1 /\ Committed(s, t) # <<>>
      BY <1>3, <1>4, <2>1, <3>1
    <3> HIDE DEF f, c
    <3> QED
      BY <1>3, <3>2
  <2>2. CASE ~IsBoundary(s[1])
    BY <1>3, <1>4, <2>2
  <2> QED
    BY <2>1, <2>2
<1> HIDE DEF f
<1>6. ASSUME NEW k \in 1 .. Len(r), IsBoundary(r[k])
      PROVE  f[Count(r, k)] = u[k]
  <2>1. k + 1 \in 1 .. Len(s) /\ r[k] = s[k + 1] /\ u[k] = t[k + 1] /\ k \in 0 .. Len(s) - 1
    BY <1>1
  <2>2. Committed(s, t)[Count(s, k + 1)] = t[k + 1]
    BY <1>6, <2>1, CommittedAt
  <2>3. Count(r, k) + c = Count(s, k + 1)
    <3>1. Count(s, k + 1) \in Nat
      BY <2>1, CountStep
    <3> QED
      BY <1>2, <1>4, <2>1, <3>1
  <2>4. Count(r, k) \in 1 .. Count(r, Len(r))
    BY <1>1, <1>6, CountAt
  <2> QED
    BY <1>5, <2>1, <2>2, <2>3, <2>4
<1>7. Committed(r, u) = f
  <2>1. u \in Seq(D) /\ Len(u) = Len(r)
    BY <1>1 DEF u
  <2> QED
    BY <1>1, <1>5, <1>6, <2>1, CommittedIs
<1> QED
  BY <1>7 DEF r, u, f, Rest
-----------------------------------------------------------------------------
\* A snapshot is taken with every record and means something at a boundary:
\* its document is the one that stands on the page there.
SnapsOK == snaps \in Seq(Seq(Content)) /\ Len(snaps) = Len(edits)
SnapsShow(docs) ==
  \A k \in 1 .. Len(edits) :
    IsBoundary(edits[k]) =>
      docs[k] = PageOfLines(snaps[k]) /\ Document(snaps[k]) = snaps[k]

\* Edits that no boundary has sealed yet are the newest of the list.
OpenIsTip ==
  pc \notin {"undo", "redo"} /\ ~IsBoundary(edits[cur]) => cur = Len(edits)

HInv ==
  /\ IInv
  /\ BlankBeyondEof(fb)
  /\ SnapsOK
  /\ OpenIsTip
  /\ \E docs : Shows(docs) /\ SnapsShow(docs)

\* The document of a store, and a document that shows the store's page.
LEMMA StoreDocument ==
  ASSUME NEW f, IsStore(f), BlankBeyondEof(f)
  PROVE  /\ DocOf(f) \in Seq(Content)
         /\ PageOfLines(DocOf(f)) = PageOf(f)
         /\ Document(DocOf(f)) = DocOf(f)
<1>1. FileLines(f) \in Seq(Content) /\ PageOfLines(FileLines(f)) = PageOf(f)
  BY FileLinesType, FilePage
<1>2. DocOf(f) \in Seq(Content) /\ PageOfLines(DocOf(f)) = PageOfLines(FileLines(f))
  BY <1>1, DocumentType, DocumentPage DEF DocOf
<1>3. Document(DocOf(f)) = Document(FileLines(f))
  BY <1>1, <1>2, SameDocument
<1> QED
  BY <1>1, <1>2, <1>3 DEF DocOf

LEMMA ShownDocument ==
  ASSUME NEW f, IsStore(f), BlankBeyondEof(f), NEW t \in Seq(Content),
         PageOf(f) = PageOfLines(t)
  PROVE  DocOf(f) = Document(t)
<1>1. FileLines(f) \in Seq(Content) /\ PageOfLines(FileLines(f)) = PageOf(f)
  BY FileLinesType, FilePage
<1> QED
  BY <1>1, SameDocument DEF DocOf

\* The mapping in terms of the counts.
Mapping ==
  /\ histDocs = Committed(edits, snaps)
  /\ histPos = IF pc = "undo" THEN Count(edits, cur - 1)
               ELSE IF pc = "redo" THEN Count(edits, cur) + 1
               ELSE Count(edits, cur)
  /\ pc \in {"undo", "redo"} => histDoc = histDocs[histPos] /\ histOpen = FALSE
  /\ pc \notin {"undo", "redo"} =>
       histDoc = DocOf(fb) /\ histOpen = ~IsBoundary(edits[cur])

LEMMA Mapped == Mapping
<1>1. histDocs = Committed(edits, snaps)
  BY DEF histDocs, Committed, NumBoundaries, Count, BoundaryAt, At
<1>2. histPos = IF pc = "undo" THEN Count(edits, cur - 1)
                ELSE IF pc = "redo" THEN Count(edits, cur) + 1
                ELSE Count(edits, cur)
  BY DEF histPos, NumBoundaries, Count
<1>3. /\ pc \in {"undo", "redo"} => histDoc = histDocs[histPos] /\ histOpen = FALSE
      /\ pc \notin {"undo", "redo"} =>
           histDoc = DocOf(fb) /\ histOpen = ~IsBoundary(edits[cur])
  BY DEF histDoc, histOpen
<1> QED
  BY <1>1, <1>2, <1>3 DEF Mapping

LEMMA MappedNext == Mapping'
  BY Mapped, PTL

LEMMA HInvFacts ==
  ASSUME HInv
  PROVE  /\ IInv /\ IsStore(fb) /\ BlankBeyondEof(fb)
         /\ edits \in Seq(EditRecs) /\ Len(edits) \in Nat /\ cur \in 1 .. Len(edits)
         /\ snaps \in Seq(Seq(Content)) /\ Len(snaps) = Len(edits)
         /\ pc \in {"loop", "prune", "fetched", "undo", "redo"}
  BY ShownType DEF HInv, SnapsOK, IInv, ScalarsOK

\* A step that leaves the boundaries in their places and the snapshots alone
\* commits nothing and gives up nothing.
LEMMA SameCommitted ==
  ASSUME HInv, IInv', Len(edits') = Len(edits), snaps' = snaps,
         \A k \in 1 .. Len(edits) : IsBoundary(edits'[k]) <=> IsBoundary(edits[k])
  PROVE  /\ histDocs' = histDocs
         /\ \A k \in 0 .. Len(edits) : Count(edits', k) = Count(edits, k)
         /\ SnapsOK'
<1>1. edits' \in Seq(EditRecs)
  BY DEF IInv, ListOK
<1>2. /\ Committed(edits', snaps) = Committed(edits, snaps)
      /\ \A k \in 0 .. Len(edits) : Count(edits', k) = Count(edits, k)
  BY <1>1, HInvFacts, CommittedSame
<1>3. histDocs' = Committed(edits', snaps') /\ histDocs = Committed(edits, snaps)
  BY Mapped, MappedNext DEF Mapping
<1> QED
  BY <1>2, <1>3, HInvFacts DEF SnapsOK

\* The position among the committed documents at a boundary.
LEMMA PositionAt ==
  ASSUME HInv, NEW k \in 1 .. Len(edits), IsBoundary(edits[k])
  PROVE  /\ Count(edits, k) \in 1 .. Len(histDocs)
         /\ histDocs[Count(edits, k)] = snaps[k]
         /\ Count(edits, k) = Count(edits, k - 1) + 1
         /\ Count(edits, k - 1) \in Nat
<1>1. histDocs = Committed(edits, snaps)
  BY Mapped DEF Mapping
<1>2. Len(histDocs) = Count(edits, Len(edits))
  BY <1>1, HInvFacts, CommittedType
<1>3. Count(edits, k) \in 1 .. Count(edits, Len(edits))
  BY HInvFacts, CountAt
<1>4. Committed(edits, snaps)[Count(edits, k)] = snaps[k]
  BY HInvFacts, CommittedAt
<1>5. k - 1 \in Nat /\ (k - 1) + 1 = k
  BY HInvFacts
<1>6. Count(edits, k) = Count(edits, k - 1) + 1 /\ Count(edits, k - 1) \in Nat
  BY <1>5, CountStep
<1> QED
  BY <1>1, <1>2, <1>3, <1>4, <1>6

\* Commands but undo and redo, the traffic with the file, and the command loop
\* where it finds a boundary or has pruned enough, change nothing the user
\* sees of the history.
LEMMA SteadyStep ==
  ASSUME HInv, IInv', NEW docs, SnapsShow(docs), Shows(docs)',
         fb' = fb, cur' = cur, snaps' = snaps, Len(edits') = Len(edits),
         \A k \in 1 .. Len(edits) : IsBoundary(edits'[k]) <=> IsBoundary(edits[k]),
         pc \in {"undo", "redo"} => pc' = pc
  PROVE  /\ HInv'
         /\ pc' = pc \/ pc' \notin {"undo", "redo"} => UNCHANGED Abstract!hvars
<1>1. /\ histDocs' = histDocs
      /\ \A k \in 0 .. Len(edits) : Count(edits', k) = Count(edits, k)
      /\ SnapsOK'
  BY SameCommitted
<1>2. cur \in 1 .. Len(edits) /\ cur \in 0 .. Len(edits) /\ cur - 1 \in 0 .. Len(edits)
  BY HInvFacts
<1>3. SnapsShow(docs)'
  BY DEF SnapsShow
<1>4. OpenIsTip'
  BY <1>2 DEF OpenIsTip, HInv
<1>5. HInv'
  BY <1>1, <1>3, <1>4 DEF HInv
<1>6. ASSUME pc' = pc \/ pc' \notin {"undo", "redo"}
      PROVE  histPos' = histPos /\ histOpen' = histOpen /\ histDoc' = histDoc
  <2>1. CASE pc \in {"undo", "redo"}
    <3>1. pc' = pc /\ pc' \in {"undo", "redo"}
      BY <2>1
    <3>2. histPos' = histPos
      BY <1>1, <1>2, <3>1, Mapped, MappedNext DEF Mapping
    <3> QED
      BY <1>1, <2>1, <3>1, <3>2, Mapped, MappedNext DEF Mapping
  <2>2. CASE pc \notin {"undo", "redo"}
    <3>1. pc' \notin {"undo", "redo"}
      BY <1>6, <2>2
    <3>2. histPos' = histPos
      BY <1>1, <1>2, <2>2, <3>1, Mapped, MappedNext DEF Mapping
    <3>3. histOpen' = histOpen
      BY <1>2, <2>2, <3>1, Mapped, MappedNext DEF Mapping
    <3> QED
      BY <2>2, <3>1, <3>2, <3>3, Mapped, MappedNext DEF Mapping
  <2> QED
    BY <2>1, <2>2
<1> QED
  BY <1>1, <1>5, <1>6 DEF Abstract!hvars

\* A boundary that is renewed stays one.
LEMMA RenewedPlaces ==
  ASSUME NEW s \in Seq(EditRecs), NEW c \in 1 .. Len(s), IsBoundary(s[c]),
         NEW b, IsBoundary(b), NEW r, r = [s EXCEPT ![c] = b]
  PROVE  /\ Len(r) = Len(s)
         /\ \A k \in 1 .. Len(s) : IsBoundary(r[k]) <=> IsBoundary(s[k])
<1>1. Len(r) = Len(s)
  OBVIOUS
<1>2. \A k \in 1 .. Len(s) : r[k] = IF k = c THEN b ELSE s[k]
  OBVIOUS
<1> QED
  BY <1>1, <1>2

\* The steps QuietReplays is about.
LEMMA QuietKeeps ==
  ASSUME HInv, IInv', snaps' = snaps,
         \/ Command
         \/ OtherSync
         \/ UndoInsBoundary /\ (noEdit \/ IsBoundary(edits[cur]))
  PROVE  /\ HInv'
         /\ UserUndo \/ UserRedo \/ UNCHANGED Abstract!hvars
<1>1. PICK docs : Shows(docs) /\ SnapsShow(docs)
  BY DEF HInv
<1>2. Shows(docs)' /\ fb' = fb /\ cur' = cur
  BY <1>1, HInvFacts, QuietReplays
<1>3. /\ Len(edits') = Len(edits)
      /\ \A k \in 1 .. Len(edits) : IsBoundary(edits'[k]) <=> IsBoundary(edits[k])
  <2> DEFINE b == Boundary(dirty, lastFileStat)
  <2>1. \/ edits' = edits
        \/ IsBoundary(edits[cur]) /\ edits' = [edits EXCEPT ![cur] = b]
    BY DEF Command, UserUndo, UserRedo, StartWalk, ToglNoEdit, SetMaxUndo, OtherSync,
           WriteToDisk, WrittenElsewhere, DeclineRefresh, UndoInsBoundary, undoVars
  <2>2. IsBoundary(b)
    BY DEF Boundary, IsBoundary
  <2> HIDE DEF b
  <2>3. edits \in Seq(EditRecs) /\ cur \in 1 .. Len(edits)
    BY HInvFacts
  <2> QED
    BY <2>1, <2>2, <2>3, RenewedPlaces
<1>4. \/ UserUndo \/ UserRedo
      \/ pc' = pc
      \/ pc \notin {"undo", "redo"} /\ pc' \notin {"undo", "redo"}
  BY DEF Command, ToglNoEdit, SetMaxUndo, OtherSync, WriteToDisk, WrittenElsewhere,
         DeclineRefresh, DiskChanged, UndoInsBoundary, Running
<1>5. pc \in {"undo", "redo"} => pc' = pc
  BY <1>4 DEF UserUndo, UserRedo, StartWalk
<1> QED
  BY <1>1, <1>2, <1>3, <1>4, <1>5, SteadyStep

\* ARG::undo and ARG::redo are the moves of History.
LEMMA UndoMoves ==
  ASSUME HInv, IInv', HInv', snaps' = snaps, UserUndo \/ UserRedo
  PROVE  Abstract!Undo \/ Abstract!Redo
<1>1. /\ pc = "fetched" /\ cur' = cur /\ IsBoundary(edits[cur])
      /\ \/ edits' = edits
         \/ edits' = [edits EXCEPT ![cur] = Boundary(dirty, lastFileStat)]
  BY HInvFacts DEF UserUndo, UserRedo, StartWalk, IInv, SealedWhereWalksBegin
<1>2. /\ Len(edits') = Len(edits)
      /\ \A k \in 1 .. Len(edits) : IsBoundary(edits'[k]) <=> IsBoundary(edits[k])
  <2> DEFINE b == Boundary(dirty, lastFileStat)
  <2>1. edits' = edits \/ edits' = [edits EXCEPT ![cur] = b]
    BY <1>1
  <2>2. IsBoundary(b)
    BY DEF Boundary, IsBoundary
  <2> HIDE DEF b
  <2>3. edits \in Seq(EditRecs) /\ cur \in 1 .. Len(edits)
    BY HInvFacts
  <2> QED
    BY <1>1, <2>1, <2>2, <2>3, RenewedPlaces
<1>3. /\ histDocs' = histDocs
      /\ \A k \in 0 .. Len(edits) : Count(edits', k) = Count(edits, k)
  BY <1>2, SameCommitted
<1>4. /\ cur \in 1 .. Len(edits) /\ cur \in 0 .. Len(edits) /\ cur - 1 \in 0 .. Len(edits)
      /\ Len(edits) \in Nat
  BY HInvFacts
<1>5. /\ Count(edits, cur) \in 1 .. Len(histDocs)
      /\ Count(edits, cur) = Count(edits, cur - 1) + 1 /\ Count(edits, cur - 1) \in Nat
      /\ Len(histDocs) \in Nat
  <2>1. histDocs \in Seq(Seq(Content))
    BY HInvFacts, CommittedType, Mapped DEF Mapping
  <2> QED
    BY <1>1, <1>4, <2>1, PositionAt
<1>6. histPos = Count(edits, cur) /\ histOpen = FALSE
  BY <1>1, Mapped DEF Mapping
<1>7. CASE UserUndo
  <2>1. pc' = "undo" /\ cur > 1
    BY <1>7 DEF UserUndo, StartWalk, AnythingToUndo
  <2>2. histPos' = histPos - 1
    BY <1>1, <1>3, <1>4, <1>5, <1>6, <2>1, MappedNext DEF Mapping
  <2>3. Count(edits, cur - 1) >= 1
    <3>1. IsBoundary(edits[1])
      BY <1>1, HInvFacts DEF IInv, OldestIsBoundary
    <3>2. Count(edits, 1) = 1
      BY <3>1, CountFirst
    <3>3. 1 <= cur - 1 /\ cur - 1 \in Nat
      BY <1>4, <2>1
    <3>4. Count(edits, 1) <= Count(edits, cur - 1)
      BY <3>3, CountGrows
    <3> QED
      BY <3>2, <3>4
  <2>4. histPos - 1 \in 1 .. Len(histDocs)
    BY <1>5, <1>6, <2>3
  <2>5. histDoc' = histDocs[histPos - 1] /\ histOpen' = FALSE
    BY <1>3, <2>1, <2>2, MappedNext DEF Mapping
  <2>6. Abstract!Move(histPos - 1)
    BY <1>3, <1>6, <2>2, <2>4, <2>5 DEF Abstract!Move
  <2> QED
    BY <2>6 DEF Abstract!Undo
<1>8. CASE UserRedo
  <2>1. pc' = "redo" /\ cur < Len(edits)
    BY <1>8 DEF UserRedo, StartWalk, AnythingToRedo
  <2>2. histPos' = histPos + 1
    BY <1>1, <1>3, <1>4, <1>5, <1>6, <2>1, MappedNext DEF Mapping
  <2>3. Count(edits, cur) + 1 \in 1 .. Len(histDocs)
    <3>1. IsBoundary(edits[Len(edits)]) /\ Len(edits) \in 1 .. Len(edits)
      BY <1>4, <2>1, HInvFacts DEF IInv, UndoneTailIsSealed, Newest
    <3>2. /\ Count(edits, Len(edits)) = Count(edits, Len(edits) - 1) + 1
          /\ Count(edits, Len(edits)) \in 1 .. Len(histDocs)
          /\ Count(edits, Len(edits) - 1) \in Nat
      BY <3>1, PositionAt
    <3>3. cur \in Nat /\ Len(edits) - 1 \in Nat /\ cur <= Len(edits) - 1
      BY <1>4, <2>1
    <3>4. Count(edits, cur) <= Count(edits, Len(edits) - 1)
      BY <3>3, CountGrows
    <3> QED
      BY <1>5, <3>2, <3>4
  <2>4. histPos + 1 \in 1 .. Len(histDocs)
    BY <1>6, <2>3
  <2>5. histDoc' = histDocs[histPos + 1] /\ histOpen' = FALSE
    BY <1>3, <2>1, <2>2, MappedNext DEF Mapping
  <2>6. Abstract!Move(histPos + 1)
    BY <1>3, <1>6, <2>2, <2>4, <2>5 DEF Abstract!Move
  <2> QED
    BY <2>6 DEF Abstract!Redo
<1> QED
  BY <1>7, <1>8

\* FBUF::UndoInsBoundary commits the edits of the command before.
LEMMA CommitStep ==
  ASSUME HInv, IInv', UndoInsBoundary, ~noEdit, ~IsBoundary(edits[cur]),
         Snapped(DocOf(fb))
  PROVE  HInv' /\ Abstract!Commit
<1> DEFINE b == Boundary(dirty, lastFileStat)
           d == DocOf(fb)
<1>1. b \in EditRecs /\ IsBoundary(b)
  BY HInvFacts, BoundaryFields DEF IInv, ScalarsOK
<1>2. /\ pc = "loop" /\ pc' = "prune" /\ fb' = fb
      /\ edits' = ListWith(edits, cur, b) /\ cur' = cur + 1
  BY DEF UndoInsBoundary, KeptEdits, ListWith
<1> HIDE DEF b
<1>3. cur = Len(edits)
  BY <1>2 DEF HInv, OpenIsTip
<1>4. /\ d \in Seq(Content) /\ PageOfLines(d) = PageOf(fb) /\ Document(d) = d
  BY HInvFacts, StoreDocument
<1> HIDE DEF d
<1>5. snaps' = ListWith(snaps, cur, d)
  BY <1>2, HInvFacts DEF Snapped, ListWith, d
<1>6. /\ edits' \in Seq(EditRecs) /\ Len(edits') = cur + 1
      /\ \A k \in 1 .. cur : edits'[k] = edits[k]
      /\ edits'[cur + 1] = b
  BY <1>1, <1>2, HInvFacts, AppendAfter DEF ListWith
<1>7. /\ snaps' \in Seq(Seq(Content)) /\ Len(snaps') = cur + 1
      /\ \A k \in 1 .. cur : snaps'[k] = snaps[k]
      /\ snaps'[cur + 1] = d
  BY <1>4, <1>5, HInvFacts, AppendAfter DEF ListWith
<1>8. /\ Committed(edits', snaps') = With(Committed(edits, snaps), d)
      /\ Count(edits', cur + 1) = Count(edits, cur) + 1
  <2>1. /\ edits \in Seq(EditRecs) /\ cur \in 1 .. Len(edits)
        /\ snaps \in Seq(Seq(Content)) /\ Len(snaps) = Len(edits)
    BY HInvFacts
  <2>2. Count(edits, cur) = Count(edits, Len(edits))
    BY <1>3
  <2>3. edits' = ListWith(edits, cur, b) /\ snaps' = ListWith(snaps, cur, d)
    BY <1>2, <1>5
  <2> QED
    BY <1>1, <1>4, <2>1, <2>2, <2>3, CommittedMore
<1>9. HInv'
  <2>1. PICK docs : Shows(docs) /\ SnapsShow(docs)
    BY DEF HInv
  <2>2. PICK e : /\ Shows(e)'
                 /\ \A k \in 0 .. cur : e[k] = docs[k]
                 /\ e[cur + 1] = PageOf(fb)
    BY <2>1, HInvFacts, CommitReplays
  <2>3. ASSUME NEW k \in 1 .. cur + 1, IsBoundary(edits'[k])
        PROVE  e[k] = PageOfLines(snaps'[k]) /\ Document(snaps'[k]) = snaps'[k]
    <3>1. CASE k = cur + 1
      BY <1>4, <1>7, <2>2, <3>1
    <3>2. CASE k # cur + 1
      <4>1. k \in 1 .. cur /\ k \in 0 .. cur /\ k \in 1 .. Len(edits)
        BY <3>2, HInvFacts
      <4> QED
        BY <1>6, <1>7, <2>1, <2>2, <2>3, <4>1 DEF SnapsShow
    <3> QED
      BY <3>1, <3>2
  <2>4. SnapsShow(e)'
    BY <1>6, <2>3 DEF SnapsShow
  <2>5. OpenIsTip' /\ SnapsOK' /\ BlankBeyondEof(fb')
    BY <1>2, <1>6, <1>7, HInvFacts DEF OpenIsTip, SnapsOK
  <2> QED
    BY <2>2, <2>4, <2>5 DEF HInv
<1>10. histDocs' = Append(histDocs, histDoc) /\ histDoc' = histDoc
  BY <1>2, <1>8, Mapped, MappedNext DEF Mapping, With, d
<1>11. histPos' = histPos + 1
  BY <1>2, <1>8, Mapped, MappedNext DEF Mapping
<1>12. histOpen /\ histOpen' = FALSE
  BY <1>1, <1>2, <1>6, Mapped, MappedNext DEF Mapping
<1> QED
  BY <1>9, <1>10, <1>11, <1>12 DEF Abstract!Commit

\* What an edit does to the list.
LEMMA EditCases ==
  ASSUME HInv, IInv', Edit
  PROVE  /\ Running /\ pc' = "loop"
         /\ \/ \E er \in EditRecs : /\ ~IsBoundary(er)
                                    /\ edits' = ListWith(edits, cur, er)
                                    /\ cur' = cur + 1
            \/ /\ edits' = edits /\ cur' = cur
               /\ ~IsBoundary(edits[cur]) \/ PageOf(fb') = PageOf(fb)
<1>1. Running /\ pc' = "loop"
  BY HInvFacts, EditDirties
<1>2. ASSUME NEW er, AddEdit(er), ~IsBoundary(er)
      PROVE  \E r \in EditRecs : /\ ~IsBoundary(r)
                                 /\ edits' = ListWith(edits, cur, r)
                                 /\ cur' = cur + 1
  <2>1. edits' = ListWith(edits, cur, er) /\ cur' = cur + 1
    BY <1>2 DEF AddEdit, KeptEdits, ListWith
  <2>2. edits' \in Seq(EditRecs) /\ cur' \in 1 .. Len(edits')
    BY DEF IInv, ListOK
  <2>3. edits'[cur + 1] = er
    BY <2>1, HInvFacts DEF ListWith
  <2> QED
    BY <1>2, <2>1, <2>2, <2>3
<1>3. ASSUME NEW y \in 0 .. MaxLine, NEW c \in Content, PutLine(y, c)
      PROVE  \/ \E er : AddEdit(er) /\ ~IsBoundary(er)
             \/ UNCHANGED undoVars /\ ~IsBoundary(edits[cur])
  <2>1. CASE IsAltContentOfLine(Newest, y)
    <3>1. UNCHANGED undoVars
      BY <1>3, <2>1 DEF PutLine
    <3>2. ~IsBoundary(Newest)
      BY <2>1 DEF IsAltContentOfLine, IsBoundary
    <3>3. cur = Len(edits)
      BY <3>2, HInvFacts DEF IInv, UndoneTailIsSealed
    <3> QED
      BY <3>1, <3>2, <3>3 DEF Newest
  <2>2. CASE ~IsAltContentOfLine(Newest, y)
    <3>1. \E er : AddEdit(er) /\ er.kind = "alt"
      BY <1>3, <2>2 DEF PutLine, AltLine
    <3> QED
      BY <3>1 DEF IsBoundary
  <2> QED
    BY <2>1, <2>2
<1>4. ASSUME NEW y \in 0 .. MaxLine, NEW n \in 1 .. MaxInsert, InsBlankLinesBefore(y, n)
      PROVE  \/ \E er : AddEdit(er) /\ ~IsBoundary(er)
             \/ UNCHANGED undoVars /\ PageOf(fb') = PageOf(fb)
  <2>1. CASE fb.lineCount <= y
    <3>1. UNCHANGED undoVars
      BY <1>4, <2>1 DEF InsBlankLinesBefore
    <3>2. fb' = LineInfoReserve(fb, y + n) /\ y + n \in Nat
      BY <1>4, <2>1, BoundsAssumption DEF InsBlankLinesBefore, InsertLines
    <3>3. PageOf(fb') = PageOf(fb)
      BY <3>2, HInvFacts, ReservePage
    <3> QED
      BY <3>1, <3>3
  <2>2. CASE ~(fb.lineCount <= y)
    <3>1. \E er : AddEdit(er) /\ er.kind = "ins"
      BY <1>4, <2>2 DEF InsBlankLinesBefore, RangeInsert
    <3> QED
      BY <3>1 DEF IsBoundary
  <2> QED
    BY <2>1, <2>2
<1>5. ASSUME NEW first \in 0 .. MaxLine, NEW last \in 0 .. MaxLine, DelLines(first, last)
      PROVE  \E er : AddEdit(er) /\ ~IsBoundary(er)
  <2>1. \E er : AddEdit(er) /\ er.kind = "del"
    BY <1>5 DEF DelLines, RangeDelete
  <2> QED
    BY <2>1 DEF IsBoundary
<1>6. \/ \E er : AddEdit(er) /\ ~IsBoundary(er)
      \/ UNCHANGED undoVars /\ (~IsBoundary(edits[cur]) \/ PageOf(fb') = PageOf(fb))
  BY <1>3, <1>4, <1>5 DEF Edit
<1> QED
  BY <1>1, <1>2, <1>6 DEF undoVars

\* A record of an edit gives up what was undone.
LEMMA EditAdds ==
  ASSUME HInv, IInv', Edit, Snapped(<<>>),
         NEW er \in EditRecs, ~IsBoundary(er),
         edits' = ListWith(edits, cur, er), cur' = cur + 1
  PROVE  HInv' /\ Abstract!Edit
<1>1. Running /\ pc' = "loop"
  BY EditCases
<1>2. snaps' = ListWith(snaps, cur, <<>>) /\ <<>> \in Seq(Content)
  BY HInvFacts DEF Snapped, ListWith
<1>3. /\ edits' \in Seq(EditRecs) /\ Len(edits') = cur + 1
      /\ edits'[cur + 1] = er
  BY HInvFacts, AppendAfter DEF ListWith
<1>4. /\ snaps' \in Seq(Seq(Content)) /\ Len(snaps') = cur + 1
      /\ \A k \in 1 .. cur : snaps'[k] = snaps[k]
  BY <1>2, HInvFacts, AppendAfter DEF ListWith
<1>5. /\ Committed(edits', snaps') = UpTo(Committed(edits, snaps), Count(edits, cur))
      /\ Count(edits', cur + 1) = Count(edits, cur)
  <2>1. /\ edits \in Seq(EditRecs) /\ cur \in 1 .. Len(edits)
        /\ snaps \in Seq(Seq(Content)) /\ Len(snaps) = Len(edits)
    BY HInvFacts
  <2>2. \E d \in Seq(Content) : snaps' = ListWith(snaps, cur, d)
    BY <1>2
  <2>3. PICK d \in Seq(Content) : snaps' = ListWith(snaps, cur, d)
    BY <2>2
  <2> QED
    BY <2>1, <2>3, CommittedEdit
<1>6. PICK docs : Shows(docs) /\ SnapsShow(docs)
  BY DEF HInv
<1>7. /\ BlankBeyondEof(fb')
      /\ \E e : Shows(e)' /\ KeepsPages(docs, e)
  BY <1>6, HInvFacts, EditReplays
<1>8. PICK e : Shows(e)' /\ KeepsPages(docs, e)
  BY <1>7
<1>9. HInv'
  <2>1. ASSUME NEW k \in 1 .. Len(edits'), IsBoundary(edits'[k])
        PROVE  e[k] = PageOfLines(snaps'[k]) /\ Document(snaps'[k]) = snaps'[k]
    <3>1. k \in 1 .. Len(edits) /\ edits'[k] = edits[k] /\ e[k] = docs[k]
      BY <1>8, <2>1 DEF KeepsPages
    <3>2. k \in 1 .. cur
      BY <1>3, <2>1, HInvFacts
    <3> QED
      BY <1>4, <1>6, <2>1, <3>1, <3>2 DEF SnapsShow
  <2>2. SnapsShow(e)'
    BY <2>1 DEF SnapsShow
  <2>3. OpenIsTip' /\ SnapsOK'
    BY <1>3, <1>4 DEF OpenIsTip, SnapsOK
  <2> QED
    BY <1>7, <1>8, <2>2, <2>3 DEF HInv
<1>10. histPos = Count(edits, cur) /\ histPos' = Count(edits, cur)
  BY <1>1, <1>5, Mapped, MappedNext DEF Mapping, Running
<1>11. histDocs' = SubSeq(histDocs, 1, histPos)
  BY <1>5, <1>10, Mapped, MappedNext DEF Mapping, UpTo
<1>12. histOpen' = TRUE
  BY <1>1, <1>3, MappedNext DEF Mapping
<1>13. histDoc' \in AllDocs
  <2>1. histDoc' = DocOf(fb')
    BY <1>1, MappedNext DEF Mapping
  <2>2. IsStore(fb')
    BY DEF IInv, ScalarsOK
  <2> QED
    BY <1>7, <2>1, <2>2, StoreDocument DEF AllDocs
<1> QED
  BY <1>9, <1>10, <1>11, <1>12, <1>13 DEF Abstract!Edit

\* An edit that adds no record goes on with the edits that are open, or has
\* changed nothing.
LEMMA EditGoesOn ==
  ASSUME HInv, IInv', Edit, Snapped(<<>>), edits' = edits, cur' = cur,
         ~IsBoundary(edits[cur]) \/ PageOf(fb') = PageOf(fb)
  PROVE  HInv' /\ (Abstract!Edit \/ UNCHANGED Abstract!hvars)
<1>1. Running /\ pc' = "loop"
  BY EditCases
<1>2. snaps' = snaps
  BY HInvFacts DEF Snapped
<1>3. PICK docs : Shows(docs) /\ SnapsShow(docs)
  BY DEF HInv
<1>4. /\ BlankBeyondEof(fb')
      /\ \E e : Shows(e)' /\ KeepsPages(docs, e)
  BY <1>3, HInvFacts, EditReplays
<1>5. PICK e : Shows(e)' /\ KeepsPages(docs, e)
  BY <1>4
<1>6. histDocs' = histDocs /\ histPos = Count(edits, cur) /\ histPos' = histPos
  BY <1>1, <1>2, Mapped, MappedNext DEF Mapping, Running
<1>7. histDoc = DocOf(fb) /\ histDoc' = DocOf(fb')
      /\ histOpen = ~IsBoundary(edits[cur]) /\ histOpen' = histOpen
  BY <1>1, Mapped, MappedNext DEF Mapping, Running
<1>8. IsStore(fb') /\ IsStore(fb) /\ BlankBeyondEof(fb)
  BY HInvFacts DEF IInv, ScalarsOK
<1>9. HInv'
  <2>1. SnapsShow(e)'
    BY <1>2, <1>3, <1>5 DEF SnapsShow, KeepsPages
  <2>2. OpenIsTip' /\ SnapsOK'
    BY <1>1, <1>2 DEF OpenIsTip, SnapsOK, HInv, Running
  <2> QED
    BY <1>4, <1>5, <2>1, <2>2 DEF HInv
<1>10. CASE ~IsBoundary(edits[cur])
  <2>1. cur = Len(edits)
    BY <1>1, <1>10 DEF HInv, OpenIsTip, Running
  <2>2. histDocs \in Seq(Seq(Content)) /\ Len(histDocs) = histPos
    BY <1>6, <2>1, HInvFacts, CommittedType, Mapped DEF Mapping
  <2>3. histDocs' = SubSeq(histDocs, 1, histPos)
    BY <1>6, <2>2
  <2>4. histDoc' \in AllDocs
    BY <1>4, <1>7, <1>8, StoreDocument DEF AllDocs
  <2>5. histOpen' = TRUE
    BY <1>7, <1>10
  <2>6. Abstract!Edit
    BY <1>6, <2>3, <2>4, <2>5 DEF Abstract!Edit
  <2> QED
    BY <1>9, <2>6
<1>11. CASE PageOf(fb') = PageOf(fb)
  <2>1. DocOf(fb) \in Seq(Content) /\ PageOfLines(DocOf(fb)) = PageOf(fb)
        /\ Document(DocOf(fb)) = DocOf(fb)
    BY <1>8, StoreDocument
  <2>2. DocOf(fb') = DocOf(fb)
    BY <1>4, <1>8, <1>11, <2>1, ShownDocument
  <2>3. UNCHANGED Abstract!hvars
    BY <1>6, <1>7, <2>2 DEF Abstract!hvars
  <2> QED
    BY <1>9, <2>3
<1> QED
  BY <1>10, <1>11

\* The pruning loop forgets a document with each boundary it drops.
LEMMA PruneForgets ==
  ASSUME HInv, IInv', PruneStep, undoCount > maxUndo,
         snaps' = IF cur' < cur THEN Tail(snaps) ELSE snaps
  PROVE  HInv' /\ (Abstract!Forget \/ UNCHANGED Abstract!hvars)
<1> DEFINE c == IF IsBoundary(edits[1]) THEN 1 ELSE 0
<1>1. /\ pc = "prune" /\ pc' = "prune" /\ fb' = fb
      /\ edits' = Tail(edits) /\ cur' = cur - 1
  BY DEF PruneStep
<1>2. cur = Len(edits) /\ IsBoundary(edits[cur])
  BY <1>1, HInvFacts DEF IInv, SealedWhereWalksBegin, IsTip, Newest
<1>3. /\ cur \in Nat /\ cur > 1 /\ Len(edits) > 1 /\ cur - 1 \in 0 .. Len(edits) - 1
      /\ cur - 1 \in 1 .. Len(edits) - 1 /\ (cur - 1) + 1 = cur
  <2>1. cur - 1 \in 1 .. Len(edits')
    BY <1>1 DEF IInv, ListOK
  <2> QED
    BY <1>2, <2>1, HInvFacts
<1>4. snaps' = Tail(snaps) /\ Len(snaps) > 1
  BY <1>1, <1>2, <1>3, HInvFacts
<1>5. /\ edits' \in Seq(EditRecs) /\ Len(edits') = Len(edits) - 1
      /\ \A k \in 1 .. Len(edits) - 1 : edits'[k] = edits[k + 1]
  BY <1>1, <1>3, HInvFacts, DropOldest
<1>6. /\ snaps' \in Seq(Seq(Content)) /\ Len(snaps') = Len(snaps) - 1
      /\ \A k \in 1 .. Len(snaps) - 1 : snaps'[k] = snaps[k + 1]
  BY <1>4, HInvFacts, DropOldest
<1>7. edits'[cur - 1] = edits[cur]
  BY <1>3, <1>5
<1>8. Committed(edits', snaps') =
        IF IsBoundary(edits[1]) THEN Rest(Committed(edits, snaps))
                                ELSE Committed(edits, snaps)
  <2>1. edits' = Rest(edits) /\ snaps' = Rest(snaps)
    BY <1>1, <1>4 DEF Rest
  <2>2. Committed(Rest(edits), Rest(snaps)) =
          IF IsBoundary(edits[1]) THEN Rest(Committed(edits, snaps))
                                  ELSE Committed(edits, snaps)
    BY <1>3, HInvFacts, CommittedTail
  <2> QED
    BY <2>1, <2>2
<1>9. Count(edits', cur - 1) = Count(edits, cur) - c
  <2>1. Count(Tail(edits), cur - 1) = Count(edits, (cur - 1) + 1) - c
    BY <1>3, HInvFacts, CountTail
  <2> QED
    BY <1>1, <1>3, <2>1
<1>10. HInv'
  <2>1. PICK docs : Shows(docs) /\ SnapsShow(docs)
    BY DEF HInv
  <2>2. PICK e : /\ Shows(e)'
                 /\ \A k \in 0 .. Len(edits) - 1 : e[k] = docs[k + 1]
    BY <2>1, HInvFacts, PruneReplays
  <2>3. ASSUME NEW k \in 1 .. Len(edits'), IsBoundary(edits'[k])
        PROVE  e[k] = PageOfLines(snaps'[k]) /\ Document(snaps'[k]) = snaps'[k]
    <3>1. /\ k \in 0 .. Len(edits) - 1 /\ k \in 1 .. Len(edits) - 1
          /\ k + 1 \in 1 .. Len(edits) /\ k \in 1 .. Len(snaps) - 1
      BY <1>5, HInvFacts
    <3> QED
      BY <1>5, <1>6, <2>1, <2>2, <2>3, <3>1 DEF SnapsShow
  <2>4. SnapsShow(e)'
    BY <2>3 DEF SnapsShow
  <2>5. OpenIsTip' /\ SnapsOK' /\ BlankBeyondEof(fb')
    BY <1>1, <1>2, <1>5, <1>6, <1>7, HInvFacts DEF OpenIsTip, SnapsOK
  <2> QED
    BY <2>2, <2>4, <2>5 DEF HInv
<1>11. histPos = Count(edits, cur) /\ histPos' = histPos - c /\ Count(edits, cur) \in Nat
  BY <1>1, <1>3, <1>9, CountStep, Mapped, MappedNext DEF Mapping
<1>12. histDoc' = histDoc /\ histOpen' = histOpen
  BY <1>1, <1>2, <1>7, Mapped, MappedNext DEF Mapping
<1>13. CASE IsBoundary(edits[1])
  <2>1. histDocs' = Tail(histDocs)
    BY <1>8, <1>13, Mapped, MappedNext DEF Mapping, Rest
  <2>2. histPos' = histPos - 1
    BY <1>11, <1>13
  <2>3. histPos > 1
    <3>1. Count(edits, 1) = 1
      BY <1>13, CountFirst
    <3>2. 1 <= cur - 1 /\ cur - 1 \in Nat
      BY <1>3
    <3>3. Count(edits, 1) <= Count(edits, cur - 1)
      BY <3>2, CountGrows
    <3>4. Count(edits, cur) = Count(edits, cur - 1) + 1 /\ Count(edits, cur - 1) \in Nat
      BY <1>2, HInvFacts, PositionAt
    <3> QED
      BY <1>11, <3>1, <3>3, <3>4
  <2>4. Abstract!Forget
    BY <1>12, <2>1, <2>2, <2>3 DEF Abstract!Forget
  <2> QED
    BY <1>10, <2>4
<1>14. CASE ~IsBoundary(edits[1])
  <2>1. histDocs' = histDocs
    BY <1>8, <1>14, Mapped, MappedNext DEF Mapping
  <2>2. histPos' = histPos
    BY <1>11, <1>14
  <2>3. UNCHANGED Abstract!hvars
    BY <1>12, <2>1, <2>2 DEF Abstract!hvars
  <2> QED
    BY <1>10, <2>3
<1> QED
  BY <1>13, <1>14

\* A walk is, to the user, over when it starts: its steps change nothing, and
\* where it ends the buffer holds the document that was committed there.
LEMMA WalkArrives ==
  ASSUME HInv, IInv', Walk, snaps' = snaps
  PROVE  HInv' /\ UNCHANGED Abstract!hvars
<1>1. PICK docs : Shows(docs) /\ SnapsShow(docs)
  BY DEF HInv
<1>2. BlankBeyondEof(fb') /\ Shows(docs)'
  BY <1>1, HInvFacts, EdOpUndoReplays, EdOpRedoReplays DEF Walk
<1>3. /\ edits \in Seq(EditRecs) /\ Len(edits) \in Nat /\ cur \in 1 .. Len(edits)
      /\ cur - 1 \in 0 .. Len(edits) /\ cur \in 0 .. Len(edits)
  BY HInvFacts
<1>4. /\ Len(edits') = Len(edits)
      /\ \A k \in 1 .. Len(edits) : IsBoundary(edits'[k]) <=> IsBoundary(edits[k])
  <2>1. PICK r \in EditRecs : r.kind = edits[cur].kind /\ edits' = [edits EXCEPT ![cur] = r]
    <3>1. /\ edits[cur] \in EditRecs /\ Fits(edits[cur], fb)
          /\ IsStore(fb)
      BY <1>3, HInvFacts, RecordsFitEach DEF IInv
    <3> QED
      BY <3>1, UndoneKeeps, RedoneKeeps DEF Walk, EdOpUndo, EdOpRedo
  <2>2. /\ Len(edits') = Len(edits)
        /\ \A k \in 1 .. Len(edits) : edits'[k].kind = edits[k].kind
    BY <1>3, <2>1, RenewRecord
  <2> QED
    BY <2>2 DEF IsBoundary
<1>5. /\ histDocs' = histDocs
      /\ \A k \in 0 .. Len(edits) : Count(edits', k) = Count(edits, k)
      /\ SnapsOK'
  BY <1>4, SameCommitted
<1>6. SnapsShow(docs)'
  <2>1. \A k \in 1 .. Len(edits) : IsBoundary(edits[k]) =>
          docs[k] = PageOfLines(snaps[k]) /\ Document(snaps[k]) = snaps[k]
    BY <1>1 DEF SnapsShow
  <2> QED
    BY <1>4, <2>1 DEF SnapsShow
<1>7. /\ cur' \in 1 .. Len(edits)
      /\ IF IsBoundary(edits'[cur']) THEN pc' = "loop" ELSE pc' = pc
  <2>1. cur' \in 1 .. Len(edits')
    BY DEF IInv, ListOK
  <2> QED
    BY <1>4, <2>1 DEF Walk, EdOpUndo, EdOpRedo, Arrive
<1>8. pc \in {"undo", "redo"}
  BY DEF Walk, EdOpUndo, EdOpRedo
<1>9. HInv'
  <2>1. OpenIsTip'
    BY <1>7, <1>8 DEF OpenIsTip
  <2> QED
    BY <1>2, <1>5, <1>6, <2>1 DEF HInv
<1>10. histPos' = histPos
  <2>1. CASE EdOpUndo
    <3>1. pc = "undo" /\ cur' = cur - 1
      BY <2>1 DEF EdOpUndo, Arrive
    <3>2. histPos = Count(edits, cur - 1)
      BY <3>1, Mapped DEF Mapping
    <3>3. CASE IsBoundary(edits'[cur'])
      <4>1. histPos' = Count(edits', cur - 1)
        BY <1>7, <3>1, <3>3, MappedNext DEF Mapping
      <4> QED
        BY <1>3, <1>5, <3>2, <4>1
    <3>4. CASE ~IsBoundary(edits'[cur'])
      <4>1. histPos' = Count(edits', (cur - 1) - 1)
        BY <1>7, <3>1, <3>4, MappedNext DEF Mapping
      <4>2. /\ (cur - 1) - 1 \in Nat /\ ((cur - 1) - 1) + 1 = cur - 1
            /\ (cur - 1) - 1 \in 0 .. Len(edits)
        BY <1>3, <1>7, <3>1
      <4>3. ~IsBoundary(edits[cur - 1])
        BY <1>4, <1>7, <3>1, <3>4
      <4>4. Count(edits, cur - 1) = Count(edits, (cur - 1) - 1)
        <5>1. Count(edits, ((cur - 1) - 1) + 1) = Count(edits, (cur - 1) - 1) + 0
          BY <4>2, <4>3, CountStep
        <5>2. Count(edits, (cur - 1) - 1) \in Nat
          BY <4>2, CountStep
        <5> QED
          BY <4>2, <5>1, <5>2
      <4> QED
        BY <1>5, <3>2, <4>1, <4>2, <4>4
    <3> QED
      BY <3>3, <3>4
  <2>2. CASE EdOpRedo
    <3>1. pc = "redo" /\ cur' = cur + 1
      BY <2>2 DEF EdOpRedo, Arrive
    <3>2. histPos = Count(edits, cur) + 1
      BY <3>1, Mapped DEF Mapping
    <3>3. cur \in Nat /\ cur + 1 \in 0 .. Len(edits) /\ cur + 1 \in 1 .. Len(edits)
      BY <1>3, <1>7, <3>1
    <3>4. CASE IsBoundary(edits'[cur'])
      <4>1. histPos' = Count(edits', cur + 1)
        BY <1>7, <3>1, <3>4, MappedNext DEF Mapping
      <4>2. IsBoundary(edits[cur + 1])
        BY <1>4, <3>1, <3>3, <3>4
      <4>3. Count(edits, cur + 1) = Count(edits, cur) + 1
        BY <3>3, <4>2, CountStep
      <4> QED
        BY <1>5, <3>2, <3>3, <4>1, <4>3
    <3>5. CASE ~IsBoundary(edits'[cur'])
      <4>1. histPos' = Count(edits', cur + 1) + 1
        BY <1>7, <3>1, <3>5, MappedNext DEF Mapping
      <4>2. ~IsBoundary(edits[cur + 1])
        BY <1>4, <3>1, <3>3, <3>5
      <4>3. Count(edits, cur + 1) = Count(edits, cur)
        <5>1. Count(edits, cur + 1) = Count(edits, cur) + 0 /\ Count(edits, cur) \in Nat
          BY <3>3, <4>2, CountStep
        <5> QED
          BY <5>1
      <4> QED
        BY <1>5, <3>2, <3>3, <4>1, <4>3
    <3> QED
      BY <3>4, <3>5
  <2> QED
    BY <2>1, <2>2 DEF Walk
<1>11. histDoc = histDocs[histPos] /\ histOpen = FALSE
  BY <1>8, Mapped DEF Mapping
<1>12. CASE IsBoundary(edits'[cur'])
  <2>1. pc' = "loop" /\ histOpen' = FALSE /\ histDoc' = DocOf(fb') /\ Shown' = cur'
    BY <1>7, <1>12, MappedNext DEF Mapping, Shown
  <2>2. histPos' = Count(edits', cur')
    BY <2>1, MappedNext DEF Mapping
  <2>3. IsBoundary(edits[cur'])
    BY <1>4, <1>7, <1>12
  <2>4. histDocs[histPos'] = snaps[cur']
    <3>1. Count(edits', cur') = Count(edits, cur')
      BY <1>3, <1>5, <1>7
    <3> QED
      BY <1>7, <2>2, <2>3, <3>1, PositionAt
  <2>5. /\ PageOf(fb') = PageOfLines(snaps[cur']) /\ Document(snaps[cur']) = snaps[cur']
        /\ snaps[cur'] \in Seq(Content)
    BY <1>1, <1>2, <1>7, <2>1, <2>3, HInvFacts DEF Shows, SnapsShow
  <2>6. IsStore(fb')
    BY DEF IInv, ScalarsOK
  <2>7. DocOf(fb') = snaps[cur']
    BY <1>2, <2>5, <2>6, ShownDocument
  <2>8. histDoc' = histDoc
    BY <1>10, <1>11, <2>1, <2>4, <2>7
  <2> QED
    BY <1>5, <1>9, <1>10, <1>11, <2>1, <2>8 DEF Abstract!hvars
<1>13. CASE ~IsBoundary(edits'[cur'])
  <2>1. pc' \in {"undo", "redo"}
    BY <1>7, <1>8, <1>13
  <2>2. histDoc' = histDocs'[histPos'] /\ histOpen' = FALSE
    BY <2>1, MappedNext DEF Mapping
  <2> QED
    BY <1>5, <1>9, <1>10, <1>11, <2>2 DEF Abstract!hvars
<1> QED
  BY <1>12, <1>13

\* A list that holds one boundary commits one document.
LEMMA CommittedOne ==
  ASSUME NEW D, NEW d \in D
  PROVE  LET s == <<Boundary(FALSE, NoStat)>>
         IN  Committed(s, <<d>>) = <<d>> /\ Count(s, 1) = 1
<1> DEFINE s == <<Boundary(FALSE, NoStat)>>
           t == <<d>>
<1>1. s \in Seq(EditRecs) /\ Len(s) = 1 /\ IsBoundary(s[1])
  BY OneBoundary
<1>2. t \in Seq(D) /\ Len(t) = 1
  OBVIOUS
<1> HIDE DEF s, t
<1>3. Count(s, 1) = 1
  BY <1>1, CountFirst
<1>4. \A k \in 1 .. Len(s) : t[Count(s, k)] = t[k]
  BY <1>1, <1>3
<1>5. Committed(s, t) = t
  <2>1. Len(t) = Len(s) /\ Len(t) = Count(s, Len(s))
    BY <1>1, <1>2, <1>3
  <2> QED
    BY <1>1, <1>2, <1>4, <2>1, CommittedIs
<1> QED
  BY <1>3, <1>5 DEF s, t

\* A refresh starts over.
LEMMA RefreshRestarts ==
  ASSUME HInv, IInv', ReadFromDisk, snaps' = <<DocOf(fb')>>
  PROVE  HInv' /\ Abstract!Restart
<1>1. /\ BlankBeyondEof(fb')
      /\ PageOf(fb') = PageOfLines(disk.lines)
      /\ \E e : Shows(e)' /\ e[1] = PageOfLines(disk.lines)
  BY HInvFacts, RefreshReplays
<1>2. PICK e : Shows(e)' /\ e[1] = PageOfLines(disk.lines)
  BY <1>1
<1>3. edits' = <<Boundary(FALSE, NoStat)>> /\ cur' = 1 /\ pc' = "loop"
  BY DEF ReadFromDisk, Undo_Reinit
<1>4. Len(edits') = 1 /\ IsBoundary(edits'[1])
  BY <1>3, OneBoundary
<1>5. /\ DocOf(fb') \in Seq(Content) /\ PageOfLines(DocOf(fb')) = PageOf(fb')
      /\ Document(DocOf(fb')) = DocOf(fb')
  <2>1. IsStore(fb')
    BY DEF IInv, ScalarsOK
  <2> QED
    BY <1>1, <2>1, StoreDocument
<1>6. snaps' \in Seq(Seq(Content)) /\ Len(snaps') = 1 /\ snaps'[1] = DocOf(fb')
  BY <1>5
<1>7. HInv'
  <2>1. SnapsShow(e)'
    <3>1. ASSUME NEW k \in 1 .. Len(edits')
          PROVE  e[k] = PageOfLines(snaps'[k]) /\ Document(snaps'[k]) = snaps'[k]
      <4>1. k = 1
        BY <1>4
      <4> QED
        BY <1>1, <1>2, <1>5, <1>6, <4>1
    <3> QED
      BY <3>1 DEF SnapsShow
  <2>2. SnapsOK' /\ OpenIsTip'
    BY <1>3, <1>4, <1>6 DEF SnapsOK, OpenIsTip
  <2> QED
    BY <1>1, <1>2, <2>1, <2>2 DEF HInv
<1>8. histDocs' = <<DocOf(fb')>> /\ Count(edits', 1) = 1
  BY <1>3, <1>5, CommittedOne, MappedNext DEF Mapping
<1>9. /\ histPos' = 1 /\ histOpen' = FALSE /\ histDoc' = DocOf(fb')
  BY <1>3, <1>4, <1>8, MappedNext DEF Mapping
<1> QED
  BY <1>5, <1>7, <1>8, <1>9 DEF Abstract!Restart, AllDocs

LEMMA HistoryStarts == HistoryInit => HInv /\ Abstract!Init
<1> SUFFICES ASSUME HistoryInit PROVE HInv /\ Abstract!Init
  OBVIOUS
<1>1. PICK l \in InitDocs : fb = StoreOf(l)
  BY DEF HistoryInit, Init
<1>2. /\ l \in Seq(Content) /\ edits = <<Boundary(FALSE, NoStat)>> /\ cur = 1
      /\ pc = "loop" /\ Shown = 1 /\ snaps = <<DocOf(fb)>>
  BY DocsAssumption DEF HistoryInit, Init, Shown
<1>3. /\ BlankBeyondEof(fb) /\ PageOf(fb) = PageOfLines(l)
      /\ \E e : Chain(e, edits, 1) /\ e[1] = PageOfLines(l)
  BY <1>1, <1>2, RestartReplays
<1>4. PICK e : Chain(e, edits, 1) /\ e[1] = PageOfLines(l)
  BY <1>3
<1>5. Len(edits) = 1 /\ IsBoundary(edits[1])
  BY <1>2, OneBoundary
<1>6. IInv
  BY InitIInv DEF HistoryInit
<1>7. /\ DocOf(fb) \in Seq(Content) /\ PageOfLines(DocOf(fb)) = PageOf(fb)
      /\ Document(DocOf(fb)) = DocOf(fb)
  BY <1>3, <1>6, StoreDocument DEF IInv, ScalarsOK
<1>8. snaps \in Seq(Seq(Content)) /\ Len(snaps) = 1 /\ snaps[1] = DocOf(fb)
  BY <1>2, <1>7
<1>9. HInv
  <2>1. SnapsShow(e)
    <3>1. ASSUME NEW k \in 1 .. Len(edits)
          PROVE  e[k] = PageOfLines(snaps[k]) /\ Document(snaps[k]) = snaps[k]
      <4>1. k = 1
        BY <1>5
      <4> QED
        BY <1>3, <1>4, <1>7, <1>8, <4>1
    <3> QED
      BY <3>1 DEF SnapsShow
  <2>2. Shows(e)
    BY <1>2, <1>3, <1>4 DEF Shows
  <2>3. SnapsOK /\ OpenIsTip
    BY <1>2, <1>5, <1>8 DEF SnapsOK, OpenIsTip
  <2> QED
    BY <1>3, <1>6, <2>1, <2>2, <2>3 DEF HInv
<1>10. histDocs = <<DocOf(fb)>> /\ Count(edits, 1) = 1
  BY <1>2, <1>7, CommittedOne, Mapped DEF Mapping
<1>11. /\ histPos = 1 /\ histOpen = FALSE /\ histDoc = DocOf(fb)
  BY <1>2, <1>5, <1>10, Mapped DEF Mapping
<1> QED
  BY <1>7, <1>9, <1>10, <1>11 DEF Abstract!Init, AllDocs

\* Every step is one of History's, or changes nothing there.
LEMMA HistorySteps ==
  HInv /\ [HistoryNext]_historyVars => HInv' /\ [Abstract!Next]_Abstract!hvars
<1> SUFFICES ASSUME HInv, [HistoryNext]_historyVars
             PROVE  HInv' /\ [Abstract!Next]_Abstract!hvars
  OBVIOUS
<1>1. [Next]_vars
  BY DEF HistoryNext, historyVars, Next
<1>2. IInv'
  BY <1>1, HInvFacts, NextIInv
<1>3. CASE UndoInsBoundary /\ Snapped(DocOf(fb)) /\ (noEdit \/ IsBoundary(edits[cur]))
  <2>1. cur' = cur
    BY <1>3 DEF UndoInsBoundary, undoVars
  <2>2. snaps' = snaps
    BY <1>3, <2>1, HInvFacts DEF Snapped
  <2>3. ~UserUndo /\ ~UserRedo
    BY <1>3 DEF UndoInsBoundary, UserUndo, UserRedo, StartWalk
  <2> QED
    BY <1>2, <1>3, <2>2, <2>3, QuietKeeps
<1>4. CASE UndoInsBoundary /\ Snapped(DocOf(fb)) /\ ~noEdit /\ ~IsBoundary(edits[cur])
  BY <1>2, <1>4, CommitStep DEF Abstract!Next
<1>5. CASE Edit /\ Snapped(<<>>)
  <2>1. \/ \E er \in EditRecs : /\ ~IsBoundary(er)
                                /\ edits' = ListWith(edits, cur, er)
                                /\ cur' = cur + 1
        \/ /\ edits' = edits /\ cur' = cur
           /\ ~IsBoundary(edits[cur]) \/ PageOf(fb') = PageOf(fb)
    BY <1>2, <1>5, EditCases
  <2> QED
    BY <1>2, <1>5, <2>1, EditAdds, EditGoesOn DEF Abstract!Next
<1>6. CASE PruneStep /\ snaps' = IF cur' < cur THEN Tail(snaps) ELSE snaps
  <2>1. CASE undoCount > maxUndo
    BY <1>2, <1>6, <2>1, PruneForgets DEF Abstract!Next
  <2>2. CASE ~(undoCount > maxUndo)
    <3>1. pc = "prune" /\ pc' = "fetched" /\ fb' = fb /\ cur' = cur /\ edits' = edits
      BY <1>6, <2>2 DEF PruneStep, undoVars
    <3>2. snaps' = snaps
      BY <1>6, <3>1, HInvFacts
    <3>3. PICK docs : Shows(docs) /\ SnapsShow(docs)
      BY DEF HInv
    <3>4. Shows(docs)'
      BY <1>2, <3>1, <3>3, HInvFacts, SteadyShows
    <3> QED
      BY <1>2, <3>1, <3>2, <3>3, <3>4, SteadyStep
  <2> QED
    BY <2>1, <2>2
<1>7. CASE ReadFromDisk /\ snaps' = <<DocOf(fb')>>
  BY <1>2, <1>7, RefreshRestarts DEF Abstract!Next
<1>8. CASE (Command \/ OtherSync) /\ UNCHANGED snaps
  <2>1. HInv' /\ (UserUndo \/ UserRedo \/ UNCHANGED Abstract!hvars)
    BY <1>2, <1>8, QuietKeeps
  <2> QED
    BY <1>2, <1>8, <2>1, UndoMoves DEF Abstract!Next
<1>9. CASE Walk /\ UNCHANGED snaps
  BY <1>2, <1>9, WalkArrives
<1>10. CASE UNCHANGED historyVars
  <2>1. /\ pc' = pc /\ fb' = fb /\ cur' = cur /\ edits' = edits /\ snaps' = snaps
    BY <1>10 DEF historyVars, vars
  <2>2. PICK docs : Shows(docs) /\ SnapsShow(docs)
    BY DEF HInv
  <2>3. Shows(docs)'
    BY <1>2, <2>1, <2>2, HInvFacts, SteadyShows
  <2> QED
    BY <1>2, <2>1, <2>2, <2>3, SteadyStep
<1> QED
  BY <1>3, <1>4, <1>5, <1>6, <1>7, <1>8, <1>9, <1>10 DEF HistoryNext

\* Undo and redo are exact: through any edits, walks, pruning, refreshes and
\* no-edit times, the edit records of FBUF show the user the documents of a
\* plain history, and each undo or redo its neighbouring document
\* (ImplementsHistory; fbuf_undo.cpp).
THEOREM UndoImplementsHistory == HistorySpec => ImplementsHistory
<1>1. HistoryInit => HInv /\ Abstract!Init
  BY HistoryStarts
<1>2. HInv /\ [HistoryNext]_historyVars => HInv' /\ [Abstract!Next]_Abstract!hvars
  BY HistorySteps
<1> QED
  BY <1>1, <1>2, PTL DEF HistorySpec, ImplementsHistory, Abstract!Spec
=============================================================================
