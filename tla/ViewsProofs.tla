----------------------------- MODULE ViewsProofs -----------------------------
(***************************************************************************)
(* What the views promise for all files, windows and times: the current    *)
(* file is the one the current window shows, and unsaved edits go only     *)
(* when the user was asked.  Both rest on SetWindowSetValidView: it puts   *)
(* the file it makes current at the head of the current window's list, and *)
(* forgets only names that can no longer be shown.  It also keeps the      *)
(* views of a window in the order they were last shown, which is what      *)
(* merging them into the state file relies on.                             *)
(***************************************************************************)
EXTENDS Views, NumberProofs

View  == [buf : Bufs, t : 0 .. MaxClock]
ViewLists == Seq(View)
Lists == Seq(ViewLists)

\* The windows, and what they show, have their types.
ListsOK ==
  /\ win \in Lists /\ Len(win) \in 1 .. MaxWindows /\ cur \in 1 .. Len(win)
  /\ clock \in 0 .. MaxClock

\* Only buffers have lines, and only lines that were read are edited.
BufsOK ==
  /\ fbufs \in SUBSET Bufs /\ loaded \in SUBSET fbufs /\ dirty \in SUBSET loaded
  /\ dirty \in SUBSET Names
  /\ disk \in SUBSET Names /\ reach \in SUBSET Names

\* From startup on the current window shows the current file.
Shown ==
  curBuf # NoBuf => win[cur] # <<>> /\ curBuf = win[cur][1].buf /\ curBuf \in loaded

\* Views in the order they were last shown, none of them later than now.
InOrder(views, now) ==
  /\ \A j \in 1 .. Len(views) : views[j].t <= now
  /\ \A j, k \in 1 .. Len(views) : j < k => views[k].t <= views[j].t

AllInOrder(ws, now) == \A i \in 1 .. Len(ws) : InOrder(ws[i], now)

\* Every window lists its views in that order: a view comes to the head when it is shown.
Ordered == AllInOrder(win, clock)

IInv == ListsOK /\ BufsOK /\ Shown /\ Ordered
-----------------------------------------------------------------------------
(* View lists *)

\* The views of some buffers are a list again.
LEMMA ViewsOfList ==
  ASSUME NEW views \in ViewLists, NEW bufs
  PROVE  ViewsOf(views, bufs) \in ViewLists
<1> DEFINE I == {i \in DOMAIN views : views[i].buf \in bufs}
<1>1. PICK n \in Nat : n = Len(views)
  BY DEF ViewLists
<1>2. I \in SUBSET (1 .. n)
  BY <1>1 DEF ViewLists
<1>3. Cardinality(I) \in Nat
  BY <1>2, PositionsCount
<1>4. ASSUME NEW r \in 1 .. Cardinality(I) PROVE views[Nth(I, r)] \in View
  <2>0. \A i \in 1 .. n : views[i] \in View
    BY <1>1 DEF ViewLists
  <2> HIDE DEF I
  <2>1. \E i \in I : Cardinality({j \in I : j <= i}) = r
    BY <1>2, PositionOfRank
  <2>2. Nth(I, r) \in I
    BY <2>1 DEF Nth
  <2> QED
    BY <1>2, <2>0, <2>2
<1>5. ViewsOf(views, bufs) = [r \in 1 .. Cardinality(I) |-> views[Nth(I, r)]]
  BY DEF ViewsOf
<1> HIDE DEF I
<1> QED
  BY <1>3, <1>4, <1>5 DEF ViewLists

LEMMA BufsOfList ==
  ASSUME NEW views \in ViewLists
  PROVE  BufsOf(views) \in Seq(Bufs)
<1>1. Len(views) \in Nat /\ DOMAIN views = 1 .. Len(views)
  BY DEF ViewLists
<1>2. \A i \in 1 .. Len(views) : views[i] \in View
  BY DEF ViewLists
<1>3. \A i \in 1 .. Len(views) : views[i].buf \in Bufs
  BY <1>2 DEF View
<1> QED
  BY <1>1, <1>3 DEF BufsOf

LEMMA UnlinkedLists ==
  ASSUME NEW ws \in Lists, NEW gone
  PROVE  Unlinked(ws, gone) \in Lists /\ Len(Unlinked(ws, gone)) = Len(ws)
<1>1. \A i \in 1 .. Len(ws) : ViewsOf(ws[i], Bufs \ gone) \in ViewLists
  BY ViewsOfList DEF Lists
<1>2. Unlinked(ws, gone) = [i \in 1 .. Len(ws) |-> ViewsOf(ws[i], Bufs \ gone)]
  BY DEF Unlinked, Lists
<1>3. Len(ws) \in Nat
  BY DEF Lists
<1>4. PICK u, n : u = Unlinked(ws, gone) /\ n = Len(ws)
  OBVIOUS
<1>5. u \in [1 .. n -> ViewLists]
  BY <1>1, <1>2, <1>4
<1>6. u \in Lists /\ Len(u) = n
  BY <1>3, <1>4, <1>5 DEF Lists
<1> QED
  BY <1>4, <1>6

\* The view focused is the first of its window's list.
LEMMA FocusedLists ==
  ASSUME NEW ws \in Lists, NEW c \in 1 .. Len(ws), NEW b \in Bufs,
         NEW now \in 0 .. MaxClock, NEW new, new = Focused(ws, c, b, now)
  PROVE  /\ new \in Lists /\ Len(new) = Len(ws)
         /\ new[c] # <<>> /\ new[c][1].buf = b
<1>1. PICK v : v = [buf |-> b, t |-> now]
  OBVIOUS
<1>2. v \in View /\ v.buf = b
  BY <1>1 DEF View
<1>3. PICK rest : rest = ViewsOf(ws[c], Bufs \ {b})
  OBVIOUS
<1>4. rest \in ViewLists
  BY <1>3, ViewsOfList DEF Lists
<1>5. PICK list : list = <<v>> \o rest
  OBVIOUS
<1>6. list \in ViewLists /\ list # <<>> /\ list[1] = v
  BY <1>2, <1>4, <1>5 DEF ViewLists
<1>7. new = [ws EXCEPT ![c] = list]
  BY <1>1, <1>3, <1>5 DEF Focused
<1>8. new \in Lists /\ Len(new) = Len(ws) /\ new[c] = list
  BY <1>6, <1>7 DEF Lists
<1> QED
  BY <1>2, <1>6, <1>8
-----------------------------------------------------------------------------
(* The order of the views *)

\* The positions of a set follow each other as their ranks do.
LEMMA NthInOrder ==
  ASSUME NEW n \in Nat, NEW I \in SUBSET (1 .. n),
         NEW r \in 1 .. Cardinality(I), NEW s \in 1 .. Cardinality(I), r < s
  PROVE  Nth(I, r) \in I /\ Nth(I, s) \in I /\ Nth(I, r) < Nth(I, s)
<1> DEFINE UpTo(i) == {j \in I : j <= i}
<1>1. ASSUME NEW q \in 1 .. Cardinality(I)
      PROVE  Nth(I, q) \in I /\ Cardinality(UpTo(Nth(I, q))) = q
  <2>1. \E i \in I : Cardinality({j \in I : j <= i}) = q
    BY PositionOfRank
  <2> QED
    BY <2>1 DEF Nth
<1> PICK a, b : a = Nth(I, r) /\ b = Nth(I, s)
  OBVIOUS
<1>2. a \in I /\ b \in I /\ Cardinality(UpTo(a)) = r /\ Cardinality(UpTo(b)) = s
  BY <1>1
<1>3. a \in Nat /\ b \in Nat /\ \A j \in I : j \in Nat
  BY <1>2
<1>4. ASSUME b <= a PROVE FALSE
  <2>1. UpTo(b) \in SUBSET UpTo(a) /\ UpTo(a) \in SUBSET (1 .. n)
    <3>1. \A j \in I : j <= b => j <= a
      BY <1>3, <1>4
    <3> QED
      BY <3>1
  <2>2. Cardinality(UpTo(b)) <= Cardinality(UpTo(a))
    <3> HIDE DEF UpTo
    <3> QED
      BY <2>1, PositionsCount
  <2>3. r \in Int /\ s \in Int
    BY PositionsCount
  <2> QED
    BY <1>2, <2>2, <2>3
<1> QED
  BY <1>2, <1>3, <1>4

LEMMA ViewsOfInOrder ==
  ASSUME NEW views \in ViewLists, NEW bufs, NEW now, InOrder(views, now)
  PROVE  InOrder(ViewsOf(views, bufs), now)
<1> DEFINE I == {i \in DOMAIN views : views[i].buf \in bufs}
<1>1. PICK n \in Nat : n = Len(views)
  BY DEF ViewLists
<1>2. I \in SUBSET (1 .. n)
  BY <1>1 DEF ViewLists
<1>3. ViewsOf(views, bufs) = [r \in 1 .. Cardinality(I) |-> views[Nth(I, r)]]
  BY DEF ViewsOf
<1> HIDE DEF I
<1>4. PICK m \in Nat : m = Cardinality(I)
  BY <1>2, PositionsCount
<1>5. PICK v : v = ViewsOf(views, bufs)
  OBVIOUS
<1>6. v = [r \in 1 .. m |-> views[Nth(I, r)]] /\ Len(v) = m
  BY <1>3, <1>4, <1>5
<1>7. \A r \in 1 .. m : Nth(I, r) \in 1 .. n
  <2> TAKE r \in 1 .. m
  <2>1. \E i \in I : Cardinality({j \in I : j <= i}) = r
    BY <1>2, <1>4, PositionOfRank
  <2> QED
    BY <1>2, <2>1 DEF Nth
<1>8. \A r, s \in 1 .. m : r < s => Nth(I, r) < Nth(I, s)
  BY <1>2, <1>4, NthInOrder
<1>9. \A r \in 1 .. m : v[r].t <= now
  BY <1>1, <1>6, <1>7 DEF InOrder
<1>10. \A r, s \in 1 .. m : r < s => v[s].t <= v[r].t
  BY <1>1, <1>6, <1>7, <1>8 DEF InOrder
<1> QED
  BY <1>5, <1>6, <1>9, <1>10 DEF InOrder

LEMMA UnlinkedInOrder ==
  ASSUME NEW ws \in Lists, NEW gone, NEW now, AllInOrder(ws, now)
  PROVE  AllInOrder(Unlinked(ws, gone), now)
<1>1. PICK n \in Nat : n = Len(ws) /\ DOMAIN ws = 1 .. n
  BY DEF Lists
<1>2. PICK u : u = Unlinked(ws, gone)
  OBVIOUS
<1>3. u = [i \in 1 .. n |-> ViewsOf(ws[i], Bufs \ gone)] /\ Len(u) = n
  BY <1>1, <1>2 DEF Unlinked
<1>4. ASSUME NEW i \in 1 .. n PROVE InOrder(u[i], now)
  <2>1. ws[i] \in ViewLists /\ InOrder(ws[i], now)
    BY <1>1 DEF Lists, AllInOrder
  <2>2. InOrder(ViewsOf(ws[i], Bufs \ gone), now)
    BY <2>1, ViewsOfInOrder
  <2> QED
    BY <1>3, <2>2
<1> QED
  BY <1>2, <1>3, <1>4 DEF AllInOrder

LEMMA TailInOrder ==
  ASSUME NEW views \in ViewLists, views # <<>>, NEW now, InOrder(views, now)
  PROVE  Tail(views) \in ViewLists /\ InOrder(Tail(views), now)
<1>1. PICK n \in Nat : n = Len(views) /\ n # 0
  BY DEF ViewLists
<1>2. PICK v : v = Tail(views)
  OBVIOUS
<1>3. v \in ViewLists /\ Len(v) = n - 1 /\ \A j \in 1 .. n - 1 : v[j] = views[j + 1]
  BY <1>1, <1>2 DEF ViewLists
<1>4. \A j \in 1 .. n - 1 : j + 1 \in 1 .. n
  BY <1>1
<1>5. \A j, k \in 1 .. n - 1 : j < k => j + 1 < k + 1
  BY <1>1
<1>6. \A j \in 1 .. n - 1 : v[j].t <= now
  BY <1>1, <1>3, <1>4 DEF InOrder
<1>7. \A j, k \in 1 .. n - 1 : j < k => v[k].t <= v[j].t
  BY <1>1, <1>3, <1>4, <1>5 DEF InOrder
<1> QED
  BY <1>2, <1>3, <1>6, <1>7 DEF InOrder

\* The view that is shown now goes in front of those shown before.
LEMMA FocusedInOrder ==
  ASSUME NEW ws \in Lists, NEW c \in 1 .. Len(ws), NEW b \in Bufs,
         NEW before \in 0 .. MaxClock, NEW now \in 0 .. MaxClock, before <= now,
         AllInOrder(ws, before), NEW new, new = Focused(ws, c, b, now)
  PROVE  AllInOrder(new, now)
<1>0. MaxClock \in Nat /\ before \in Nat /\ now \in Nat
  BY ViewsAssumption
<1>1. PICK n \in Nat : n = Len(ws) /\ DOMAIN ws = 1 .. n
  BY DEF Lists
<1>2. PICK v : v = [buf |-> b, t |-> now]
  OBVIOUS
<1>3. PICK rest : rest = ViewsOf(ws[c], Bufs \ {b})
  OBVIOUS
<1>4. ws[c] \in ViewLists /\ InOrder(ws[c], before)
  BY <1>1 DEF Lists, AllInOrder
<1>5. rest \in ViewLists /\ InOrder(rest, before)
  BY <1>3, <1>4, ViewsOfList, ViewsOfInOrder
<1>6. PICK list : list = <<v>> \o rest
  OBVIOUS
<1>7. PICK m \in Nat : m = Len(rest)
  BY <1>5 DEF ViewLists
<1>8. v \in View /\ v.t = now
  BY <1>2 DEF View
<1>9. /\ Len(list) = m + 1 /\ list[1] = v
      /\ \A j \in 2 .. m + 1 : list[j] = rest[j - 1]
  BY <1>5, <1>6, <1>7, <1>8 DEF ViewLists
<1>10. \A j \in 1 .. m : rest[j].t \in Nat /\ rest[j].t <= now
  <2> TAKE j \in 1 .. m
  <2>1. rest[j] \in View
    BY <1>5, <1>7 DEF ViewLists
  <2>2. PICK x \in Nat : x = rest[j].t
    BY <1>0, <2>1 DEF View
  <2>3. x <= before
    BY <1>5, <1>7, <2>2 DEF InOrder
  <2> QED
    BY <1>0, <2>2, <2>3
<1>11. \A j \in 1 .. m + 1 : list[j].t <= now
  <2> TAKE j \in 1 .. m + 1
  <2>1. CASE j = 1
    BY <1>0, <1>8, <1>9, <2>1
  <2>2. CASE j \in 2 .. m + 1
    <3>1. j - 1 \in 1 .. m
      BY <2>2
    <3> QED
      BY <1>9, <1>10, <2>2, <3>1
  <2> QED
    BY <2>1, <2>2
<1>12. \A j, k \in 1 .. m + 1 : j < k => list[k].t <= list[j].t
  <2> SUFFICES ASSUME NEW j \in 1 .. m + 1, NEW k \in 1 .. m + 1, j < k
               PROVE  list[k].t <= list[j].t
    OBVIOUS
  <2>1. k \in 2 .. m + 1 /\ k - 1 \in 1 .. m
    OBVIOUS
  <2>2. CASE j = 1
    BY <1>8, <1>9, <1>11, <2>2
  <2>3. CASE j \in 2 .. m + 1
    <3>1. j - 1 \in 1 .. m /\ j - 1 < k - 1
      BY <2>3
    <3>2. rest[k - 1].t <= rest[j - 1].t
      BY <1>5, <1>7, <2>1, <3>1 DEF InOrder
    <3> QED
      BY <1>9, <2>1, <2>3, <3>2
  <2> QED
    BY <2>2, <2>3
<1>13. InOrder(list, now)
  BY <1>9, <1>11, <1>12 DEF InOrder
<1>14. new = [ws EXCEPT ![c] = list] /\ Len(new) = n
  BY <1>1, <1>2, <1>3, <1>6 DEF Focused, Lists
<1>15. ASSUME NEW i \in 1 .. n PROVE InOrder(new[i], now)
  <2>1. CASE i = c
    BY <1>1, <1>13, <1>14, <2>1
  <2>2. CASE i # c
    <3>1. new[i] = ws[i] /\ InOrder(ws[i], before)
      BY <1>1, <1>14, <2>2 DEF AllInOrder
    <3>2. ws[i] \in ViewLists
      BY <1>1 DEF Lists
    <3>3. \A j \in 1 .. Len(ws[i]) : ws[i][j].t <= now
      <4> TAKE j \in 1 .. Len(ws[i])
      <4>1. ws[i][j] \in View
        BY <3>2 DEF ViewLists
      <4>2. PICK x \in Nat : x = ws[i][j].t
        BY <1>0, <4>1 DEF View
      <4>3. x <= before
        BY <3>1, <4>2 DEF InOrder
      <4> QED
        BY <1>0, <4>2, <4>3
    <3> QED
      BY <3>1, <3>3 DEF InOrder
  <2> QED
    BY <2>1, <2>2
<1> QED
  BY <1>14, <1>15 DEF AllInOrder
-----------------------------------------------------------------------------
(* SetWindowSetValidView *)

\* A valid window forgets only what cannot be shown, and shows what is current.
LEMMA SettleShows ==
  ASSUME BufsOK, clock \in 0 .. MaxClock,
         NEW ws \in Lists, Len(ws) \in 1 .. MaxWindows, AllInOrder(ws, clock),
         NEW c \in 1 .. Len(ws),
         NEW first \in Seq(Bufs), NEW keep \in SUBSET Bufs,
         NEW created \in SUBSET Names, NEW onDisk \in SUBSET Names,
         Settle(ws, c, first, keep, created, onDisk), reach' = reach
  PROVE  /\ IInv'
         /\ \A b \in dirty \cap reach : b \in keep => b \in fbufs'
<1> DEFINE cand == first \o BufsOf(ws[c])
           good == {i \in DOMAIN cand : Usable(cand[i], created)}
           k    == IF good = {} THEN Len(cand) + 1 ELSE Min(good)
           gone == {cand[i] : i \in 1 .. (k - 1)}
           next == IF good = {} THEN NoFile ELSE cand[k]
<1>1. cand \in Seq(Bufs) /\ Len(cand) \in Nat
  <2>1. ws[c] \in ViewLists
    BY DEF Lists
  <2>2. BufsOf(ws[c]) \in Seq(Bufs)
    BY <2>1, BufsOfList
  <2> QED
    BY <2>2
<1>2. good \in SUBSET (1 .. Len(cand)) /\ good \in SUBSET Nat
  BY <1>1
<1>3. ASSUME good # {}
      PROVE  Min(good) \in good /\ \A i \in good : Min(good) <= i
  <2> HIDE DEF good
  <2> QED
    BY <1>2, <1>3, LeastNumber DEF Min
<1>4. k \in 1 .. Len(cand) + 1 /\ \A i \in 1 .. (k - 1) : i \in 1 .. Len(cand) /\ i \notin good
  <2> HIDE DEF cand, good
  <2>1. CASE good = {}
    BY <1>1, <1>2, <2>1
  <2>2. CASE good # {}
    <3> PICK n, m : n = Len(cand) /\ m = Min(good)
      OBVIOUS
    <3>1. n \in Nat /\ m \in 1 .. n /\ m = k /\ \A i \in good : m <= i
      BY <1>1, <1>2, <1>3, <2>2
    <3>2. \A i \in 1 .. (m - 1) : i \in 1 .. n /\ ~(m <= i)
      BY <3>1
    <3> QED
      BY <3>1, <3>2
  <2> QED
    BY <2>1, <2>2
<1>5. gone \in SUBSET Bufs /\ \A b \in gone : ~Usable(b, created)
  <2>1. \A i \in 1 .. (k - 1) : cand[i] \in Bufs /\ ~Usable(cand[i], created)
    <3> HIDE DEF cand, k
    <3> QED
      BY <1>1, <1>4
  <2> HIDE DEF cand, k
  <2> QED
    BY <2>1
<1>6. next \in Bufs
  <2>1. CASE good = {}
    BY <2>1 DEF Bufs
  <2>2. CASE good # {}
    <3> HIDE DEF cand, good
    <3> PICK m : m = Min(good)
      OBVIOUS
    <3>1. m \in 1 .. Len(cand) /\ next = cand[m]
      BY <1>2, <1>3, <2>2
    <3> QED
      BY <1>1, <3>1
  <2> QED
    BY <2>1, <2>2
<1> PICK gone2, next2 : gone2 = gone /\ next2 = next
  OBVIOUS
<1>7. PICK now \in {clock, Min2(clock + 1, MaxClock)} :
        /\ clock' = now
        /\ win' = Focused(Unlinked(ws, gone2), c, next2, now)
        /\ cur' = c
        /\ curBuf' = next2
        /\ fbufs' = (keep \ gone2) \cup {next2}
        /\ loaded' = (loaded \cap fbufs') \cup {next2}
        /\ dirty' = dirty \cap fbufs'
        /\ disk' = IF next2 \in created \ loaded THEN onDisk \cup {next2} ELSE onDisk
  BY DEF Settle
<1>8. gone2 \in SUBSET Bufs /\ next2 \in Bufs /\ \A b \in gone2 : ~Usable(b, created)
  BY <1>5, <1>6
<1> HIDE DEF cand, good, k, gone, next
<1>9. now \in 0 .. MaxClock /\ clock <= now
  BY ViewsAssumption DEF Min2
<1>10. PICK u : u = Unlinked(ws, gone2)
  OBVIOUS
<1>11. u \in Lists /\ Len(u) = Len(ws)
  BY <1>10, UnlinkedLists
<1>18. AllInOrder(u, clock)
  BY <1>10, UnlinkedInOrder
<1>12. /\ win' \in Lists /\ Len(win') = Len(ws)
       /\ win'[c] # <<>> /\ win'[c][1].buf = next2
       /\ AllInOrder(win', now)
  <2>1. PICK w : w = Focused(u, c, next2, now)
    OBVIOUS
  <2>2. c \in 1 .. Len(u) /\ win' = w
    BY <1>7, <1>10, <1>11, <2>1
  <2>3. /\ w \in Lists /\ Len(w) = Len(u)
        /\ w[c] # <<>> /\ w[c][1].buf = next2
    BY <1>8, <1>9, <1>11, <2>1, <2>2, FocusedLists
  <2>4. AllInOrder(w, now)
    BY <1>8, <1>9, <1>11, <1>18, <2>1, <2>2, FocusedInOrder
  <2> QED
    BY <1>11, <2>2, <2>3, <2>4
<1>13. ListsOK'
  BY <1>7, <1>9, <1>12 DEF ListsOK
<1>14. BufsOK'
  BY <1>7, <1>8 DEF BufsOK
<1>15. Shown'
  BY <1>7, <1>12 DEF Shown
<1>16. ASSUME NEW b \in dirty \cap reach, b \in keep
       PROVE  b \in fbufs'
  <2>1. Usable(b, created)
    BY DEF Usable, BufsOK
  <2> QED
    BY <1>7, <1>8, <1>16, <2>1
<1>17. Ordered'
  BY <1>7, <1>12 DEF Ordered
<1> QED
  BY <1>13, <1>14, <1>15, <1>16, <1>17 DEF IInv
-----------------------------------------------------------------------------
(* Lists of windows *)

LEMMA WindowInserted ==
  ASSUME NEW ws \in Lists, NEW c \in 1 .. Len(ws), NEW list \in ViewLists,
         NEW new, new = InsertAt(ws, c + 1, list)
  PROVE  /\ new \in Lists /\ Len(new) = Len(ws) + 1
         /\ \A i \in 1 .. c : new[i] = ws[i]
         /\ \A i \in 1 .. Len(new) : new[i] = list \/ \E k \in 1 .. Len(ws) : new[i] = ws[k]
<1>1. PICK n \in Nat : n = Len(ws)
  BY DEF Lists
<1>2. c \in 1 .. n /\ c \in 0 .. n /\ (c + 1) - 1 = c
  BY <1>1
<1>3. PICK one : one = <<list>>
  OBVIOUS
<1>4. one \in Lists /\ Len(one) = 1 /\ one[1] = list
  BY <1>3 DEF Lists
<1>5. new = SubSeq(ws, 1, c) \o one \o SubSeq(ws, c + 1, Len(ws))
  BY <1>2, <1>3 DEF InsertAt
<1>6. /\ new \in Lists /\ Len(new) = n + 1
      /\ \A i \in 1 .. c : new[i] = ws[i]
      /\ \A i \in 1 .. 1 : new[c + i] = one[i]
      /\ \A i \in c + 1 .. n : new[i + 1] = ws[i]
  <2>1. ws \in Seq(ViewLists) /\ one \in Seq(ViewLists) /\ c \in 0 .. Len(ws)
    BY <1>1, <1>2, <1>4 DEF Lists
  <2> DEFINE t == SubSeq(ws, 1, c) \o one \o SubSeq(ws, c + 1, Len(ws))
  <2>3. /\ t \in Seq(ViewLists) /\ Len(t) = Len(ws) + Len(one)
        /\ \A i \in 1 .. c : t[i] = ws[i]
        /\ \A i \in 1 .. Len(one) : t[c + i] = one[i]
        /\ \A i \in c + 1 .. Len(ws) : t[i + Len(one)] = ws[i]
    BY <2>1, PutIn
  <2>4. new = t
    BY <1>5
  <2> HIDE DEF t
  <2> QED
    BY <1>1, <1>4, <2>3, <2>4 DEF Lists
<1>7. ASSUME NEW i \in 1 .. n + 1
      PROVE  new[i] = list \/ \E k \in 1 .. n : new[i] = ws[k]
  <2>1. CASE i \in 1 .. c
    <3>1. new[i] = ws[i]
      BY <1>6, <2>1
    <3>2. i \in 1 .. n
      BY <1>2, <2>1
    <3> QED
      BY <3>1, <3>2
  <2>2. CASE i = c + 1
    BY <1>4, <1>6, <2>2
  <2>3. CASE i \in c + 2 .. n + 1
    <3>1. i - 1 \in c + 1 .. n /\ (i - 1) + 1 = i /\ i - 1 \in 1 .. n
      BY <1>2, <2>3
    <3> QED
      BY <1>6, <3>1
  <2> QED
    BY <1>2, <2>1, <2>2, <2>3
<1> QED
  BY <1>1, <1>6, <1>7

LEMMA WindowRemoved ==
  ASSUME NEW ws \in Lists, NEW c \in 1 .. Len(ws), NEW new, new = RemoveAt(ws, c)
  PROVE  /\ new \in Lists /\ Len(new) = Len(ws) - 1
         /\ \A i \in 1 .. Len(new) : \E k \in 1 .. Len(ws) : new[i] = ws[k]
<1>1. PICK n \in Nat : n = Len(ws)
  BY DEF Lists
<1>2. /\ c \in 1 .. n /\ c - 1 \in 0 .. n /\ c \in c - 1 .. n /\ c - (c - 1) = 1
  BY <1>1
<1>3. PICK y : y = c - 1
  OBVIOUS
<1>4. y \in 0 .. Len(ws) /\ c \in y .. Len(ws) /\ c - y = 1
  BY <1>1, <1>2, <1>3
<1>5. new = SubSeq(ws, 1, y) \o SubSeq(ws, c + 1, Len(ws))
  BY <1>3 DEF RemoveAt
<1>6. /\ new \in Lists /\ Len(new) = n - 1
      /\ \A i \in 1 .. y : new[i] = ws[i]
      /\ \A i \in 1 .. Len(new) : i <= y \/ new[i] = ws[i + 1]
  <2>1. ws \in Seq(ViewLists)
    BY DEF Lists
  <2>2. PICK t : t = SubSeq(ws, 1, y) \o SubSeq(ws, c + 1, Len(ws))
    OBVIOUS
  <2>3. /\ t \in Seq(ViewLists) /\ Len(t) = Len(ws) - (c - y)
        /\ \A i \in 1 .. y : t[i] = ws[i]
        /\ \A i \in 1 .. Len(t) : i <= y \/ t[i] = ws[i + (c - y)]
    BY <1>4, <2>1, <2>2, TakenOut
  <2> QED
    BY <1>1, <1>4, <1>5, <2>2, <2>3 DEF Lists
<1>7. ASSUME NEW i \in 1 .. n - 1
      PROVE  \E k \in 1 .. n : new[i] = ws[k]
  <2>1. i \in 1 .. n /\ i + 1 \in 1 .. n
    BY <1>1
  <2>2. CASE i <= y
    BY <1>1, <1>4, <1>6, <2>1, <2>2
  <2>3. CASE ~(i <= y)
    BY <1>6, <2>1, <2>3
  <2> QED
    BY <2>2, <2>3
<1> QED
  BY <1>1, <1>6, <1>7
-----------------------------------------------------------------------------
(* The steps *)

\* What a step keeps: the invariant, and unsaved edits it did not ask about.
Careful == \A b \in dirty \cap reach : b \in fbufs' \cup asked'
Kept    == IInv' /\ Careful

LEMMA InitInv == Init => IInv
<1> SUFFICES ASSUME Init PROVE IInv
  OBVIOUS
<1>1. /\ cur = 1 /\ curBuf = NoBuf /\ clock = 1
      /\ loaded = {} /\ dirty = {} /\ disk \in SUBSET Names /\ reach = Names
  BY DEF Init
<1>2. PICK names \in SetToAllKPermutations(Names) :
        /\ win = <<[i \in DOMAIN names |-> [buf |-> names[i], t |-> 0]]>>
        /\ fbufs = ToSet(names)
  BY DEF Init
<1>3. PICK s \in SUBSET Names : names \in SetToSeqs(s)
  BY <1>2 DEF SetToAllKPermutations
<1>4. PICK n \in Nat : n = Cardinality(s)
  BY ViewsAssumption, FS_Subset, FS_CardinalityType
<1>5. names \in [1 .. n -> s]
  BY <1>3, <1>4 DEF SetToSeqs
<1>6. PICK list : list = [i \in DOMAIN names |-> [buf |-> names[i], t |-> 0]]
  OBVIOUS
<1>7. list \in ViewLists
  <2>1. 0 \in 0 .. MaxClock
    BY ViewsAssumption
  <2>2. \A i \in 1 .. n : [buf |-> names[i], t |-> 0] \in View
    BY <1>5, <2>1 DEF View, Bufs
  <2>3. list \in [1 .. n -> View]
    BY <1>5, <1>6, <2>2
  <2> QED
    BY <2>3 DEF ViewLists
<1>8. win \in Lists /\ Len(win) = 1
  BY <1>2, <1>6, <1>7 DEF Lists
<1>9. ListsOK
  BY <1>1, <1>8, ViewsAssumption DEF ListsOK
<1>10. fbufs \in SUBSET Bufs
  BY <1>2, <1>5 DEF ToSet, Bufs
<1>11. Ordered
  <2>1. list = [i \in 1 .. n |-> [buf |-> names[i], t |-> 0]] /\ Len(list) = n
    BY <1>5, <1>6
  <2>2. \A i \in 1 .. n : list[i].t = 0
    BY <2>1
  <2>3. InOrder(list, 1)
    BY <2>1, <2>2 DEF InOrder
  <2>4. \A i \in 1 .. Len(win) : win[i] = list
    BY <1>2, <1>6
  <2> QED
    BY <1>1, <2>3, <2>4 DEF Ordered, AllInOrder
<1> QED
  BY <1>1, <1>9, <1>10, <1>11 DEF IInv, BufsOK, Shown

\* A step that settles on a valid view, for files whose edits it may keep or ask about.
LEMMA SettleKeeps ==
  ASSUME IInv, NEW ws \in Lists, Len(ws) \in 1 .. MaxWindows, AllInOrder(ws, clock),
         NEW c \in 1 .. Len(ws),
         NEW first \in Seq(Bufs), NEW keep \in SUBSET Bufs,
         NEW created \in SUBSET Names, NEW onDisk \in SUBSET Names,
         Settle(ws, c, first, keep, created, onDisk), reach' = reach,
         \A b \in dirty \cap reach : b \in keep \cup asked'
  PROVE  Kept
BY SettleShows DEF IInv, ListsOK, Kept, Careful

LEMMA StartupKeeps ==
  ASSUME IInv, NEW created \in SUBSET Names, Startup(created)
  PROVE  Kept
<1>1. Settle(win, 1, <<>>, fbufs, created, disk) /\ reach' = reach
  BY DEF Startup
<1>2. PICK first : first = <<>>
  OBVIOUS
<1>0. first \in Seq(Bufs)
  BY <1>2
<1>3. Settle(win, 1, first, fbufs, created, disk)
  BY <1>1, <1>2
<1>4. /\ win \in Lists /\ Len(win) \in 1 .. MaxWindows /\ 1 \in 1 .. Len(win)
      /\ AllInOrder(win, clock)
      /\ fbufs \in SUBSET Bufs /\ disk \in SUBSET Names
      /\ \A b \in dirty \cap reach : b \in fbufs
  BY DEF IInv, ListsOK, BufsOK, Ordered
<1> QED
  BY <1>0, <1>1, <1>3, <1>4, SettleKeeps

LEMMA ChangeFileKeeps ==
  ASSUME IInv, NEW created \in SUBSET Names, NEW b \in Names, ChangeFile(b, created)
  PROVE  Kept
<1>1. Settle(win, cur, <<b>>, fbufs \cup {b}, created, disk) /\ reach' = reach
  BY DEF ChangeFile
<1>2. b \in Bufs
  BY DEF Bufs
<1>3. PICK first : first = <<b>>
  OBVIOUS
<1>7. first \in Seq(Bufs)
  BY <1>2, <1>3
<1>4. PICK keep : keep = fbufs \cup {b}
  OBVIOUS
<1>5. Settle(win, cur, first, keep, created, disk)
  BY <1>1, <1>3, <1>4
<1>6. /\ win \in Lists /\ Len(win) \in 1 .. MaxWindows /\ cur \in 1 .. Len(win)
      /\ AllInOrder(win, clock)
      /\ keep \in SUBSET Bufs /\ disk \in SUBSET Names
      /\ \A d \in dirty \cap reach : d \in keep
  BY <1>2, <1>4 DEF IInv, ListsOK, BufsOK, Ordered
<1> QED
  BY <1>1, <1>5, <1>6, <1>7, SettleKeeps

\* A file that cannot be read is forgotten: it has no edits that could be saved.
LEMMA OpenKeeps ==
  ASSUME IInv, NEW created \in SUBSET Names, NEW b \in Names, OpenFileNotDir(b, created)
  PROVE  Kept
<1>1. b \in Bufs /\ reach' = reach
  BY DEF Bufs, OpenFileNotDir
<1>2. CASE Usable(b, created)
  <2>1. /\ fbufs' = fbufs \cup {b} /\ loaded' = loaded \cup {b}
        /\ disk' = IF b \in created \ loaded THEN disk \cup {b} ELSE disk
        /\ UNCHANGED <<win, cur, curBuf, dirty, clock>>
    BY <1>2 DEF OpenFileNotDir
  <2>2. ListsOK'
    BY <2>1 DEF IInv, ListsOK
  <2>3. BufsOK'
    BY <1>1, <2>1 DEF IInv, BufsOK
  <2>4. Shown'
    BY <2>1 DEF IInv, Shown
  <2>5. Careful
    BY <2>1 DEF IInv, BufsOK, Careful
  <2>6. Ordered'
    BY <2>1 DEF IInv, Ordered
  <2> QED
    BY <2>2, <2>3, <2>4, <2>5, <2>6 DEF Kept, IInv
<1>3. CASE ~Usable(b, created)
  <2>1. Settle(Unlinked(win, {b}), cur, <<>>, fbufs \ {b}, created, disk)
    BY <1>3 DEF OpenFileNotDir
  <2>2. PICK first : first = <<>>
    OBVIOUS
  <2>8. first \in Seq(Bufs)
    BY <2>2
  <2>3. PICK ws, keep : ws = Unlinked(win, {b}) /\ keep = fbufs \ {b}
    OBVIOUS
  <2>4. Settle(ws, cur, first, keep, created, disk)
    BY <2>1, <2>2, <2>3
  <2>5. ws \in Lists /\ Len(ws) = Len(win) /\ AllInOrder(ws, clock)
    BY <2>3, UnlinkedLists, UnlinkedInOrder DEF IInv, ListsOK, Ordered
  <2>6. /\ Len(ws) \in 1 .. MaxWindows /\ cur \in 1 .. Len(ws)
        /\ keep \in SUBSET Bufs /\ disk \in SUBSET Names
    BY <2>3, <2>5 DEF IInv, ListsOK, BufsOK
  <2>7. ASSUME NEW d \in dirty \cap reach PROVE d \in keep
    <3>1. Usable(d, created)
      BY DEF Usable, IInv, BufsOK
    <3> QED
      BY <1>3, <2>3, <3>1 DEF IInv, BufsOK
  <2> QED
    BY <1>1, <2>4, <2>5, <2>6, <2>7, <2>8, SettleKeeps
<1> QED
  BY <1>2, <1>3

LEMMA SplitKeeps ==
  ASSUME IInv, SplitCurWnd
  PROVE  Kept
<1>1. /\ Len(win) < MaxWindows
      /\ win' = InsertAt(win, cur + 1, [i \in DOMAIN Here |-> [Here[i] EXCEPT !.t = 0]])
      /\ UNCHANGED <<cur, curBuf, fbufs, loaded, dirty, disk, reach, clock>>
  BY DEF SplitCurWnd, files
<1>2. PICK list : list = [i \in DOMAIN Here |-> [Here[i] EXCEPT !.t = 0]]
  OBVIOUS
<1>3. win \in Lists /\ cur \in 1 .. Len(win) /\ Len(win) \in 1 .. MaxWindows
  BY DEF IInv, ListsOK
<1>4. list \in ViewLists
  <2>1. Here \in ViewLists
    BY <1>3 DEF Here, Lists
  <2>2. PICK n \in Nat : n = Len(Here)
    BY <2>1 DEF ViewLists
  <2>3. DOMAIN Here = 1 .. n /\ \A i \in 1 .. n : Here[i] \in View
    BY <2>1, <2>2 DEF ViewLists
  <2>4. 0 \in 0 .. MaxClock
    BY ViewsAssumption
  <2>5. \A i \in 1 .. n : [Here[i] EXCEPT !.t = 0] \in View
    BY <2>3, <2>4 DEF View
  <2>6. list \in [1 .. n -> View]
    BY <1>2, <2>3, <2>5
  <2> QED
    BY <2>6 DEF ViewLists
<1>5. PICK ws : ws = InsertAt(win, cur + 1, list)
  OBVIOUS
<1>6. /\ ws \in Lists /\ Len(ws) = Len(win) + 1
      /\ \A i \in 1 .. cur : ws[i] = win[i]
      /\ \A i \in 1 .. Len(ws) : ws[i] = list \/ \E k \in 1 .. Len(win) : ws[i] = win[k]
  BY <1>3, <1>4, <1>5, WindowInserted
<1>7. win' = ws
  BY <1>1, <1>2, <1>5
<1>8. ListsOK'
  BY <1>1, <1>3, <1>6, <1>7, ViewsAssumption DEF IInv, ListsOK
<1>9. win'[cur'] = win[cur]
  BY <1>1, <1>3, <1>6, <1>7
<1>10. BufsOK' /\ Careful
  BY <1>1 DEF IInv, BufsOK, Careful
<1>11. Shown'
  BY <1>1, <1>9 DEF IInv, Shown
<1>12. Ordered'
  <2>1. clock' = clock /\ clock \in Nat
    BY <1>1, ViewsAssumption DEF IInv, ListsOK
  <2>2. \A j \in 1 .. Len(list) : list[j].t = 0
    <3>1. win[cur] \in ViewLists
      BY <1>3 DEF Lists
    <3>2. DOMAIN list = DOMAIN Here /\ \A j \in DOMAIN Here : Here[j] \in View
      BY <1>2, <3>1 DEF Here, ViewLists
    <3>3. DOMAIN list = 1 .. Len(list)
      BY <1>4 DEF ViewLists
    <3> QED
      BY <1>2, <3>2, <3>3 DEF View
  <2>3. InOrder(list, clock)
    BY <2>1, <2>2 DEF InOrder
  <2>4. AllInOrder(ws, clock)
    BY <1>6, <2>3 DEF IInv, Ordered, AllInOrder
  <2> QED
    BY <1>7, <2>1, <2>4 DEF Ordered
<1> QED
  BY <1>8, <1>10, <1>11, <1>12 DEF Kept, IInv

\* The user is asked about the dirty buffers that go with a window.
LEMMA CloseKeeps ==
  ASSUME IInv, NEW created \in SUBSET Names, NEW saves \in SUBSET dirty, CloseWnd(saves, created)
  PROVE  Kept
<1>1. PICK last : last = {b \in ToSet(BufsOf(Here)) : ViewCount(b) = 1}
  OBVIOUS
<1>2. PICK ws, c, keep, onDisk :
        /\ ws = RemoveAt(win, cur) /\ c = Max({1, cur - 1})
        /\ keep = fbufs \ last /\ onDisk = disk \cup saves
  OBVIOUS
<1>3. PICK first : first = <<>>
  OBVIOUS
<1>11. first \in Seq(Bufs)
  BY <1>3
<1>4. /\ Len(win) > 1 /\ asked' = last \cap dirty /\ reach' = reach
      /\ Settle(ws, c, first, keep, created, onDisk)
  BY <1>1, <1>2, <1>3 DEF CloseWnd
<1>5. win \in Lists /\ Len(win) \in 1 .. MaxWindows /\ cur \in 1 .. Len(win)
  BY DEF IInv, ListsOK
<1>6. ws \in Lists /\ Len(ws) = Len(win) - 1 /\ AllInOrder(ws, clock)
  <2>1. /\ ws \in Lists /\ Len(ws) = Len(win) - 1
        /\ \A i \in 1 .. Len(ws) : \E k \in 1 .. Len(win) : ws[i] = win[k]
    BY <1>2, <1>5, WindowRemoved
  <2> QED
    BY <2>1 DEF IInv, Ordered, AllInOrder
<1>7. c \in 1 .. Len(ws)
  <2>1. PICK m : m = IF cur = 1 THEN 1 ELSE cur - 1
    OBVIOUS
  <2>2. m \in {1, cur - 1} /\ \A k \in {1, cur - 1} : m >= k
    BY <1>5, <2>1
  <2>3. c \in {1, cur - 1} /\ \A k \in {1, cur - 1} : c >= k
    BY <1>2, <2>2 DEF Max
  <2> QED
    BY <1>4, <1>5, <1>6, <2>3
<1>8. Len(ws) \in 1 .. MaxWindows
  BY <1>4, <1>5, <1>6, ViewsAssumption
<1>9. keep \in SUBSET Bufs /\ onDisk \in SUBSET Names
  BY <1>2 DEF IInv, BufsOK
<1>10. \A b \in dirty \cap reach : b \in keep \cup asked'
  BY <1>2, <1>4 DEF IInv, BufsOK
<1> QED
  BY <1>4, <1>6, <1>7, <1>8, <1>9, <1>10, <1>11, SettleKeeps

LEMMA NextWindowKeeps ==
  ASSUME IInv, NEW created \in SUBSET Names, NextWindow(created)
  PROVE  Kept
<1>1. PICK c, first : c = (cur % Len(win)) + 1 /\ first = <<>>
  OBVIOUS
<1>2. Settle(win, c, first, fbufs, created, disk) /\ reach' = reach
  BY <1>1 DEF NextWindow
<1>3. first \in Seq(Bufs)
  BY <1>1
<1>4. /\ win \in Lists /\ Len(win) \in 1 .. MaxWindows /\ AllInOrder(win, clock)
      /\ fbufs \in SUBSET Bufs /\ disk \in SUBSET Names
      /\ \A b \in dirty \cap reach : b \in fbufs
  BY DEF IInv, ListsOK, BufsOK, Ordered
<1>5. c \in 1 .. Len(win)
  <2>1. PICK n : n = Len(win)
    OBVIOUS
  <2>2. n \in Nat /\ n > 0 /\ cur \in Nat /\ c = (cur % n) + 1
    BY <1>1, <2>1, ViewsAssumption DEF IInv, ListsOK
  <2>3. cur % n \in 0 .. (n - 1)
    BY <2>2
  <2> QED
    BY <2>1, <2>2, <2>3
<1> QED
  BY <1>2, <1>3, <1>4, <1>5, SettleKeeps

LEMMA ForgetCurrentKeeps ==
  ASSUME IInv, NEW created \in SUBSET Names, ForgetCurrent(created)
  PROVE  Kept
<1>1. PICK ws : ws = [win EXCEPT ![cur] = Tail(@)]
  OBVIOUS
<1>2. PICK keep, first :
        keep = fbufs \cap (Showing(ws) \cup (fbufs \ {curBuf})) /\ first = <<>>
  OBVIOUS
<1>3. /\ Len(Here) > 1 /\ asked' = {curBuf} /\ reach' = reach
      /\ Settle(ws, cur, first, keep, created, disk)
  BY <1>1, <1>2 DEF ForgetCurrent
<1>4. first \in Seq(Bufs)
  BY <1>2
<1>5. win \in Lists /\ Len(win) \in 1 .. MaxWindows /\ cur \in 1 .. Len(win)
  BY DEF IInv, ListsOK
<1>6. ws \in Lists /\ Len(ws) = Len(win) /\ AllInOrder(ws, clock)
  <2>1. win[cur] \in ViewLists /\ Len(win[cur]) > 1 /\ InOrder(win[cur], clock)
    BY <1>3, <1>5 DEF Lists, Here, IInv, Ordered, AllInOrder
  <2>2. PICK list : list = Tail(win[cur])
    OBVIOUS
  <2>3. list \in ViewLists /\ InOrder(list, clock)
    BY <2>1, <2>2, TailInOrder
  <2>4. ws = [win EXCEPT ![cur] = list] /\ ws \in Lists /\ Len(ws) = Len(win)
    BY <1>1, <1>5, <2>2, <2>3 DEF Lists
  <2>5. ASSUME NEW i \in 1 .. Len(win) PROVE InOrder(ws[i], clock)
    BY <1>5, <2>3, <2>4 DEF IInv, Ordered, AllInOrder, Lists
  <2> QED
    BY <2>4, <2>5 DEF AllInOrder
<1>7. keep \in SUBSET Bufs /\ disk \in SUBSET Names
  BY <1>2 DEF IInv, BufsOK
<1>8. \A b \in dirty \cap reach : b \in keep \cup asked'
  BY <1>2, <1>3 DEF IInv, BufsOK
<1> QED
  BY <1>3, <1>4, <1>5, <1>6, <1>7, <1>8, SettleKeeps

LEMMA ForgetByNameKeeps ==
  ASSUME IInv, NEW created \in SUBSET Names, NEW b \in Bufs, ForgetByName(b, created)
  PROVE  Kept
<1>1. PICK ws, keep, first :
        ws = Unlinked(win, {b}) /\ keep = fbufs \ {b} /\ first = <<>>
  OBVIOUS
<1>2. /\ asked' = {b} \cap dirty /\ reach' = reach
      /\ Settle(ws, cur, first, keep, created, disk)
  BY <1>1 DEF ForgetByName
<1>3. first \in Seq(Bufs)
  BY <1>1
<1>4. win \in Lists /\ Len(win) \in 1 .. MaxWindows /\ cur \in 1 .. Len(win)
  BY DEF IInv, ListsOK
<1>5. ws \in Lists /\ Len(ws) = Len(win) /\ AllInOrder(ws, clock)
  BY <1>1, <1>4, UnlinkedLists, UnlinkedInOrder DEF IInv, Ordered
<1>6. keep \in SUBSET Bufs /\ disk \in SUBSET Names
  BY <1>1 DEF IInv, BufsOK
<1>7. \A d \in dirty \cap reach : d \in keep \cup asked'
  BY <1>1, <1>2 DEF IInv, BufsOK
<1> QED
  BY <1>2, <1>3, <1>4, <1>5, <1>6, <1>7, SettleKeeps

LEMMA OthersKeep ==
  ASSUME IInv, Edit \/ WriteToDisk \/ (\E b \in Names : Outside(b))
  PROVE  Kept
<1>1. UNCHANGED <<win, cur, curBuf, fbufs, loaded, clock>>
  BY DEF Edit, WriteToDisk, Outside
<1>2. /\ dirty' \in SUBSET loaded /\ dirty' \in SUBSET Names
      /\ disk' \in SUBSET Names /\ reach' \in SUBSET Names
  BY DEF Edit, WriteToDisk, Outside, files, IInv, BufsOK, Shown, Alive
<1>3. ListsOK'
  BY <1>1 DEF IInv, ListsOK
<1>4. BufsOK' /\ Careful
  BY <1>1, <1>2 DEF IInv, BufsOK, Careful
<1>5. Shown'
  BY <1>1 DEF IInv, Shown
<1>6. Ordered'
  BY <1>1 DEF IInv, Ordered
<1> QED
  BY <1>3, <1>4, <1>5, <1>6 DEF Kept, IInv

\* Every step keeps the lists valid and unsaved edits safe.
LEMMA StepKeeps == IInv /\ Next => Kept
<1> SUFFICES ASSUME IInv, Next PROVE Kept
  OBVIOUS
<1>1. ASSUME NEW created \in SUBSET (Names \ disk),
             \/ Startup(created) \/ NextWindow(created) \/ ForgetCurrent(created)
             \/ \E saves \in SUBSET dirty : CloseWnd(saves, created)
             \/ \E b \in Names : ChangeFile(b, created) \/ OpenFileNotDir(b, created)
             \/ \E b \in Bufs : ForgetByName(b, created)
      PROVE  Kept
  <2>1. created \in SUBSET Names
    OBVIOUS
  <2> QED
    BY <1>1, <2>1, StartupKeeps, NextWindowKeeps, ForgetCurrentKeeps, CloseKeeps,
       ChangeFileKeeps, OpenKeeps, ForgetByNameKeeps
<1>2. CASE SplitCurWnd
  BY <1>2, SplitKeeps
<1>3. CASE Edit \/ WriteToDisk \/ (\E b \in Names : Outside(b))
  BY <1>3, OthersKeep
<1> QED
  BY <1>1, <1>2, <1>3 DEF Next

LEMMA StutterKeeps == IInv /\ UNCHANGED vars => IInv'
BY DEF IInv, ListsOK, BufsOK, Shown, Ordered, vars

LEMMA Inductive == Spec => []IInv
<1>1. IInv /\ [Next]_vars => IInv'
  BY StepKeeps, StutterKeeps DEF Kept
<1> QED
  BY <1>1, InitInv, PTL DEF Spec
-----------------------------------------------------------------------------
(* The state file: the loop of Wins_WriteStateFile *)

Listed(v, ws) == \E i \in 1 .. Len(ws) : \E j \in 1 .. Len(ws[i]) : v = ws[i][j]
Saved(out)    == {out[k].buf : k \in 1 .. Len(out)}

\* Every file the windows show is saved.
Complete(ws, out) == \A v : Listed(v, ws) /\ v.buf \in Names => v.buf \in Saved(out)

\* The loop with out saved and rest to go: what is left was shown no later than
\* what is saved, which is the last visit of each file.
Merging(ws, rest, out, now) ==
  /\ rest \in Lists /\ out \in ViewLists /\ AllInOrder(rest, now)
  /\ \A v : Listed(v, rest) => Listed(v, ws)
  /\ \A v : Listed(v, ws) /\ v.buf \in Names => Listed(v, rest) \/ v.buf \in Saved(out)
  /\ \A v : Listed(v, rest) => \A k \in 1 .. Len(out) : v.t <= out[k].t
  /\ \A v : Listed(v, ws) => \A k \in 1 .. Len(out) : v.buf = out[k].buf => v.t <= out[k].t
  /\ \A k \in 1 .. Len(out) : Listed(out[k], ws) /\ out[k].buf \in Names
  /\ \A j, k \in 1 .. Len(out) : j < k => out[k].t <= out[j].t /\ out[j].buf # out[k].buf

LEMMA ListedView ==
  ASSUME NEW ws \in Lists, NEW v, Listed(v, ws)
  PROVE  v \in View
<1>1. PICK i \in 1 .. Len(ws) : \E j \in 1 .. Len(ws[i]) : v = ws[i][j]
  BY DEF Listed
<1>2. ws[i] \in ViewLists
  BY DEF Lists
<1> QED
  BY <1>1, <1>2 DEF ViewLists

LEMMA SavedIs ==
  ASSUME NEW out \in ViewLists
  PROVE  ToSet(BufsOf(out)) = Saved(out)
BY DEF ToSet, BufsOf, Saved, ViewLists

LEMMA ListSuffix ==
  ASSUME NEW views \in ViewLists, NEW n \in Nat, n = Len(views), NEW m \in 1 .. n
  PROVE  /\ SubSeq(views, m, n) \in ViewLists /\ Len(SubSeq(views, m, n)) = n - m + 1
         /\ \A j \in 1 .. n - m + 1 : SubSeq(views, m, n)[j] = views[m + j - 1]
BY DEF ViewLists

LEMMA EmptyList ==
  ASSUME NEW now, NEW list, list = <<>>
  PROVE  list \in ViewLists /\ InOrder(list, now) /\ Len(list) = 0
BY DEF ViewLists, InOrder

\* Candidates for one window: its list from the first view that is to be saved.
Wanted(views, saved) == {j \in DOMAIN views : views[j].buf \in Names \ saved}

CandidateOf(views, saved) ==
  IF Wanted(views, saved) = {} THEN <<>>
  ELSE SubSeq(views, Min(Wanted(views, saved)), Len(views))

\* A list without views that are not to be saved in front.
Skips(list, views, saved, now) ==
  /\ list \in ViewLists /\ InOrder(list, now)
  /\ \A j \in 1 .. Len(list) : \E k \in 1 .. Len(views) : list[j] = views[k]
  /\ \A k \in 1 .. Len(views) : views[k].buf \in Names \ saved =>
       \E j \in 1 .. Len(list) : list[j] = views[k]
  /\ list # <<>> => list[1].buf \in Names \ saved

\* Skipping keeps the order, and loses no view that is to be saved.
LEMMA CandidateList ==
  ASSUME NEW views \in ViewLists, NEW saved, NEW now, InOrder(views, now),
         NEW list, list = CandidateOf(views, saved)
  PROVE  Skips(list, views, saved, now)
<1>1. PICK n \in Nat : n = Len(views) /\ DOMAIN views = 1 .. n
  BY DEF ViewLists
<1>0. PICK good : good = Wanted(views, saved)
  OBVIOUS
<1>4. \A j : j \in good <=> j \in 1 .. n /\ views[j].buf \in Names \ saved
  BY <1>0, <1>1 DEF Wanted
<1>2. CASE good = {}
  <2>1. list = <<>>
    BY <1>0, <1>2 DEF CandidateOf
  <2>2. list \in ViewLists /\ InOrder(list, now) /\ Len(list) = 0
    BY <2>1, EmptyList
  <2>3. \A k \in 1 .. n : ~(views[k].buf \in Names \ saved)
    BY <1>2, <1>4
  <2> QED
    BY <1>1, <2>1, <2>2, <2>3 DEF Skips
<1>3. CASE good # {}
  <2>1. PICK m : m = Min(good)
    OBVIOUS
  <2>2. good \in SUBSET Nat
    BY <1>4
  <2>3. m \in good /\ \A k \in good : m <= k
    BY <1>3, <2>1, <2>2, LeastNumber DEF Min
  <2>4. m \in 1 .. n /\ views[m].buf \in Names \ saved
    BY <1>4, <2>3
  <2>5. list = SubSeq(views, m, n)
    BY <1>0, <1>1, <1>3, <2>1 DEF CandidateOf
  <2>6. PICK l \in Nat : l = n - m + 1
    BY <2>4
  <2>7. /\ list \in ViewLists /\ Len(list) = l
        /\ \A j \in 1 .. l : list[j] = views[m + j - 1]
    <3>1. n \in Nat /\ n = Len(views) /\ m \in 1 .. n
      BY <1>1, <2>4
    <3>2. /\ SubSeq(views, m, n) \in ViewLists /\ Len(SubSeq(views, m, n)) = n - m + 1
          /\ \A j \in 1 .. n - m + 1 : SubSeq(views, m, n)[j] = views[m + j - 1]
      BY <3>1, ListSuffix
    <3> QED
      BY <2>5, <2>6, <3>2
  <2>8. \A j \in 1 .. l : m + j - 1 \in 1 .. n
    BY <2>4, <2>6
  <2>9. \A j, k \in 1 .. l : j < k => m + j - 1 < m + k - 1
    BY <2>4
  <2>10. InOrder(list, now)
    <3>1. \A j \in 1 .. l : list[j].t <= now
      BY <1>1, <2>7, <2>8 DEF InOrder
    <3>2. \A j, k \in 1 .. l : j < k => list[k].t <= list[j].t
      BY <1>1, <2>7, <2>8, <2>9 DEF InOrder
    <3> QED
      BY <2>7, <3>1, <3>2 DEF InOrder
  <2>11. ASSUME NEW k \in 1 .. n, views[k].buf \in Names \ saved
         PROVE  \E j \in 1 .. l : list[j] = views[k]
    <3>1. m <= k
      BY <1>4, <2>3, <2>11
    <3>2. k - m + 1 \in 1 .. l /\ m + (k - m + 1) - 1 = k
      BY <2>4, <2>6, <3>1
    <3> QED
      BY <2>7, <3>2
  <2>12. list[1].buf \in Names \ saved
    <3>1. 1 \in 1 .. l /\ m + 1 - 1 = m
      BY <2>4, <2>6
    <3> QED
      BY <2>4, <2>7, <3>1
  <2> QED
    BY <1>1, <2>7, <2>8, <2>10, <2>11, <2>12 DEF Skips
<1> QED
  BY <1>2, <1>3

LEMMA CandidateLists ==
  ASSUME NEW rest \in Lists, NEW saved, NEW now, AllInOrder(rest, now),
         NEW c, c = Candidates(rest, saved)
  PROVE  /\ c \in Lists /\ Len(c) = Len(rest) /\ AllInOrder(c, now)
         /\ \A v : Listed(v, c) => Listed(v, rest)
         /\ \A v : Listed(v, rest) /\ v.buf \in Names \ saved => Listed(v, c)
         /\ \A i \in 1 .. Len(c) : c[i] # <<>> => c[i][1].buf \in Names \ saved
<1>1. PICK n \in Nat : n = Len(rest) /\ DOMAIN rest = 1 .. n
  BY DEF Lists
<1>2. c = [i \in 1 .. n |-> CandidateOf(rest[i], saved)] /\ Len(c) = n
  BY <1>1 DEF Candidates, CandidateOf, Wanted
<1>3. ASSUME NEW i \in 1 .. n
      PROVE  /\ c[i] \in ViewLists /\ InOrder(c[i], now)
             /\ \A j \in 1 .. Len(c[i]) : \E k \in 1 .. Len(rest[i]) : c[i][j] = rest[i][k]
             /\ \A k \in 1 .. Len(rest[i]) : rest[i][k].buf \in Names \ saved =>
                  \E j \in 1 .. Len(c[i]) : c[i][j] = rest[i][k]
             /\ c[i] # <<>> => c[i][1].buf \in Names \ saved
  <2>1. PICK views, list : views = rest[i] /\ list = c[i]
    OBVIOUS
  <2>2. views \in ViewLists /\ InOrder(views, now)
    BY <1>1, <2>1 DEF Lists, AllInOrder
  <2>3. list = CandidateOf(views, saved)
    BY <1>2, <2>1
  <2>4. Skips(list, views, saved, now)
    BY <2>2, <2>3, CandidateList
  <2> QED
    BY <2>1, <2>4 DEF Skips
<1>4. c \in Lists
  BY <1>2, <1>3 DEF Lists
<1>5. AllInOrder(c, now)
  BY <1>2, <1>3 DEF AllInOrder
<1>6. ASSUME NEW v, Listed(v, c) PROVE Listed(v, rest)
  <2>1. PICK i \in 1 .. n : \E j \in 1 .. Len(c[i]) : v = c[i][j]
    BY <1>2, <1>6 DEF Listed
  <2>2. \E k \in 1 .. Len(rest[i]) : v = rest[i][k]
    BY <1>3, <2>1
  <2> QED
    BY <1>1, <2>2 DEF Listed
<1>7. ASSUME NEW v, Listed(v, rest), v.buf \in Names \ saved PROVE Listed(v, c)
  <2>1. PICK i \in 1 .. n : \E k \in 1 .. Len(rest[i]) : v = rest[i][k]
    BY <1>1, <1>7 DEF Listed
  <2>2. \E j \in 1 .. Len(c[i]) : v = c[i][j]
    BY <1>3, <1>7, <2>1
  <2> QED
    BY <1>2, <2>2 DEF Listed
<1> QED
  BY <1>1, <1>2, <1>3, <1>4, <1>5, <1>6, <1>7

\* The candidate focused last was shown no earlier than anything left.
LEMMA LatestHead ==
  ASSUME NEW c \in Lists, NEW now, AllInOrder(c, now),
         NEW live, live = {i \in DOMAIN c : c[i] # <<>>}, live # {},
         NEW later, later = {i \in live : \A j \in live : Head(c[j]).t <= Head(c[i]).t},
         NEW best, best = Min(later)
  PROVE  /\ best \in 1 .. Len(c) /\ c[best] # <<>>
         /\ \A v : Listed(v, c) => v.t <= c[best][1].t
<1>1. PICK n \in Nat : n = Len(c) /\ DOMAIN c = 1 .. n
  BY DEF Lists
<1>2. MaxClock \in Nat
  BY ViewsAssumption
<1>3. live \in SUBSET (1 .. n) /\ \A i \in 1 .. n : i \in live <=> c[i] # <<>>
  BY <1>1
<1>4. \A i \in live : Head(c[i]) = c[i][1] /\ c[i][1] \in View
  <2> TAKE i \in live
  <2>1. c[i] \in ViewLists /\ c[i] # <<>>
    BY <1>1, <1>3 DEF Lists
  <2> QED
    BY <2>1 DEF ViewLists
<1>5. \A i \in live : Head(c[i]).t \in 0 .. MaxClock
  BY <1>4 DEF View
<1>6. later # {}
  <2> DEFINE T == {Head(c[i]).t : i \in live}
  <2>1. T \in SUBSET (0 .. MaxClock) /\ T # {}
    BY <1>5
  <2>2. PICK m \in T : \A x \in T : m >= x
    <3> HIDE DEF T
    <3> QED
      BY <1>2, <2>1, GreatestNumber
  <2>3. PICK i \in live : m = Head(c[i]).t
    OBVIOUS
  <2>4. m \in Nat /\ \A x \in T : x \in Nat /\ x <= m
    BY <1>2, <2>1, <2>2
  <2>5. \A j \in live : Head(c[j]).t <= m
    BY <2>4
  <2> QED
    BY <2>3, <2>5
<1>7. later \in SUBSET Nat
  BY <1>3
<1>8. best \in later
  BY <1>6, <1>7, LeastNumber DEF Min
<1>9. best \in live /\ \A j \in live : Head(c[j]).t <= Head(c[best]).t
  BY <1>8
<1>10. ASSUME NEW v, Listed(v, c) PROVE v.t <= c[best][1].t
  <2>1. PICK i \in 1 .. n : \E j \in 1 .. Len(c[i]) : v = c[i][j]
    BY <1>1, <1>10 DEF Listed
  <2>2. PICK j \in 1 .. Len(c[i]) : v = c[i][j]
    BY <2>1
  <2>3. c[i] \in ViewLists /\ InOrder(c[i], now)
    BY <1>1 DEF Lists, AllInOrder
  <2>4. PICK m \in Nat : m = Len(c[i])
    BY <2>3 DEF ViewLists
  <2>5. j \in 1 .. m /\ 1 \in 1 .. m /\ c[i] # <<>>
    BY <2>2, <2>3, <2>4 DEF ViewLists
  <2>6. i \in live
    BY <1>3, <2>5
  <2>7. c[i][1].t <= c[best][1].t
    BY <1>4, <1>9, <2>6
  <2>8. v.t <= c[i][1].t
    <3>1. CASE j = 1
      BY <1>2, <1>4, <2>2, <2>6, <3>1 DEF View
    <3>2. CASE 1 < j
      BY <2>2, <2>3, <2>4, <2>5, <3>2 DEF InOrder
    <3> QED
      BY <2>5, <3>1, <3>2
  <2>9. v \in View /\ c[i][1] \in View /\ c[best][1] \in View
    BY <1>4, <1>9, <1>10, <2>6, ListedView
  <2>10. PICK x, y, z : x = v.t /\ y = c[i][1].t /\ z = c[best][1].t
    OBVIOUS
  <2>11. x \in Nat /\ y \in Nat /\ z \in Nat
    BY <1>2, <2>9, <2>10 DEF View
  <2>12. y <= z
    BY <2>7, <2>10
  <2>13. x <= y
    BY <2>8, <2>10
  <2>14. x <= z
    BY <2>11, <2>12, <2>13
  <2> QED
    BY <2>10, <2>14
<1> QED
  BY <1>1, <1>3, <1>9, <1>10

\* Views of saved files, and of what is no file, are skipped.
LEMMA SkippingKeeps ==
  ASSUME NEW ws \in Lists, NEW rest, NEW out, NEW now, Merging(ws, rest, out, now),
         NEW c, c = Candidates(rest, Saved(out))
  PROVE  Merging(ws, c, out, now)
<1>1. rest \in Lists /\ out \in ViewLists /\ AllInOrder(rest, now)
  BY DEF Merging
<1>2. PICK saved : saved = Saved(out)
  OBVIOUS
<1>3. /\ c \in Lists /\ AllInOrder(c, now)
      /\ \A v : Listed(v, c) => Listed(v, rest)
      /\ \A v : Listed(v, rest) /\ v.buf \in Names \ saved => Listed(v, c)
  BY <1>1, <1>2, CandidateLists
<1> QED
  BY <1>1, <1>2, <1>3 DEF Merging

\* A candidate saved: it leaves its list and ends the file.
OneLess(c, best)      == [c EXCEPT ![best] = Tail(@)]
OneMore(out, c, best) == Append(out, Head(c[best]))

\* The view saved was the last visit of its file.
LEMMA SavingKeeps ==
  ASSUME NEW ws \in Lists, NEW c, NEW out, NEW now, Merging(ws, c, out, now),
         NEW best \in 1 .. Len(c), c[best] # <<>>, c[best][1].buf \in Names \ Saved(out),
         \A v : Listed(v, c) => v.t <= c[best][1].t,
         NEW r, r = OneLess(c, best), NEW o, o = OneMore(out, c, best)
  PROVE  /\ Merging(ws, r, o, now) /\ Len(o) = Len(out) + 1
         /\ Saved(out) \subseteq Saved(o)
<1>1. c \in Lists /\ out \in ViewLists /\ AllInOrder(c, now)
  BY DEF Merging
<1>2. PICK n \in Nat : n = Len(c) /\ DOMAIN c = 1 .. n
  BY <1>1 DEF Lists
<1>3. c[best] \in ViewLists /\ InOrder(c[best], now)
  BY <1>1 DEF Lists, AllInOrder
<1>4. PICK list, tail : list = c[best] /\ tail = Tail(list)
  OBVIOUS
<1>5. PICK x : x = list[1]
  OBVIOUS
<1>6. PICK l \in Nat : l = Len(list) /\ l # 0
  BY <1>3, <1>4 DEF ViewLists
<1>7. /\ tail \in ViewLists /\ InOrder(tail, now) /\ Len(tail) = l - 1
      /\ \A j \in 1 .. l - 1 : tail[j] = list[j + 1]
      /\ Head(list) = x /\ x \in View
  <2>1. tail \in ViewLists /\ InOrder(tail, now)
    BY <1>3, <1>4, TailInOrder
  <2> QED
    BY <1>3, <1>4, <1>5, <1>6, <2>1 DEF ViewLists
<1>8. /\ r \in Lists /\ Len(r) = n /\ r[best] = tail
      /\ \A i \in 1 .. n : i # best => r[i] = c[i]
  BY <1>1, <1>2, <1>4, <1>7 DEF Lists, OneLess
<1>9. AllInOrder(r, now)
  <2>1. ASSUME NEW i \in 1 .. n PROVE InOrder(r[i], now)
    BY <1>1, <1>2, <1>7, <1>8 DEF AllInOrder
  <2> QED
    BY <1>8, <2>1 DEF AllInOrder
<1>10. ASSUME NEW v, Listed(v, r) PROVE Listed(v, c)
  <2>1. PICK i \in 1 .. n : \E j \in 1 .. Len(r[i]) : v = r[i][j]
    BY <1>8, <1>10 DEF Listed
  <2>2. \E k \in 1 .. Len(c[i]) : v = c[i][k]
    <3>1. CASE i # best
      BY <1>8, <2>1, <3>1
    <3>2. CASE i = best
      <4>1. PICK j \in 1 .. l - 1 : v = tail[j]
        BY <1>7, <1>8, <2>1, <3>2
      <4>2. j + 1 \in 1 .. l
        BY <1>6
      <4> QED
        BY <1>4, <1>6, <1>7, <3>2, <4>1, <4>2
    <3> QED
      BY <3>1, <3>2
  <2> QED
    BY <1>2, <2>2 DEF Listed
<1>11. ASSUME NEW v, Listed(v, c) PROVE Listed(v, r) \/ v = x
  <2>1. PICK i \in 1 .. n : \E j \in 1 .. Len(c[i]) : v = c[i][j]
    BY <1>2, <1>11 DEF Listed
  <2>2. CASE i # best
    BY <1>8, <2>1, <2>2 DEF Listed
  <2>3. CASE i = best
    <3>1. PICK j \in 1 .. l : v = list[j]
      BY <1>4, <1>6, <2>1, <2>3
    <3>2. CASE j = 1
      BY <1>5, <3>1, <3>2
    <3>3. CASE j # 1
      <4>1. j - 1 \in 1 .. l - 1 /\ (j - 1) + 1 = j
        BY <1>6, <3>3
      <4>2. v = r[i][j - 1] /\ j - 1 \in 1 .. Len(r[i])
        BY <1>7, <1>8, <2>3, <3>1, <4>1
      <4> QED
        BY <1>8, <4>2 DEF Listed
    <3> QED
      BY <3>2, <3>3
  <2> QED
    BY <2>2, <2>3
<1>12. Listed(x, c)
  <2>1. 1 \in 1 .. l
    BY <1>6
  <2> QED
    BY <1>4, <1>5, <1>6, <2>1 DEF Listed
<1>13. PICK m \in Nat : m = Len(out)
  BY <1>1 DEF ViewLists
<1>14. /\ o \in ViewLists /\ Len(o) = m + 1 /\ o[m + 1] = x
       /\ \A k \in 1 .. m : o[k] = out[k]
  <2>1. o = Append(out, x)
    BY <1>4, <1>7 DEF OneMore
  <2> QED
    BY <1>1, <1>7, <1>13, <2>1 DEF ViewLists
<1>15. \A k \in 1 .. m + 1 : k \in 1 .. m \/ k = m + 1
  OBVIOUS
<1>16. /\ \A k \in 1 .. m : k \in 1 .. m + 1
       /\ m + 1 \in 1 .. m + 1
  OBVIOUS
<1>17. /\ \A b \in Saved(out) : b \in Saved(o)
       /\ x.buf \in Saved(o)
  BY <1>13, <1>14, <1>16 DEF Saved
<1>18. x.buf \in Names /\ \A k \in 1 .. m : out[k].buf # x.buf
  BY <1>4, <1>5, <1>13 DEF Saved
<1>19. \A v : Listed(v, c) => v.t <= x.t
  BY <1>4, <1>5
<1>20. \A v : Listed(v, r) => Listed(v, ws)
  BY <1>10 DEF Merging
<1>21. \A v : Listed(v, ws) /\ v.buf \in Names => Listed(v, r) \/ v.buf \in Saved(o)
  BY <1>11, <1>17 DEF Merging
<1>22. \A v : Listed(v, r) => \A k \in 1 .. m + 1 : v.t <= o[k].t
  <2>1. \A v : Listed(v, c) => \A k \in 1 .. m : v.t <= out[k].t
    BY <1>13 DEF Merging
  <2> QED
    BY <1>10, <1>14, <1>15, <1>19, <2>1
<1>23. ASSUME NEW v, Listed(v, ws), NEW k \in 1 .. m + 1, v.buf = o[k].buf
       PROVE  v.t <= o[k].t
  <2>1. CASE k \in 1 .. m
    BY <1>13, <1>14, <1>23, <2>1 DEF Merging
  <2>2. CASE k = m + 1
    <3>1. v.buf = x.buf
      BY <1>14, <1>23, <2>2
    <3>2. v.buf \in Names /\ v.buf \notin Saved(out)
      BY <1>13, <1>18, <3>1 DEF Saved
    <3>3. Listed(v, c)
      BY <1>23, <3>2 DEF Merging
    <3> QED
      BY <1>14, <1>19, <2>2, <3>3
  <2> QED
    BY <1>15, <2>1, <2>2
<1>24. \A k \in 1 .. m + 1 : Listed(o[k], ws) /\ o[k].buf \in Names
  <2>1. \A k \in 1 .. m : Listed(out[k], ws) /\ out[k].buf \in Names
    BY <1>13 DEF Merging
  <2>2. Listed(x, ws)
    BY <1>12 DEF Merging
  <2> QED
    BY <1>14, <1>15, <1>18, <2>1, <2>2
<1>25. ASSUME NEW j \in 1 .. m + 1, NEW k \in 1 .. m + 1, j < k
       PROVE  o[k].t <= o[j].t /\ o[j].buf # o[k].buf
  <2>1. j \in 1 .. m
    BY <1>25
  <2>2. CASE k \in 1 .. m
    BY <1>13, <1>14, <1>25, <2>1, <2>2 DEF Merging
  <2>3. CASE k = m + 1
    <3>1. x.t <= out[j].t
      BY <1>12, <1>13, <2>1 DEF Merging
    <3> QED
      BY <1>14, <1>18, <2>1, <2>3, <3>1
  <2> QED
    BY <1>15, <2>2, <2>3
<1>26. Merging(ws, r, o, now)
  <2>1. r \in Lists /\ o \in ViewLists /\ AllInOrder(r, now) /\ Len(o) = m + 1
    BY <1>8, <1>9, <1>14
  <2>2. \A v : Listed(v, r) => \A k \in 1 .. Len(o) : v.t <= o[k].t
    BY <1>22, <2>1
  <2>3. \A v : Listed(v, ws) => \A k \in 1 .. Len(o) : v.buf = o[k].buf => v.t <= o[k].t
    BY <1>23, <2>1
  <2>4. \A k \in 1 .. Len(o) : Listed(o[k], ws) /\ o[k].buf \in Names
    BY <1>24, <2>1
  <2>5. \A j, k \in 1 .. Len(o) : j < k => o[k].t <= o[j].t /\ o[j].buf # o[k].buf
    BY <1>25, <2>1
  <2> QED
    BY <1>20, <1>21, <2>1, <2>2, <2>3, <2>4, <2>5 DEF Merging
<1> QED
  BY <1>13, <1>14, <1>17, <1>26

\* What a turn leads to: it saves a view, unless all files are saved.
Turned(ws, rest, out, now) ==
  \E r, o : /\ SaveOne([rest |-> rest, out |-> out]) = [rest |-> r, out |-> o]
            /\ Merging(ws, r, o, now)
            /\ Complete(ws, o) \/ Len(o) = Len(out) + 1
            /\ Complete(ws, out) => Complete(ws, o)

LEMMA TurnKeeps ==
  ASSUME NEW ws \in Lists, NEW rest, NEW out, NEW now, Merging(ws, rest, out, now)
  PROVE  Turned(ws, rest, out, now)
<1>1. rest \in Lists /\ out \in ViewLists /\ AllInOrder(rest, now)
  BY DEF Merging
<1>2. PICK st : st = [rest |-> rest, out |-> out]
  OBVIOUS
<1>3. st.rest = rest /\ st.out = out
  BY <1>2
<1>4. PICK c : c = Candidates(rest, Saved(out))
  OBVIOUS
<1>5. Candidates(st.rest, ToSet(BufsOf(st.out))) = c
  BY <1>1, <1>3, <1>4, SavedIs
<1>6. Merging(ws, c, out, now) /\ c \in Lists /\ AllInOrder(c, now)
  BY <1>4, SkippingKeeps DEF Merging
<1>7. \A i \in 1 .. Len(c) : c[i] # <<>> => c[i][1].buf \in Names \ Saved(out)
  BY <1>1, <1>4, CandidateLists
<1>8. PICK live : live = {i \in DOMAIN c : c[i] # <<>>}
  OBVIOUS
<1>9. PICK later : later = {i \in live : \A j \in live : Head(c[j]).t <= Head(c[i]).t}
  OBVIOUS
<1>10. PICK best : best = Min(later)
  OBVIOUS
<1>11. SaveOne(st) =
         IF live = {} THEN [st EXCEPT !.rest = c]
         ELSE [rest |-> [c EXCEPT ![best] = Tail(@)], out |-> Append(out, Head(c[best]))]
  BY <1>3, <1>5, <1>8, <1>9, <1>10 DEF SaveOne
<1>12. CASE live = {}
  <2>1. SaveOne(st) = [rest |-> c, out |-> out]
    BY <1>2, <1>11, <1>12
  <2>2. ASSUME NEW v PROVE ~Listed(v, c)
    <3>1. \A i \in 1 .. Len(c) : Len(c[i]) = 0
      BY <1>6, <1>8, <1>12 DEF Lists
    <3> QED
      BY <3>1 DEF Listed
  <2>3. Complete(ws, out)
    BY <1>6, <2>2 DEF Merging, Complete
  <2> QED
    BY <1>2, <1>6, <2>1, <2>3 DEF Turned
<1>13. CASE live # {}
  <2>1. /\ best \in 1 .. Len(c) /\ c[best] # <<>>
        /\ \A v : Listed(v, c) => v.t <= c[best][1].t
    BY <1>6, <1>8, <1>9, <1>10, <1>13, LatestHead
  <2>2. PICK r, o : r = OneLess(c, best) /\ o = OneMore(out, c, best)
    OBVIOUS
  <2>3. SaveOne(st) = [rest |-> r, out |-> o]
    BY <1>11, <1>13, <2>2 DEF OneLess, OneMore
  <2>6. c[best][1].buf \in Names \ Saved(out)
    BY <1>7, <2>1
  <2>4. /\ Merging(ws, r, o, now) /\ Len(o) = Len(out) + 1
        /\ Saved(out) \subseteq Saved(o)
    BY <1>6, <2>1, <2>2, <2>6, SavingKeeps
  <2>5. Complete(ws, out) => Complete(ws, o)
    BY <2>4 DEF Complete
  <2> QED
    BY <1>2, <2>3, <2>4, <2>5 DEF Turned
<1> QED
  BY <1>12, <1>13

\* The turns of the loop, from the first state.
Turns(turn, n, start) ==
  turn = [k \in 0 .. n |-> IF k = 0 THEN start ELSE SaveOne(turn[k - 1])]

\* The recursion of the turns has a solution.
LEMMA TurnsExist ==
  ASSUME NEW n \in Nat, NEW start
  PROVE  \E turn : Turns(turn, n, start)
<1> DEFINE Runs(m, g) == g = [k \in 0 .. m |-> IF k = 0 THEN start ELSE SaveOne(g[k - 1])]
           S == {m \in Nat : \E g : Runs(m, g)}
<1>1. 0 \in S
  <2> DEFINE g == [k \in 0 .. 0 |-> start]
  <2>1. Runs(0, g)
    OBVIOUS
  <2> QED
    BY <2>1
<1>2. ASSUME NEW m \in S PROVE m + 1 \in S
  <2>1. PICK g : Runs(m, g)
    OBVIOUS
  <2>2. m \in Nat /\ m + 1 \in Nat /\ (m + 1) - 1 = m
    OBVIOUS
  <2>3. \A k \in 0 .. m : g[k] = IF k = 0 THEN start ELSE SaveOne(g[k - 1])
    BY <2>1
  <2> DEFINE e == [k \in 0 .. m + 1 |-> IF k = m + 1 THEN SaveOne(g[m]) ELSE g[k]]
  <2>4. ASSUME NEW k \in 0 .. m + 1
        PROVE  e[k] = IF k = 0 THEN start ELSE SaveOne(e[k - 1])
    <3>1. CASE k = m + 1
      <4>1. e[k] = SaveOne(g[m]) /\ k # 0 /\ k - 1 = m /\ e[k - 1] = g[m]
        BY <2>2, <3>1
      <4> QED
        BY <4>1
    <3>2. CASE k = 0
      <4>1. e[k] = g[0] /\ 0 \in 0 .. m
        BY <2>2, <3>2
      <4> QED
        BY <2>3, <3>2, <4>1
    <3>3. CASE k \in 1 .. m
      <4>1. k \in 0 .. m /\ k # 0 /\ e[k] = g[k] /\ e[k - 1] = g[k - 1]
        BY <2>2, <3>3
      <4> QED
        BY <2>3, <4>1
    <3> QED
      BY <2>2, <3>1, <3>2, <3>3
  <2>5. e = [k \in 0 .. m + 1 |-> e[k]]
    OBVIOUS
  <2> HIDE DEF e
  <2>6. Runs(m + 1, e)
    BY <2>4, <2>5
  <2> QED
    BY <2>2, <2>6
<1>3. S \in SUBSET Nat
  OBVIOUS
<1>4. S = Nat
  <2> HIDE DEF S
  <2> QED
    BY <1>1, <1>2, <1>3, AllNumbers
<1>5. PICK g : Runs(n, g)
  BY <1>4
<1>6. Turns(g, n, start)
  BY <1>5 DEF Turns
<1> QED
  BY <1>6

\* As many files saved as there are names are all of them.
LEMMA AllSaved ==
  ASSUME NEW out \in ViewLists, Len(out) = Cardinality(Names),
         \A k \in 1 .. Len(out) : out[k].buf \in Names,
         \A j, k \in 1 .. Len(out) : j < k => out[j].buf # out[k].buf
  PROVE  Saved(out) = Names
<1>1. PICK n \in Nat : n = Len(out)
  BY DEF ViewLists
<1>2. Saved(out) \subseteq Names
  BY DEF Saved
<1>3. ASSUME NEW b \in Names, b \notin Saved(out) PROVE FALSE
  <2> DEFINE f == [k \in 1 .. n |-> out[k].buf]
  <2>1. IsFiniteSet(Names \ {b}) /\ Cardinality(Names \ {b}) = n - 1
    BY <1>1, ViewsAssumption, FS_RemoveElement
  <2>2. IsFiniteSet(1 .. n) /\ Cardinality(1 .. n) = n
    BY <1>1, FS_Interval
  <2>3. f \in [1 .. n -> Names \ {b}]
    BY <1>1, <1>3 DEF Saved
  <2> HIDE DEF f
  <2>4. \E j, k \in 1 .. n : j # k /\ f[j] = f[k]
    BY <2>1, <2>2, <2>3, FS_PigeonHole
  <2>5. PICK j \in 1 .. n, k \in 1 .. n : j # k /\ out[j].buf = out[k].buf
    BY <2>4 DEF f
  <2>6. j < k \/ k < j
    BY <2>5
  <2> QED
    BY <1>1, <2>5, <2>6
<1> QED
  BY <1>2, <1>3

\* What the loop has saved when it has had a turn for every name.
LEMMA FileSaved ==
  ASSUME NEW ws \in Lists, NEW now, AllInOrder(ws, now),
         NEW start, start = [rest |-> ws, out |-> <<>>],
         NEW n, n = Cardinality(Names),
         NEW turn, Turns(turn, n, start)
  PROVE  \E rest : Merging(ws, rest, turn[n].out, now) /\ Complete(ws, turn[n].out)
<1> DEFINE Fine(k, rest, out) == /\ turn[k] = [rest |-> rest, out |-> out]
                                 /\ Merging(ws, rest, out, now)
                                 /\ Complete(ws, out) \/ Len(out) = k
           S == {k \in Nat : k <= n => \E rest, out : Fine(k, rest, out)}
<1>1. n \in Nat
  BY ViewsAssumption, FS_CardinalityType
<1>2. \A k \in 0 .. n : turn[k] = IF k = 0 THEN start ELSE SaveOne(turn[k - 1])
  BY DEF Turns
<1>3. 0 \in S
  <2>1. PICK out : out = <<>>
    OBVIOUS
  <2>2. out \in ViewLists /\ Len(out) = 0
    BY <2>1 DEF ViewLists
  <2>3. Merging(ws, ws, out, now)
    BY <2>2 DEF Merging
  <2>4. turn[0] = [rest |-> ws, out |-> out]
    BY <1>1, <1>2, <2>1
  <2>5. Fine(0, ws, out)
    BY <2>2, <2>3, <2>4
  <2> QED
    BY <2>5
<1>4. ASSUME NEW k \in S PROVE k + 1 \in S
  <2>9. k + 1 \in Nat
    OBVIOUS
  <2> SUFFICES ASSUME k + 1 <= n PROVE \E rest, out : Fine(k + 1, rest, out)
    <3> HIDE DEF Fine
    <3> QED
      BY <2>9
  <2>1. k \in Nat /\ k <= n /\ k + 1 \in 0 .. n /\ k + 1 # 0 /\ (k + 1) - 1 = k
    BY <1>1
  <2>2. PICK rest, out : Fine(k, rest, out)
    BY <2>1
  <2>3. turn[k] = [rest |-> rest, out |-> out] /\ Merging(ws, rest, out, now)
    BY <2>2
  <2>4. turn[k + 1] = SaveOne(turn[k])
    BY <1>2, <2>1
  <2>5. PICK r, o : /\ SaveOne([rest |-> rest, out |-> out]) = [rest |-> r, out |-> o]
                    /\ Merging(ws, r, o, now)
                    /\ Complete(ws, o) \/ Len(o) = Len(out) + 1
                    /\ Complete(ws, out) => Complete(ws, o)
    <3>1. Turned(ws, rest, out, now)
      BY <2>3, TurnKeeps
    <3> QED
      BY <3>1 DEF Turned
  <2>6. Complete(ws, o) \/ Len(o) = k + 1
    BY <2>2, <2>5
  <2>7. turn[k + 1] = [rest |-> r, out |-> o]
    BY <2>3, <2>4, <2>5
  <2>8. Fine(k + 1, r, o)
    BY <2>5, <2>6, <2>7
  <2> QED
    BY <2>8
<1>5. S \in SUBSET Nat
  OBVIOUS
<1>6. S = Nat
  <2> HIDE DEF S
  <2> QED
    BY <1>3, <1>4, <1>5, AllNumbers
<1>7. PICK rest, out : Fine(n, rest, out)
  <2>1. n \in S
    <3> HIDE DEF S
    <3> QED
      BY <1>1, <1>6
  <2>2. n <= n
    BY <1>1
  <2> HIDE DEF Fine
  <2> QED
    BY <2>1, <2>2
<1>8. turn[n].out = out /\ Merging(ws, rest, out, now) /\ (Complete(ws, out) \/ Len(out) = n)
  BY <1>7
<1>9. Complete(ws, out)
  <2> SUFFICES ASSUME Len(out) = n PROVE Complete(ws, out)
    BY <1>8
  <2>1. /\ out \in ViewLists
        /\ \A k \in 1 .. Len(out) : out[k].buf \in Names
        /\ \A j, k \in 1 .. Len(out) : j < k => out[j].buf # out[k].buf
    BY <1>8 DEF Merging
  <2>2. Saved(out) = Names
    BY <2>1, AllSaved
  <2> QED
    BY <2>2 DEF Complete
<1> QED
  BY <1>8, <1>9

\* What a complete state file says.
LEMMA CompleteSays ==
  ASSUME NEW ws \in Lists, NEW rest, NEW out, NEW now,
         Merging(ws, rest, out, now), Complete(ws, out)
  PROVE  /\ IsInjective(BufsOf(out))
         /\ ToSet(BufsOf(out)) = Showing(ws) \cap Names
         /\ \A k \in DOMAIN out : \A i \in DOMAIN ws : \A j \in DOMAIN ws[i] :
              ws[i][j].buf = out[k].buf => ws[i][j].t <= out[k].t
         /\ \A k \in 1 .. (Len(out) - 1) : out[k + 1].t <= out[k].t
<1>1. out \in ViewLists
  BY DEF Merging
<1>2. PICK n \in Nat : n = Len(out) /\ DOMAIN out = 1 .. n
  BY <1>1 DEF ViewLists
<1>3. DOMAIN ws = 1 .. Len(ws) /\ \A i \in 1 .. Len(ws) : DOMAIN ws[i] = 1 .. Len(ws[i])
  BY DEF Lists, ViewLists
<1>4. IsInjective(BufsOf(out))
  <2>1. ASSUME NEW j \in 1 .. n, NEW k \in 1 .. n, out[j].buf = out[k].buf PROVE j = k
    <3>1. ~(j < k) /\ ~(k < j)
      BY <1>2, <2>1 DEF Merging
    <3> QED
      BY <3>1
  <2>2. DOMAIN BufsOf(out) = 1 .. n /\ \A j \in 1 .. n : BufsOf(out)[j] = out[j].buf
    BY <1>2 DEF BufsOf
  <2> QED
    BY <2>1, <2>2 DEF IsInjective
<1>5. \A b : b \in Showing(ws) <=> \E v : Listed(v, ws) /\ v.buf = b
  <2>1. \A i \in 1 .. Len(ws) : ToSet(BufsOf(ws[i])) = {ws[i][j].buf : j \in 1 .. Len(ws[i])}
    BY <1>3 DEF ToSet, BufsOf
  <2>2. \A b : b \in Showing(ws) <=> \E i \in 1 .. Len(ws) : \E j \in 1 .. Len(ws[i]) : b = ws[i][j].buf
    BY <1>3, <2>1 DEF Showing
  <2> QED
    BY <2>2 DEF Listed
<1>6. Saved(out) = Showing(ws) \cap Names
  <2>1. ASSUME NEW b \in Saved(out) PROVE b \in Showing(ws) \cap Names
    <3>1. PICK k \in 1 .. n : b = out[k].buf
      BY <1>2 DEF Saved
    <3>2. Listed(out[k], ws) /\ out[k].buf \in Names
      BY <1>2 DEF Merging
    <3> QED
      BY <1>5, <3>1, <3>2
  <2>2. ASSUME NEW b \in Showing(ws) \cap Names PROVE b \in Saved(out)
    BY <1>5 DEF Complete
  <2> QED
    BY <2>1, <2>2
<1>7. ASSUME NEW k \in 1 .. n, NEW i \in 1 .. Len(ws), NEW j \in 1 .. Len(ws[i]),
             ws[i][j].buf = out[k].buf
      PROVE  ws[i][j].t <= out[k].t
  <2>1. Listed(ws[i][j], ws)
    BY DEF Listed
  <2> QED
    BY <1>2, <1>7, <2>1 DEF Merging
<1>8. ASSUME NEW k \in 1 .. n - 1 PROVE out[k + 1].t <= out[k].t
  <2>1. k \in 1 .. n /\ k + 1 \in 1 .. n /\ k < k + 1
    BY <1>2
  <2> QED
    BY <1>2, <2>1 DEF Merging
<1> QED
  BY <1>1, <1>2, <1>3, <1>4, <1>6, <1>7, <1>8, SavedIs
-----------------------------------------------------------------------------
(* The properties *)

\* The types of the windows, views and buffers: a window is current, and only
\* buffers that exist have lines or unsaved edits.
THEOREM TypeCorrect == Spec => []TypeOK
<1>1. IInv => TypeOK
  <2> SUFFICES ASSUME IInv PROVE TypeOK
    OBVIOUS
  <2>1. /\ win \in Lists /\ Len(win) \in 1 .. MaxWindows /\ cur \in 1 .. Len(win)
    BY DEF IInv, ListsOK
  <2>2. cur \in DOMAIN win /\ Len(win) <= MaxWindows
    BY <2>1, ViewsAssumption DEF Lists
  <2>3. ASSUME NEW i \in DOMAIN win, NEW j \in DOMAIN win[i]
        PROVE  win[i][j].buf \in Bufs /\ win[i][j].t \in 0 .. MaxClock
    <3>1. win[i] \in ViewLists
      BY <2>1 DEF Lists
    <3>2. win[i][j] \in View
      BY <3>1 DEF ViewLists
    <3> QED
      BY <3>2 DEF View
  <2> QED
    BY <2>2, <2>3 DEF TypeOK, IInv, BufsOK
<1> QED
  BY <1>1, Inductive, PTL

\* The current file is the one the current window shows, with its lines, after
\* every command (fChangeFile, SetWindowSetValidView, CloseWindow_).
THEOREM CurrentIsShown == Spec => []CurFileIsShown
<1>1. IInv => CurFileIsShown
  <2> SUFFICES ASSUME IInv, Alive
               PROVE  curBuf = Head(Here).buf /\ curBuf \in loaded
    BY DEF CurFileIsShown
  <2>1. win[cur] # <<>> /\ curBuf = win[cur][1].buf /\ curBuf \in loaded
    BY DEF IInv, Shown, Alive
  <2>2. win[cur] \in ViewLists
    BY DEF IInv, ListsOK, Lists
  <2>3. Head(win[cur]) = win[cur][1]
    BY <2>1, <2>2 DEF ViewLists
  <2> QED
    BY <2>1, <2>3 DEF Here
<1> QED
  BY <1>1, Inductive, PTL

\* No command drops unsaved edits of a file that could be saved unless it asked
\* about them (KillTheCurrentView, RmvFileByName, DestroyViewList).
THEOREM EditsAreAskedAbout == Spec => EditsGoOnlyWhenAsked
<1>1. IInv /\ [Next]_vars => [\A b \in dirty \cap reach : b \in fbufs' \cup asked']_vars
  BY StepKeeps DEF Kept, Careful
<1> QED
  BY <1>1, Inductive, PTL DEF Spec, EditsGoOnlyWhenAsked

\* Each file the windows show is in the state file once, with its last visit,
\* the one visited last in front (Wins_WriteStateFile).
THEOREM StateFileHasLastVisits == Spec => []StateFileIsMostRecent
<1>1. IInv => StateFileIsMostRecent
  <2> SUFFICES ASSUME IInv PROVE StateFileIsMostRecent
    OBVIOUS
  <2>1. win \in Lists /\ AllInOrder(win, clock)
    BY DEF IInv, ListsOK, Ordered
  <2> DEFINE n     == Cardinality(Names)
             first == [rest |-> [i \in DOMAIN win |-> win[i]], out |-> <<>>]
             P(t)  == t = [k \in 0 .. n |-> IF k = 0 THEN first ELSE SaveOne(t[k - 1])]
             turn  == CHOOSE t : P(t)
  <2>2. StateFile = turn[n].out
    BY Zenon DEF StateFile
  <2>3. n \in Nat
    BY ViewsAssumption, FS_CardinalityType
  <2>4. PICK start : start = first
    OBVIOUS
  <2>5. start = [rest |-> win, out |-> <<>>]
    BY <2>1, <2>4 DEF Lists
  <2>6. PICK m : m = n
    OBVIOUS
  <2> HIDE DEF n, first
  <2>7. \E t : P(t)
    <3>1. PICK t : Turns(t, n, first)
      BY <2>3, TurnsExist
    <3>2. P(t)
      BY <3>1 DEF Turns
    <3> HIDE DEF P
    <3> QED
      BY <3>2
  <2>8. P(turn)
    <3> HIDE DEF P
    <3> QED
      BY <2>7
  <2>9. PICK t : t = turn
    OBVIOUS
  <2>10. Turns(t, m, start)
    <3>1. P(t)
      <4> HIDE DEF P, turn
      <4> QED
        BY <2>8, <2>9
    <3> QED
      BY <2>4, <2>6, <3>1 DEF Turns
  <2>11. m = Cardinality(Names)
    BY <2>6 DEF n
  <2> HIDE DEF turn, P
  <2>12. PICK rest : Merging(win, rest, t[m].out, clock) /\ Complete(win, t[m].out)
    BY <2>1, <2>5, <2>10, <2>11, FileSaved
  <2>13. PICK out : out = t[m].out
    OBVIOUS
  <2>14. out = StateFile
    BY <2>2, <2>6, <2>9, <2>13
  <2>15. /\ IsInjective(BufsOf(out))
         /\ ToSet(BufsOf(out)) = Showing(win) \cap Names
         /\ \A k \in DOMAIN out : \A i \in DOMAIN win : \A j \in DOMAIN win[i] :
              win[i][j].buf = out[k].buf => win[i][j].t <= out[k].t
         /\ \A k \in 1 .. (Len(out) - 1) : out[k + 1].t <= out[k].t
    BY <2>1, <2>12, <2>13, CompleteSays
  <2> QED
    BY <2>14, <2>15 DEF StateFileIsMostRecent
<1> QED
  BY <1>1, Inductive, PTL
=============================================================================
