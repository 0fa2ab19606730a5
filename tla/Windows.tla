------------------------------ MODULE Windows ------------------------------
(***************************************************************************)
(* How the windows of the editor share the screen: the geometry half of    *)
(* wnd.cpp.  A dimension is "lin" or "col"; the windows are split along    *)
(* one dimension only, in the order of g__.aWindow, which SortWinArray     *)
(* keeps in the order of their upper left corners.                         *)
(***************************************************************************)
EXTENDS Integers, Sequences, SequencesExt, FiniteSetsExt

CONSTANTS Screens,    \* window regions [lin, col] the terminal may have
          Cuts,       \* places of the cursor in its window the user may split at
          MinWin,     \* MIN_WIN_WIDTH and MIN_WIN_HEIGHT
          MaxWindows  \* MAX_WINDOWS

ASSUME WindowsAssumption ==
  /\ MinWin \in Nat \ {0, 1} /\ MaxWindows \in Nat \ {0} /\ Cuts \subseteq Nat
  /\ Screens \subseteq [lin : Nat \ {0}, col : Nat \ {0}]
  /\ \A s \in Screens : s.lin >= MaxWindows /\ s.col >= MaxWindows \* room for the borders

VARIABLES win,    \* g__.aWindow: d_UpLeft, d_Size and d_size_pct of each
          cur,    \* g__.ixCurrentWin
          screen  \* the region the windows share

vars == <<win, cur, screen>>

Border == 1
Dims == {"lin", "col"}
Other(d) == IF d = "lin" THEN "col" ELSE "lin"
Min2(a, b) == IF a < b THEN a ELSE b
Max2(a, b) == IF a > b THEN a ELSE b

SplitDim(ws) == IF Len(ws) > 1 /\ ws[1].ul["lin"] = ws[2].ul["lin"] THEN "col" ELSE "lin"

\* f[1] + .. + f[n]
Total(f, n) ==
  LET sum[i \in Nat] == IF i \in DOMAIN f THEN sum[i - 1] + f[i] ELSE 0
  IN  sum[n]

Sizes(ws, d) == [i \in DOMAIN ws |-> ws[i].size[d]]
Shares(ws, d) == [i \in DOMAIN ws |-> ws[i].pct[d]]

\* Win::Win( parent, .. ): the parent keeps the room before the cut.
SplitChild(w, d, at) ==
  LET size == w.size[d] - at - 2
  IN  [ul    |-> [w.ul EXCEPT ![d] = @ + (w.size[d] - (size + Border)) + Border],
       size  |-> [w.size EXCEPT ![d] = size],
       pct   |-> [e \in Dims |-> IF e = d THEN (w.pct[d] * size) \div (w.size[d] - Border) ELSE 100]]

SplitParent(w, d, at) ==
  LET c == SplitChild(w, d, at)
  IN  [w EXCEPT !.size[d] = @ - (c.size[d] + Border), !.pct[d] = @ - c.pct[d]]

Mergeable(v, w) ==
  \E d \in Dims :
    /\ v.size[d] = w.size[d] /\ v.ul[d] = w.ul[d]
    /\ LET e == Other(d)
       IN  \/ v.ul[e] + v.size[e] + Border = w.ul[e]
           \/ w.ul[e] + w.size[e] + Border = v.ul[e]

\* Mutant of Merged: the share of the closed window is lost.
MergeForgetsShare(w, v) ==
  LET d == IF w.ul["lin"] = v.ul["lin"] THEN "col" ELSE "lin"
  IN  [w EXCEPT !.size[d] = @ + v.size[d] + Border, !.ul[d] = Min2(@, v.ul[d])]

\* CloseWindow_: what is left of w once it has taken the room of v.
Merged(w, v) ==
  LET d == IF w.ul["lin"] = v.ul["lin"] THEN "col" ELSE "lin"
  IN  [w EXCEPT !.size[d] = @ + v.size[d] + Border,
                !.pct[d]  = @ + v.pct[d],
                !.ul[d]   = Min2(@, v.ul[d])]

\* What there is to share when the screen has the size new.
Room(ws, d, new) == new[d] - Border * (Len(ws) - 1)

\* Mutant of NewSizes: shares are rounded to the nearest size.
NewSizesRounded(ws, d, new) ==
  LET room == Room(ws, d, new)
  IN  [i \in DOMAIN ws |->
         LET s == (room * ws[i].pct[d] + 50) \div 100
         IN  IF room > Total(Sizes(ws, d), Len(ws)) THEN Max2(s, ws[i].size[d]) ELSE s]

\* Wins_ScreenSizeChanged: from the last window to the second, each gets its
\* share, never less than it had when the screen grows.
NewSizes(ws, d, new) ==
  LET room == Room(ws, d, new)
  IN  [i \in DOMAIN ws |->
         LET s == (room * ws[i].pct[d]) \div 100
         IN  IF room > Total(Sizes(ws, d), Len(ws)) THEN Max2(s, ws[i].size[d]) ELSE s]

\* Where window i ends, when those behind it have their new sizes and borders.
Left(ws, d, new, i) ==
  LET taken == [j \in DOMAIN ws |-> NewSizes(ws, d, new)[j] + Border]
  IN  new[d] - (Total(taken, Len(ws)) - Total(taken, i))

\* Mutant of NewSize: the test for space left is signed.
NewSizeSigned(ws, d, new, i) ==
  IF i = 1 THEN Max2(NewSizes(ws, d, new)[1], Left(ws, d, new, 1)) ELSE NewSizes(ws, d, new)[i]

\* The first takes what is left, be it more or less than its share: ulc and
\* delta are unsigned, so that delta > 0 unless they are the same.
NewSize(ws, d, new, i) ==
  IF i = 1 THEN Left(ws, d, new, i) ELSE NewSizes(ws, d, new)[i]

Resized(ws, new) ==
  LET d == SplitDim(ws)
      o == Other(d)
  IN  CASE Len(ws) = 1 -> <<[ws[1] EXCEPT !.size = new]>>
        [] Len(ws) > 1 /\ Room(ws, d, new) # Total(Sizes(ws, d), Len(ws)) ->
             [i \in DOMAIN ws |-> [ws[i] EXCEPT !.ul[d]   = Left(ws, d, new, i) - NewSize(ws, d, new, i),
                                                !.size[d] = NewSize(ws, d, new, i),
                                                !.size[o] = new[o]]]
        [] OTHER -> [i \in DOMAIN ws |-> [ws[i] EXCEPT !.size[o] = new[o]]]

\* CloseWnd gives the room to the first window that can be merged with window i.
MergeCands(ws, i) == {j \in DOMAIN ws : j # i /\ Mergeable(ws[i], ws[j])}

\* Screens beyond some 300 columns can leave a first window of negative size.  A
\* negative width ends the program: std::string::replace throws when it is drawn.
\* What follows a negative height is not modelled: no action starts from there.
HasRoom == \A i \in DOMAIN win : \A d \in Dims : win[i].size[d] >= 0

-----------------------------------------------------------------------------
Init ==
  /\ screen \in Screens
  /\ win = <<[ul |-> [lin |-> 0, col |-> 0], size |-> screen, pct |-> [lin |-> 100, col |-> 100]]>>
  /\ cur = 1

\* arg window, arg arg window: SplitCurWnd at offset at of the current window.
SplitCurWnd(d, at) ==
  /\ HasRoom /\ Len(win) < MaxWindows
  /\ Len(win) > 1 => d = SplitDim(win)
  /\ at >= MinWin /\ win[cur].size[d] - at >= MinWin
  /\ win' = InsertAt([win EXCEPT ![cur] = SplitParent(@, d, at)], cur + 1, SplitChild(win[cur], d, at))
  /\ UNCHANGED <<cur, screen>>

\* meta window: CloseWnd and CloseWindow_.
CloseWnd ==
  LET to == Min(MergeCands(win, cur))
  IN  /\ HasRoom /\ Len(win) > 1 /\ MergeCands(win, cur) # {}
      /\ win' = RemoveAt([win EXCEPT ![to] = Merged(@, win[cur])], cur)
      /\ cur' = IF cur < to THEN to - 1 ELSE to
      /\ UNCHANGED screen

\* window: SetWindowSetValidView of the next one.
NextWindow ==
  /\ HasRoom /\ Len(win) > 1
  /\ cur' = (cur % Len(win)) + 1
  /\ UNCHANGED <<win, screen>>

\* Event_ScreenSizeChanged: the terminal asks nobody (Wins_CanResizeContent
\* guards only the sizes the user asks for).
ScreenSizeChanged(new) ==
  /\ HasRoom /\ new # screen
  /\ screen' = new /\ win' = Resized(win, new)
  /\ UNCHANGED cur

Next ==
  \/ \E d \in Dims : \E at \in Cuts : SplitCurWnd(d, at)
  \/ CloseWnd
  \/ NextWindow
  \/ \E new \in Screens : ScreenSizeChanged(new)

Spec == Init /\ [][Next]_vars

-----------------------------------------------------------------------------
(* Properties *)

\* Each window ends one border before the next begins, and all have the full
\* size of the screen in the dimension they do not share.
WindowsAbut ==
  LET d == SplitDim(win)
  IN  /\ \A i \in 1 .. (Len(win) - 1) :
           /\ win[i].ul[d] + win[i].size[d] + Border = win[i + 1].ul[d]
           /\ win[i].ul[Other(d)] = win[i + 1].ul[Other(d)]
      /\ \A i \in DOMAIN win : win[i].size[Other(d)] = screen[Other(d)]

\* However the screen was split, merged and resized, the windows and their
\* borders are exactly the screen: no text of two windows competes for a place
\* and no place is left over, whatever the rounding of the shares and of the sums
\* of the shares was (Wins_ScreenSizeChanged, Win::Win, CloseWindow_).
WindowsTileScreen ==
  LET d == SplitDim(win)
  IN  HasRoom =>
        /\ WindowsAbut
        /\ win[1].ul = [lin |-> 0, col |-> 0]
        /\ win[Len(win)].ul[d] + win[Len(win)].size[d] = screen[d]

\* Any of several windows can be closed, and the room goes to the window before
\* it, or for the first one to the second; the shares still add up to the whole
\* screen, so that the next resize can use all of it.
AnyWindowCloses ==
  HasRoom =>
    /\ Len(win) > 1 =>
         \A i \in DOMAIN win : MergeCands(win, i) # {} /\ Min(MergeCands(win, i)) = (IF i = 1 THEN 2 ELSE i - 1)
    /\ Total(Shares(win, SplitDim(win)), Len(win)) = 100

\* "grow/shrink all windows proportional to their d_size_pct" (wnd.cpp:106): a
\* window has its share of the room between the borders, but for a fraction of a cell.
HasItsShare(w, d, room) == 100 * (w.size[d] + 1) > room * w.pct[d]

\* A screen that shrinks leaves every window its share, and the first no less than
\* all of it: what rounding takes from the others it gets (Wins_ScreenSizeChanged).
\* A screen that grows may leave the first less: no other window gives anything up
\* then (NoLessThan), and the first pays for what they have beyond their shares.
ShrinksInProportion ==
  [][LET d == SplitDim(win)
         room == Room(win, d, screen')
     IN  Len(win) > 1 /\ screen'[d] < screen[d] =>
           /\ \A i \in DOMAIN win : HasItsShare(win'[i], d, room)
           /\ 100 * win'[1].size[d] >= room * win'[1].pct[d]]_vars

=============================================================================
