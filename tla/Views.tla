------------------------------- MODULE Views -------------------------------
(***************************************************************************)
(* Windows, the views each window lists, and the buffers the views show:   *)
(* wnd.cpp, the view lists of display.cpp, and the life of an FBUF in      *)
(* fbuf.cpp.  A buffer lives as long as a view shows it; a window shows    *)
(* the view at the head of its list.  Windows.tla has their sizes.         *)
(***************************************************************************)
EXTENDS Integers, Sequences, SequencesExt, FiniteSetsExt, Functions

CONSTANTS Names,      \* the files a user may open
          NoFile,     \* kszNoFile, the listing shown when nothing else can be
          NoBuf,      \* g_CurFBuf() before startup
          MaxWindows, \* MAX_WINDOWS, or as many as the screen has room for
          MaxClock    \* bound: seconds that pass

ASSUME ViewsAssumption ==
  /\ IsFiniteSet(Names) /\ NoFile \notin Names /\ NoBuf \notin Names \cup {NoFile}
  /\ MaxWindows \in Nat \ {0} /\ MaxClock \in Nat \ {0}

VARIABLES win,     \* g__.aWindow: the d_ViewHd list of each, of views [buf, t]
          cur,     \* g__.ixCurrentWin
          curBuf,  \* g_CurFBuf()
          fbufs,   \* the FBUFs that exist
          loaded,  \* those whose lines were read
          dirty,   \* those with unsaved edits
          disk,    \* files that exist
          reach,   \* files whose directories can be accessed
          clock,   \* time()
          asked    \* the buffers the last step asked the user about

vars == <<win, cur, curBuf, fbufs, loaded, dirty, disk, reach, clock, asked>>
files == <<disk, reach>>

Bufs == Names \cup {NoFile}
Min2(a, b) == IF a < b THEN a ELSE b

-----------------------------------------------------------------------------
(* View lists *)

BufsOf(views) == [i \in DOMAIN views |-> views[i].buf]
Showing(ws) == UNION {ToSet(BufsOf(ws[i])) : i \in DOMAIN ws}
ViewCount(b) == Cardinality({i \in DOMAIN win : b \in ToSet(BufsOf(win[i]))})

\* The views of some buffers in a list, in their order: at the positions I,
\* the n-th of which is the one with n of them up to it.
Nth(I, n) == CHOOSE i \in I : Cardinality({j \in I : j <= i}) = n

ViewsOf(views, bufs) ==
  LET I == {i \in DOMAIN views : views[i].buf \in bufs}
  IN  [n \in 1 .. Cardinality(I) |-> views[Nth(I, n)]]

\* FBUF::UnlinkAllViews: the views of the buffers gone leave every window.
Unlinked(ws, gone) ==
  [i \in DOMAIN ws |-> ViewsOf(ws[i], Bufs \ gone)]

FocusKeepsTime(ws, c, b, now) ==
  [ws EXCEPT ![c] = LET old == ViewsOf(@, {b})
                    IN  (IF old = <<>> THEN <<[buf |-> b, t |-> now]>> ELSE old)
                        \o ViewsOf(@, Bufs \ {b})]

\* FBUF::PutFocusOnView in window c: the view moves, or a new one comes, to the head.
Focused(ws, c, b, now) ==
  [ws EXCEPT ![c] = <<[buf |-> b, t |-> now]>> \o ViewsOf(@, Bufs \ {b})]

\* fChangeFile finds the name and FBUF::PutFocusOn can show the file: its path
\* is accessible (xlat_fnm), and its lines are there, or can be read, or the
\* user agrees to create it.
Usable(b, created) ==
  b = NoFile \/ (b \in reach /\ b \in loaded \cup disk \cup created)

\* SetWindowSetValidView of window c of ws, after trying the candidates first:
\* every name that cannot be shown is forgotten in all windows, the first that
\* can is shown, or NoFile.  keep are the FBUFs that remain but for those.
Settle(ws, c, first, keep, created, onDisk) ==
  LET cand == first \o BufsOf(ws[c])
      good == {i \in DOMAIN cand : Usable(cand[i], created)}
      k    == IF good = {} THEN Len(cand) + 1 ELSE Min(good)
      gone == {cand[i] : i \in 1 .. (k - 1)}
      next == IF good = {} THEN NoFile ELSE cand[k]
  IN  \E now \in {clock, Min2(clock + 1, MaxClock)} :
        /\ clock' = now
        /\ win' = Focused(Unlinked(ws, gone), c, next, now)
        /\ cur' = c
        /\ curBuf' = next
        /\ fbufs' = (keep \ gone) \cup {next}
        /\ loaded' = (loaded \cap fbufs') \cup {next}
        /\ dirty' = dirty \cap fbufs'
        /\ disk' = IF next \in created \ loaded THEN onDisk \cup {next} ELSE onDisk

\* The display looks at the head of every window's list after each command, so
\* a window with none ends the program.
Alive == curBuf # NoBuf /\ \A i \in DOMAIN win : win[i] # <<>>

Here == win[cur]

-----------------------------------------------------------------------------
Init ==
  /\ \E names \in SetToAllKPermutations(Names) :
       /\ win = <<[i \in DOMAIN names |-> [buf |-> names[i], t |-> 0]]>>
       /\ fbufs = ToSet(names)
  /\ cur = 1 /\ curBuf = NoBuf
  /\ loaded = {} /\ dirty = {} /\ asked = {} /\ clock = 1
  /\ disk \in SUBSET Names /\ reach = Names

\* InitFromStateFile with the views the state file lists.
Startup(created) ==
  /\ curBuf = NoBuf
  /\ Settle(win, 1, <<>>, fbufs, created, disk)
  /\ asked' = {}
  /\ UNCHANGED reach

\* fChangeFile( b ), by setfile and all commands that show another file.
ChangeFile(b, created) ==
  /\ Alive /\ b \in fbufs \cup reach
  /\ Settle(win, cur, <<b>>, fbufs \cup {b}, created, disk)
  /\ asked' = {}
  /\ UNCHANGED reach

\* OpenFileNotDir_( b ): reads a file without showing it.
OpenFileNotDir(b, created) ==
  /\ Alive /\ b \in reach
  /\ b \in fbufs \cup disk \cup created
  /\ asked' = {}
  /\ IF Usable(b, created)
     THEN /\ fbufs' = fbufs \cup {b} /\ loaded' = loaded \cup {b}
          /\ disk' = IF b \in created \ loaded THEN disk \cup {b} ELSE disk
          /\ UNCHANGED <<win, cur, curBuf, dirty, clock>>
     ELSE Settle(Unlinked(win, {b}), cur, <<>>, fbufs \ {b}, created, disk)
  /\ UNCHANGED reach

\* arg window, arg arg window: SplitCurWnd, when there is room.  The new window
\* clones every view of the current one; none of the clones was ever focused.
SplitCurWnd ==
  /\ Alive /\ Len(win) < MaxWindows
  /\ win' = InsertAt(win, cur + 1, [i \in DOMAIN Here |-> [Here[i] EXCEPT !.t = 0]])
  /\ asked' = {}
  /\ UNCHANGED <<cur, curBuf, fbufs, loaded, dirty, files, clock>>

CloseAsksCurrent(saves, created) ==
  LET last == {b \in ToSet(BufsOf(Here)) : ViewCount(b) = 1}
  IN  /\ Alive /\ Len(win) > 1
      /\ saves \subseteq last \cap dirty \cap reach
      /\ asked' = last \cap dirty \cap {curBuf}
      /\ Settle(RemoveAt(win, cur), Max({1, cur - 1}), <<>>, fbufs \ last, created, disk \cup saves)
      /\ UNCHANGED reach

\* meta window: CloseWnd gives the room to the window before the current one,
\* or else to the next.  The user is asked about each dirty buffer that only this
\* window shows, and saves those in saves.
CloseWnd(saves, created) ==
  LET last == {b \in ToSet(BufsOf(Here)) : ViewCount(b) = 1}
  IN  /\ Alive /\ Len(win) > 1
      /\ saves \subseteq last \cap dirty \cap reach
      /\ asked' = last \cap dirty
      /\ Settle(RemoveAt(win, cur), Max({1, cur - 1}), <<>>, fbufs \ last, created, disk \cup saves)
      /\ UNCHANGED reach

NextWindowUnsettled(created) ==
  /\ Alive /\ Len(win) > 1
  /\ cur' = (cur % Len(win)) + 1
  /\ asked' = {} /\ created = {}
  /\ UNCHANGED <<win, curBuf, fbufs, loaded, dirty, files, clock>>

\* window: the next window becomes the current one.
NextWindow(created) ==
  /\ Alive /\ Len(win) > 1
  /\ Settle(win, (cur % Len(win)) + 1, <<>>, fbufs, created, disk)
  /\ asked' = {}
  /\ UNCHANGED reach

\* arg refresh, confirmed: KillTheCurrentView.
ForgetCurrent(created) ==
  LET ws == [win EXCEPT ![cur] = Tail(@)]
  IN  /\ Alive /\ Len(Here) > 1
      /\ Settle(ws, cur, <<>>, fbufs \cap (Showing(ws) \cup (fbufs \ {curBuf})), created, disk)
      /\ asked' = {curBuf}
      /\ UNCHANGED reach

\* arg "b" refresh, confirmed if b is dirty: RmvFileByName.
ForgetByName(b, created) ==
  /\ Alive /\ b \in fbufs
  /\ Settle(Unlinked(win, {b}), cur, <<>>, fbufs \ {b}, created, disk)
  /\ asked' = {b} \cap dirty
  /\ UNCHANGED reach

Edit ==
  /\ Alive /\ curBuf \in Names \ dirty
  /\ dirty' = dirty \cup {curBuf}
  /\ asked' = {}
  /\ UNCHANGED <<win, cur, curBuf, fbufs, loaded, files, clock>>

WriteToDisk ==
  /\ Alive /\ curBuf \in dirty \cap reach
  /\ dirty' = dirty \ {curBuf} /\ disk' = disk \cup {curBuf}
  /\ asked' = {}
  /\ UNCHANGED <<win, cur, curBuf, fbufs, loaded, reach, clock>>

\* A file comes or goes, or a directory on its path becomes (in)accessible.
Outside(b) ==
  /\ Alive
  /\ \/ disk' = (disk \ {b}) \cup ({b} \ disk) /\ UNCHANGED reach
     \/ reach' = (reach \ {b}) \cup ({b} \ reach) /\ UNCHANGED disk
  /\ asked' = {}
  /\ UNCHANGED <<win, cur, curBuf, fbufs, loaded, dirty, clock>>

Next ==
  \/ \E created \in SUBSET (Names \ disk) :
       \/ Startup(created)
       \/ NextWindow(created)
       \/ ForgetCurrent(created)
       \/ \E saves \in SUBSET dirty : CloseWnd(saves, created)
       \/ \E b \in Names : ChangeFile(b, created) \/ OpenFileNotDir(b, created)
       \/ \E b \in Bufs : ForgetByName(b, created)
  \/ SplitCurWnd
  \/ Edit
  \/ WriteToDisk
  \/ \E b \in Names : Outside(b)

Spec == Init /\ [][Next]_vars

-----------------------------------------------------------------------------
(* Properties *)

\* Every variable has a value the program's data structures can hold.
TypeOK ==
  /\ cur \in DOMAIN win /\ Len(win) <= MaxWindows
  /\ \A i \in DOMAIN win : \A j \in DOMAIN win[i] :
       win[i][j].buf \in Bufs /\ win[i][j].t \in 0 .. MaxClock
  /\ dirty \subseteq loaded /\ loaded \subseteq fbufs /\ fbufs \subseteq Bufs
  /\ disk \subseteq Names /\ reach \subseteq Names 

\* The current file is the one the current window shows, as the comment at
\* the end of fChangeFile has it, and its lines are there.
CurFileIsShown ==
  Alive => curBuf = Head(Here).buf /\ curBuf \in loaded

\* Unsaved edits of a file whose path is accessible vanish only in a step that
\* asked the user about that file.
EditsGoOnlyWhenAsked ==
  [][\A b \in dirty \cap reach : b \in fbufs' \cup asked']_vars

-----------------------------------------------------------------------------
(* Wins_WriteStateFile: the view lists of all windows are merged, always    *)
(* taking the view focused last, and each buffer is written once.           *)

Candidates(rest, saved) ==
  [i \in DOMAIN rest |-> LET good == {j \in DOMAIN rest[i] : rest[i][j].buf \in Names \ saved}
                         IN  IF good = {} THEN <<>> ELSE SubSeq(rest[i], Min(good), Len(rest[i]))]

\* One turn of the loop: the window whose candidate was focused last, the first of equals.
SaveOne(st) ==
  LET rest  == Candidates(st.rest, ToSet(BufsOf(st.out)))
      live  == {i \in DOMAIN rest : rest[i] # <<>>}
      later == {i \in live : \A j \in live : Head(rest[j]).t <= Head(rest[i]).t}
  IN  IF live = {} THEN [st EXCEPT !.rest = rest]
      ELSE LET best == Min(later)
           IN  [rest |-> [rest EXCEPT ![best] = Tail(@)], out |-> Append(st.out, Head(rest[best]))]

StateFile ==
  LET n == Cardinality(Names)
      turn[k \in 0 .. n] == IF k = 0 THEN [rest |-> [i \in DOMAIN win |-> win[i]], out |-> <<>>]
                            ELSE SaveOne(turn[k - 1])
  IN  turn[n].out

\* "Each historically-visited file is referenced by a single entry in the
\* state file (containing info for the most recent visit)", most recent first.
StateFileIsMostRecent ==
  LET out == StateFile
  IN  /\ IsInjective(BufsOf(out))
      /\ ToSet(BufsOf(out)) = Showing(win) \cap Names
      /\ \A k \in DOMAIN out : \A i \in DOMAIN win : \A j \in DOMAIN win[i] :
           win[i][j].buf = out[k].buf => win[i][j].t <= out[k].t
      /\ \A k \in 1 .. (Len(out) - 1) : out[k + 1].t <= out[k].t
=============================================================================
