------------------------------ MODULE UndoRedo ------------------------------
(***************************************************************************)
(* Undo and redo of one FBUF: the EditRec list of fbuf_undo.cpp, the line  *)
(* primitives of fbuf_edit.cpp that feed it, the boundary the command loop *)
(* of macro.cpp inserts before a command, the dirty flag, and the disk     *)
(* file the buffer is saved to and refreshed from.                         *)
(*                                                                         *)
(* The editor's main thread is the only one that runs this code.  Its      *)
(* loops (pruning old records, walking records in an undo or a redo) are   *)
(* taken one iteration at a time, with pc naming the loop; everything else *)
(* is one action per operation.                                            *)
(***************************************************************************)
EXTENDS LineArray

CONSTANTS
  MaxLine,        \* bound: the highest line index edited
  MaxInsert,      \* bound: the lines one InsertLines call inserts
  MaxRecs,        \* bound: the records an edit may leave in the list
  MaxTime,        \* bound: the last second of the clock
  MaxUndoValues,  \* the values the "maxundo" switch is given
  InitDocs,       \* the files the buffer may first be read from
  ForeignDocs,    \* what other programs write to the file later
  TrailLineWrite, \* g_fTrailLineWrite: trailing blank lines are written too
  TickOnWrite     \* TRUE: no two writes of the file in one clock second

ASSUME BoundsAssumption ==
  /\ MaxLine \in Nat /\ MaxInsert \in Nat /\ MaxRecs \in Nat /\ MaxTime \in Nat
  /\ MaxUndoValues \subseteq Nat /\ MaxUndoValues # {}
  /\ TickOnWrite \in BOOLEAN /\ TrailLineWrite \in BOOLEAN
ASSUME DocsAssumption ==
  InitDocs \subseteq Seq(Content) /\ ForeignDocs \subseteq Seq(Content)

VARIABLES
  pc,            \* "loop", "prune", "fetched", "undo" or "redo"
  fb,            \* d_paLineInfo, d_naLineInfoElements, d_LineCount
  edits,         \* d_pOldestEdit .. d_pNewestEdit
  cur,           \* d_pCurrentEdit, as an index of edits
  undoCount,     \* d_UndoCount
  maxUndo,       \* g_iMaxUndo
  noEdit,        \* d_fNoEdit
  dirty,         \* d_fDirty
  lastFileStat,  \* d_LastFileStat
  disk,          \* the file: its stat and its lines
  clock          \* the second the file system would stamp a write with

undoVars == <<edits, cur, undoCount>>
diskVars == <<disk, clock>>
vars == <<pc, fb, edits, cur, undoCount, maxUndo, noEdit, dirty, lastFileStat,
          disk, clock>>
-----------------------------------------------------------------------------
\* FileStat: modification time in seconds and size in bytes.  A non-blank
\* line is one byte and every line has one byte of EOL.
FileStat == [time : Nat, size : Nat]
NoStat   == [time |-> 0, size |-> 0]
SizeOf(lines) ==
  Len(lines) + Cardinality({i \in 1 .. Len(lines) : lines[i] # Blank})

\* The kinds of EditRec.  saved of a del record is d_paLi.
Boundary(d, st)       == [kind |-> "boundary", dirty |-> d, stat |-> st]
AltLine(n, y, c)      == [kind |-> "alt", count |-> n, line |-> y, li |-> c]
RangeInsert(n, y, k)  == [kind |-> "ins", count |-> n, first |-> y, n |-> k]
RangeDelete(n, y, k, saved, applied) ==
  [kind |-> "del", count |-> n, first |-> y, n |-> k, saved |-> saved,
   applied |-> applied]

IsBoundary(er)           == er.kind = "boundary"
IsAltContentOfLine(er, y) == er.kind = "alt" /\ er.line = y
BoundariesIn(s, lo, hi)  == {k \in lo .. hi : IsBoundary(s[k])}

Newest == edits[Len(edits)]
IsTip  == cur = Len(edits)
-----------------------------------------------------------------------------
\* FBUF::Undo_AddNewEditOpToListHead: the records undone before this one are
\* discarded, each discarded boundary lowering d_UndoCount.
KeptEdits == SubSeq(edits, 1, cur)

KeptCount == undoCount - Cardinality(BoundariesIn(edits, cur + 1, Len(edits)))

AddEdit(er) ==
  /\ edits'     = Append(KeptEdits, er)
  /\ cur'       = cur + 1
  /\ undoCount' = KeptCount

\* Mutant of Undo_Reinit: the records of the old content survive.
Undo_ReinitKeeps(d) == UNCHANGED undoVars

\* FBUF::Undo_DeleteAll followed by FBUF::Undo_Init; d is the dirty flag then.
Undo_Reinit(d) ==
  /\ edits'     = <<Boundary(d, NoStat)>>
  /\ cur'       = 1
  /\ undoCount' = 0

\* The records of an edit are only added where the list has room (MaxRecs).
ListHasRoom == cur < MaxRecs

\* FetchAndExecuteCMDs up to a command: FBUF::UndoInsBoundary updates the
\* current record when it is a boundary and adds one otherwise.
UndoInsBoundary ==
  /\ pc = "loop"
  /\ IF noEdit
       THEN pc' = "fetched" /\ UNCHANGED undoVars
       ELSE IF IsBoundary(edits[cur])
       THEN /\ edits' = [edits EXCEPT ![cur] = Boundary(dirty, lastFileStat)]
            /\ pc' = "fetched"
            /\ UNCHANGED <<cur, undoCount>>
       ELSE /\ edits'     = Append(KeptEdits, Boundary(dirty, lastFileStat))
            /\ cur'       = cur + 1
            /\ undoCount' = KeptCount + 1
            /\ pc' = "prune"
  /\ UNCHANGED <<fb, maxUndo, noEdit, dirty, lastFileStat, disk, clock>>

\* Mutant of PruneStep: an if in place of the while.
PruneStepOnce ==
  /\ pc = "prune"
  /\ pc' = "fetched"
  /\ IF undoCount > maxUndo
       THEN /\ edits'     = Tail(edits)
            /\ cur'       = cur - 1
            /\ undoCount' = IF IsBoundary(edits[2]) THEN undoCount - 1
                                                    ELSE undoCount
       ELSE UNCHANGED undoVars
  /\ UNCHANGED <<fb, maxUndo, noEdit, dirty, lastFileStat, disk, clock>>

\* Mutant of PruneStep: the last step is kept, and the loop not left, whatever
\* maxundo says.
PruneStepKeepsLast ==
  /\ pc = "prune"
  /\ IF undoCount > maxUndo
       THEN /\ pc' = pc
            /\ IF cur > 2
                 THEN /\ edits'     = Tail(edits)
                      /\ cur'       = cur - 1
                      /\ undoCount' = IF IsBoundary(edits[2])
                                        THEN undoCount - 1 ELSE undoCount
                 ELSE UNCHANGED undoVars
       ELSE pc' = "fetched" /\ UNCHANGED undoVars
  /\ UNCHANGED <<fb, maxUndo, noEdit, dirty, lastFileStat, disk, clock>>

\* One test of UndoInsBoundary's while: Undo_RmvOneEdOp_fNextIsBoundary(false)
\* drops the oldest record while there are more undo steps than maxundo.
PruneStep ==
  /\ pc = "prune"
  /\ IF undoCount > maxUndo
       THEN /\ edits'     = Tail(edits)
            /\ cur'       = cur - 1
            /\ undoCount' = IF IsBoundary(edits[2]) THEN undoCount - 1
                                                    ELSE undoCount
            /\ pc' = pc
       ELSE pc' = "fetched" /\ UNCHANGED undoVars
  /\ UNCHANGED <<fb, maxUndo, noEdit, dirty, lastFileStat, disk, clock>>
-----------------------------------------------------------------------------
\* Code that edits runs in a command, or between two graphic commands, which
\* the loop does not separate; a no-edit buffer refuses it (FBUF::CantModify,
\* and BadParamIf in PutLineRaw).
Running == pc \in {"loop", "fetched"}
MayEdit == Running /\ ~noEdit

\* FBUF::PutLineRaw: grow the array, then UndoIns_EditLine.  A second edit of
\* the line the newest record already covers adds no record.
PutLine(y, c) ==
  LET wide  == LineInfoReserve(fb, y + 1)
      grown == IF fb.lineCount < y + 1 THEN SetLineCount(wide, y + 1) ELSE fb
  IN  /\ MayEdit
      /\ y <= LastLine(fb) => c # fb.li[y]
      /\ dirty' = TRUE
      /\ fb' = [grown EXCEPT !.li[y] = c]
      /\ IF IsAltContentOfLine(Newest, y)
           THEN UNCHANGED undoVars
           ELSE /\ ListHasRoom
                /\ AddEdit(AltLine(grown.lineCount, y, grown.li[y]))
      /\ pc' = "loop"
      /\ UNCHANGED <<maxUndo, noEdit, lastFileStat, disk, clock>>

\* FBUF::InsBlankLinesBefore: InsertLines__ with its undo record.
InsBlankLinesBefore(y, n) ==
  /\ MayEdit
  /\ n > 0
  /\ fb' = InsertLines(fb, y, n)
  /\ IF fb.lineCount <= y
       THEN UNCHANGED <<dirty, undoVars>>
       ELSE /\ fb.lineCount + n <= MaxLine + 1
            /\ ListHasRoom
            /\ dirty' = TRUE
            /\ AddEdit(RangeInsert(fb.lineCount, y, n))
  /\ pc' = "loop"
  /\ UNCHANGED <<maxUndo, noEdit, lastFileStat, disk, clock>>

\* FBUF::DelLines: DeleteLines__ with its undo record.
DelLines(first, lastAsked) ==
  LET last == IF lastAsked > LastLine(fb) THEN LastLine(fb) ELSE lastAsked
      n    == last - first + 1
  IN  /\ MayEdit
      /\ first <= LastLine(fb) /\ first <= lastAsked
      /\ ListHasRoom
      /\ dirty' = TRUE
      /\ AddEdit(RangeDelete(fb.lineCount, first, n, Slice(fb, first, n), TRUE))
      /\ fb' = DeleteLines(fb, first, lastAsked)
      /\ pc' = "loop"
      /\ UNCHANGED <<maxUndo, noEdit, lastFileStat, disk, clock>>
-----------------------------------------------------------------------------
\* EdOpAltLineContent::swapContent exchanges the line and the line count with
\* the record's.
SwapIn(f, er)  == [f EXCEPT !.li[er.line] = er.li, !.lineCount = er.count]
SwapOut(f, er) == AltLine(f.lineCount, er.line, f.li[er.line])

\* EditRec::VUndo of record er on store f: the store, and the record, after it.
\* A delete opens a hole and exchanges the hole's entries with its own.
Undone(f, er) ==
  CASE er.kind = "boundary" -> f
    [] er.kind = "alt" -> SwapIn(f, er)
    [] er.kind = "ins" ->
         SetLineCount(DeleteLines(f, er.first, er.first + er.n - 1), er.count)
    [] er.kind = "del" ->
         SetLineCount(Overlay(InsertLines(f, er.first, er.n), er.first, er.saved),
                      er.count)
UndoneRec(f, er) ==
  CASE er.kind = "alt" -> SwapOut(f, er)
    [] er.kind = "del" ->
         RangeDelete(er.count, er.first, er.n,
                     Slice(InsertLines(f, er.first, er.n), er.first, er.n), FALSE)
    [] OTHER -> er

\* EditRec::VRedo of record er on store f, likewise.  A delete exchanges the
\* entries first and deletes them then.
Redone(f, er) ==
  CASE er.kind = "boundary" -> f
    [] er.kind = "alt" -> SwapIn(f, er)
    [] er.kind = "ins" ->
         SetLineCount(InsertLines(f, er.first, er.n), er.count + er.n)
    [] er.kind = "del" ->
         SetLineCount(DeleteLines(Overlay(f, er.first, er.saved),
                                  er.first, er.first + er.n - 1),
                      er.count - er.n)
\* Mutant of RedoneRec: the redone delete is not marked applied.
RedoneRecUnmarked(f, er) ==
  CASE er.kind = "alt" -> SwapOut(f, er)
    [] er.kind = "del" ->
         RangeDelete(er.count, er.first, er.n, Slice(f, er.first, er.n), FALSE)
    [] OTHER -> er
RedoneRec(f, er) ==
  CASE er.kind = "alt" -> SwapOut(f, er)
    [] er.kind = "del" ->
         RangeDelete(er.count, er.first, er.n, Slice(f, er.first, er.n), TRUE)
    [] OTHER -> er

\* InsertLines__ and DeleteLines__ mark the buffer dirty unless they return
\* early; an alt record and a boundary do not.
InsertDirties(f, er) == er.first < f.lineCount /\ er.n > 0
DeleteDirties(f, er) == er.first < f.lineCount /\ er.n > 0
UndoDirties(f, er) ==
  \/ er.kind = "del" /\ InsertDirties(f, er)
  \/ er.kind = "ins" /\ DeleteDirties(f, er)
RedoDirties(f, er) ==
  \/ er.kind = "ins" /\ InsertDirties(f, er)
  \/ er.kind = "del" /\ DeleteDirties(f, er)

\* FBUF::AnythingToUndoRedo
AnythingToUndo == cur > 1
AnythingToRedo == cur < Len(edits)

\* Mutant of StartWalk: a walk that starts where no boundary was put.
StartWalkUnsealed(way) ==
  /\ Running
  /\ pc' = way
  /\ UNCHANGED <<fb, edits, cur, undoCount, maxUndo, noEdit, dirty, lastFileStat,
                 disk, clock>>

\* ARG::undo and ARG::redo: Undo_UserStep_UndoOrRedo up to its loop.  The
\* command loop has just put a boundary under cur (or the buffer is no-edit),
\* so the second UndoInsBoundary only updates it.
StartWalk(way) ==
  /\ pc = "fetched"
  /\ pc' = way
  /\ edits' = IF noEdit \/ ~IsBoundary(edits[cur]) THEN edits
              ELSE [edits EXCEPT ![cur] = Boundary(dirty, lastFileStat)]
  /\ UNCHANGED <<fb, cur, undoCount, maxUndo, noEdit, dirty, lastFileStat, disk,
                 clock>>
UserUndo == AnythingToUndo /\ StartWalk("undo")
UserRedo == AnythingToRedo /\ StartWalk("redo")

\* Mutant of Arrive: the boundary's dirty flag is taken over as it is.
ArriveTrusting(at, dirtied) ==
  LET er == edits'[at]
  IN  /\ cur' = at
      /\ IF IsBoundary(er) THEN pc' = "loop" /\ dirty' = er.dirty
                           ELSE pc' = pc /\ dirty' = (dirty \/ dirtied)

\* Arriving at record at: the loop ends at a boundary, and
\* EdOpBoundary::VUpdtFromBoundary sets or clears the dirty flag.
Arrive(at, dirtied) ==
  LET er == edits'[at]
  IN  /\ cur' = at
      /\ IF IsBoundary(er)
           THEN pc' = "loop" /\ dirty' = (er.dirty \/ er.stat # lastFileStat)
           ELSE pc' = pc /\ dirty' = (dirty \/ dirtied)

\* FBUF::Undo_EdOpUndo
EdOpUndo ==
  /\ pc = "undo"
  /\ fb' = Undone(fb, edits[cur])
  /\ edits' = [edits EXCEPT ![cur] = UndoneRec(fb, @)]
  /\ Arrive(cur - 1, UndoDirties(fb, edits[cur]))
  /\ UNCHANGED <<undoCount, maxUndo, noEdit, lastFileStat, disk, clock>>

\* FBUF::Undo_EdOpRedo
EdOpRedo ==
  /\ pc = "redo"
  /\ fb' = Redone(fb, edits[cur])
  /\ edits' = [edits EXCEPT ![cur] = RedoneRec(fb, @)]
  /\ Arrive(cur + 1, RedoDirties(fb, edits[cur]))
  /\ UNCHANGED <<undoCount, maxUndo, noEdit, lastFileStat, disk, clock>>
-----------------------------------------------------------------------------
\* The "maxundo" switch (switches.cpp); nothing is pruned until the next new
\* boundary.
SetMaxUndo(m) ==
  /\ Running
  /\ maxUndo # m
  /\ maxUndo' = m
  /\ pc' = "loop"
  /\ UNCHANGED <<fb, edits, cur, undoCount, noEdit, dirty, lastFileStat, disk,
                 clock>>

\* Mutant of ToglNoEdit: no boundary is put before the flag is set.
ToglNoEditUnsealed ==
  /\ Running
  /\ noEdit' = ~noEdit
  /\ pc' = "loop"
  /\ UNCHANGED <<fb, edits, cur, undoCount, maxUndo, dirty, lastFileStat, disk,
                 clock>>

\* ARG::noedit with meta: FBUF::ToglNoEdit.
ToglNoEdit ==
  /\ pc = "fetched"
  /\ noEdit' = ~noEdit
  /\ pc' = "loop"
  /\ UNCHANGED <<fb, edits, cur, undoCount, maxUndo, dirty, lastFileStat, disk,
                 clock>>

\* A write of the file by anyone.
FileWritten(lines) ==
  /\ clock < MaxTime
  /\ clock' \in IF TickOnWrite THEN {clock + 1} ELSE {clock, clock + 1}
  /\ disk' = [lines |-> lines,
              stat  |-> [time |-> clock', size |-> SizeOf(lines)]]

\* FBUF_WriteToDiskOk writes every line, or those up to the last non-blank one
\* and at least an empty one.
WrittenLines ==
  LET doc == DocOf(fb)
  IN  IF TrailLineWrite THEN FileLines(fb)
      ELSE IF doc = <<>> THEN <<Blank>> ELSE doc

\* FBUF::write_to_disk, when it succeeds: UnDirty, SetLastFileStatFromDisk.
\* It is reached from a command, and from WriteAllDirtyFBufs for buffers that
\* do not have the focus.
WriteToDisk ==
  /\ Running
  /\ FileWritten(WrittenLines)
  /\ dirty' = FALSE
  /\ lastFileStat' = disk'.stat
  /\ pc' = "loop"
  /\ UNCHANGED <<fb, edits, cur, undoCount, maxUndo, noEdit>>

\* Another program rewrites the file.
WrittenElsewhere(d) ==
  /\ FileWritten(d)
  /\ UNCHANGED <<pc, fb, edits, cur, undoCount, maxUndo, noEdit, dirty,
                 lastFileStat>>

\* FBUF::SyncNoWrite -> UpdateFromDisk, the file's stat being another one.  A
\* dirty buffer asks; a refused refresh only takes over the stat.
DiskChanged == Running /\ disk.stat # lastFileStat /\ fb.lineCount > 0
DeclineRefresh ==
  /\ DiskChanged
  /\ dirty
  /\ lastFileStat' = disk.stat
  /\ pc' = "loop"
  /\ UNCHANGED <<fb, edits, cur, undoCount, maxUndo, noEdit, dirty, disk, clock>>

\* FBUF::FBufReadOk: MakeEmpty (which restarts the undo list), the lines of
\* the file, ClrNoEdit, SetLastFileStatFromDisk.
ReadFromDisk ==
  /\ DiskChanged
  /\ fb' = StoreOf(disk.lines)
  /\ Undo_Reinit(FALSE)
  /\ noEdit' = FALSE
  /\ dirty' = FALSE
  /\ lastFileStat' = disk.stat
  /\ pc' = "loop"
  /\ UNCHANGED <<maxUndo, disk, clock>>
-----------------------------------------------------------------------------
\* A buffer just read from its file.
Init ==
  /\ pc = "loop"
  /\ \E d \in InitDocs :
       /\ fb = StoreOf(d)
       /\ disk = [lines |-> d, stat |-> [time |-> 1, size |-> SizeOf(d)]]
  /\ edits = <<Boundary(FALSE, NoStat)>>
  /\ cur = 1
  /\ undoCount = 0
  /\ maxUndo \in MaxUndoValues
  /\ noEdit = FALSE
  /\ dirty = FALSE
  /\ lastFileStat = disk.stat
  /\ clock = 1

Edit ==
  \/ \E y \in 0 .. MaxLine, c \in Content : PutLine(y, c)
  \/ \E y \in 0 .. MaxLine, n \in 1 .. MaxInsert : InsBlankLinesBefore(y, n)
  \/ \E first \in 0 .. MaxLine, last \in 0 .. MaxLine : DelLines(first, last)

Command ==
  \/ UserUndo
  \/ UserRedo
  \/ ToglNoEdit
  \/ \E m \in MaxUndoValues : SetMaxUndo(m)

Walk == EdOpUndo \/ EdOpRedo

OtherSync ==
  \/ WriteToDisk
  \/ \E d \in ForeignDocs : WrittenElsewhere(d)
  \/ DeclineRefresh

Next ==
  \/ UndoInsBoundary
  \/ PruneStep
  \/ Edit
  \/ Command
  \/ Walk
  \/ OtherSync
  \/ ReadFromDisk

Spec == Init /\ [][Next]_vars

\* The walking and pruning loops are plain sequential code: once entered, the
\* main thread keeps executing them.
Fairness == WF_vars(PruneStep) /\ WF_vars(Walk)
FairSpec == Spec /\ Fairness
-----------------------------------------------------------------------------
\* The type of the state.
IsRecord(er) ==
  \/ er.kind = "boundary" /\ er \in [kind : {"boundary"}, dirty : BOOLEAN,
                                     stat : FileStat]
  \/ er.kind = "alt" /\ er \in [kind : {"alt"}, count : Nat, line : Nat,
                                li : Content]
  \/ er.kind = "ins" /\ er \in [kind : {"ins"}, count : Nat, first : Nat,
                                n : Nat \ {0}]
  \/ /\ er.kind = "del"
     /\ er \in [kind : {"del"}, count : Nat, first : Nat, n : Nat \ {0},
                saved : [0 .. er.n - 1 -> Content], applied : BOOLEAN]

TypeOK ==
  /\ pc \in {"loop", "prune", "fetched", "undo", "redo"}
  /\ IsStore(fb)
  /\ DOMAIN edits = 1 .. Len(edits)
  /\ \A k \in 1 .. Len(edits) : IsRecord(edits[k])
  /\ cur \in 1 .. Len(edits)
  /\ undoCount \in Nat
  /\ maxUndo \in Nat
  /\ noEdit \in BOOLEAN
  /\ dirty \in BOOLEAN
  /\ lastFileStat \in FileStat
  /\ disk.stat \in FileStat
  /\ clock \in Nat

\* The walks of Undo_EdOpUndo and Undo_EdOpRedo dereference the record they
\* step to, and so does the pruning loop: none of them is ever at the end of
\* the list it is walking towards (fbuf_undo.cpp:583-593, 457).
WalkStaysInList ==
  /\ pc = "undo"  => cur > 1
  /\ pc = "redo"  => cur < Len(edits)
  /\ pc = "prune" => (undoCount > maxUndo => Len(edits) > 1 /\ cur > 1)

\* Whatever was undone and may be redone ends in a boundary, so that an edit,
\* which looks at the newest record and not at the current one to coalesce
\* with, never writes into an undone record (fbuf_undo.cpp:522).
UndoneTailIsSealed ==
  cur < Len(edits) => IsBoundary(Newest)

\* The records at or below the current one are applied to the buffer and
\* those above are not: the two Asserts of EdOpLineRangeDelete never fire.
Applied(k) == IF pc = "redo" THEN k < cur \/ (k = cur /\ IsBoundary(edits[k]))
                             ELSE k <= cur
DeletionsOwnTheirLines ==
  \A k \in 1 .. Len(edits) :
    edits[k].kind = "del" => (edits[k].applied <=> Applied(k))

\* Every array index an undo or a redo will use is inside the allocation it
\* will find, which later edits may reallocate but never shrink.
RecordsFit ==
  \A k \in 1 .. Len(edits) :
    LET er == edits[k]
    IN  /\ er.kind = "alt" => er.line < fb.capacity /\ er.count <= fb.capacity
        /\ er.kind = "ins" => er.count + er.n <= fb.capacity
        /\ er.kind = "del" => /\ er.first + er.n <= er.count
                              /\ er.count <= fb.capacity

\* No line content waits in the array beyond the last line, where a later
\* growth of d_LineCount would bring it to the screen, and a reallocation would
\* drop it (FBUF::LineInfoReserve copies LineCount() entries only).
NoLinesBeyondEof == BlankBeyondEof(fb)

\* d_UndoCount, the count pruning goes by, is the number of boundaries after the
\* oldest record, whatever was coalesced, discarded with the undone tail, pruned
\* and reread before: a count that is too high frees records the user may still
\* undo, in the end the current one (fbuf_undo.cpp:496-498, 553-557).
UndoCountIsBoundaries ==
  undoCount = Cardinality(BoundariesIn(edits, 2, Len(edits)))

\* Outside the pruning loop the oldest record is a boundary: pruning, which frees
\* one record at a time, has left no part of a command behind that an undo could
\* take back without the rest, and no undo can run off the old end
\* (fbuf_undo.cpp:457-470, 554-558).
OldestIsBoundary == pc # "prune" => IsBoundary(edits[1])

\* The user's position is sealed by a boundary wherever undo, redo or the
\* no-edit toggle may begin, and while the list is pruned behind it: no edit of
\* an earlier command is ever left open below a walk (macro.cpp:353,
\* fbuf_undo.cpp:546-560, 603-612).
SealedWhereWalksBegin ==
  /\ pc = "fetched" \/ (pc = "loop" /\ noEdit) => IsBoundary(edits[cur])
  /\ pc = "undo" /\ IsTip => IsBoundary(Newest)
  /\ pc = "prune" => /\ IsTip /\ IsBoundary(Newest)
                     /\ ~noEdit
                     /\ IsBoundary(edits[1]) \/ undoCount > maxUndo

\* A buffer that is not dirty, and whose file has the stat the buffer knows,
\* holds what the file holds: the dirty flag is saved in each boundary and
\* restored by undo and redo across saves, refreshes and refused refreshes
\* (ed_core.h:1069-1070).
CleanMatchesDisk ==
  Running /\ ~dirty /\ lastFileStat = disk.stat
    => DocOf(fb) = Document(disk.lines)

\* An undo or a redo, and the pruning before a command, come to an end: the
\* walk meets a boundary whatever was discarded and pruned before.
LoopsEnd == pc \in {"undo", "redo", "prune"} ~> pc \in {"loop", "fetched"}
=============================================================================
