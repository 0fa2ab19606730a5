# A TLA+ model of K (k_edit)

K is a single-user text editor: one main thread reads keys, runs editor
functions on line buffers (FBUFs) and draws; a few helper threads run shell
jobs.  This directory holds TLA+ modules of its core, TLC configurations that
check them on small instances, and TLAPS proofs of most of the invariants for
every instance.  Paths are relative to `src/`.

## 1. The system

| component | state it keeps | operations | what makes it correct | module |
|---|---|---|---|---|
| line store (`ed_core.h`, `fbuf_edit.cpp`) | `d_paLineInfo`, its capacity, `d_LineCount` | PutLineRaw, InsertLines__, DeleteLines__, LineInfoReserve | every index is inside the allocation; nothing lives past EOF | LineArray |
| undo/redo (`fbuf_undo.cpp`) | list of EditRec with oldest, current and newest, `d_UndoCount` | add a record or a boundary, prune, undo, redo, restart | undo and redo are exact; walks end, and end in the list; the history is bounded by maxundo | UndoRedo, History, UndoHistory |
| region editing, clipboard (`fbuf_edit.cpp`, `buildexecute.cpp`) | `<clipboard>` and its type, anchor and cursor | delete, copy, insert, paste, type over lines, boxes, streams | no cell moves on the screen but those the command names, whatever the tabs | Regions, PlainText |
| tab and column arithmetic (`fbuf_edit.cpp`, `ed_core.h`) | none | column to index and back, expanding, entabbing | inverse to each other | TabText |
| buffer files (`fbuf.cpp`) | dirty flag, no-edit flag, last known FileStat, name | read, refresh, save, write all dirty buffers | a clean buffer holds what its file holds | UndoRedo, Views |
| save and backup (`fbuf.cpp`, `rm_util.cpp`, `my_fio.cpp`) | temporary file, backup file, destination | write_to_disk, backupOldDiskFile, MoveFileOk | some complete copy of the content exists at every moment | SaveFile |
| command loop, macros, arguments (`macro.cpp`, `buildexecute.cpp`) | macro stack, halt request, "returned from fExecute" flag, collected argument | fetch, execute, push, branch, pop, halt, abort until break, prompt | a nested execution ends at its own break and no other; a halt unwinds everything | CmdLoop |
| command index and keys (`cmdidx.cpp`, `rsrc.cpp`, `lua_intf.cpp`) | tree of macros and Lua functions, key table | define, bind, record, reload, reread | no key points to a command that is gone | CmdIdx |
| windows (`wnd.cpp`) | geometry | split, close, resize | windows are exactly the screen; each keeps its share | Windows |
| views and buffers (`display.cpp`, `wnd.cpp`, `fbuf.cpp`) | view list of each window, file list, current file | open, switch, split, close, forget | the current file is shown; edits are not dropped unasked | Views |
| cursors, scrolling, marks (`cursor.cpp`, `display.cpp`, `mark.cpp`) | cursor, origin, previous and tailing positions, marks | move, scroll, line-shift events, tail, marks | other views keep their lines | Cursors |
| shell jobs (`linux_process.cpp`) | job queue, executor thread, child pid, global variable lock | start, append, kill, reap | jobs run in order and can be killed; nobody waits for ever | ShellJobs |
| red-black tree (`krbtree.cpp`) | nodes | insert, delete, find, walk | ordered map, balanced | RbTree, OrderedIndex |
| terminal input (`kitty_conin.cpp`, `ncurses_conin.cpp`) | decoder state, timeouts | read a key, flush | one key per sequence | KeyCodes, ConIn |
| search, tags, file names, Lua marshalling, console output, Windows | tables, scan positions | scan, look up, draw | | none: section 7 |

How they interact.  The command loop (CmdLoop) calls `UndoInsBoundary` on the
focused buffer and then the command (UndoRedo); a command edits through the
line primitives (LineArray, and Regions for what the lines then hold), which
feed the edit list and tell views and marks about line shifts (Cursors); undo
and redo call the same primitives without recording.  Save and refresh change
the dirty flag and the known FileStat, which boundaries record and undo
restores: this is the hidden coupling between the undo list and the disk.  A
window that closes takes its views along, a buffer without a view goes
(Windows, Views).  Keys come decoded from ConIn, find their command through
CmdIdx, whose tree is RbTree, and go to CmdLoop.  Shell jobs write into buffers
from their own threads under the global variable lock.

Hard behaviours: long histories (undo, edit, redo, save, prune, in any order);
failures half way through a save, and crashes; stale stats; halt requests
inside nested macros; bare pointers to commands; children that do not die;
threads and the one lock; keys cut in pieces; tabs.  The list, line by line, is
under `hazards` in `PROJECT.json`.

## 2. The plan

1. **LineArray, UndoRedo, History, UndoHistory** with their proofs.  *Done.*
2. **SaveFile** with its proofs.  *Done.*
3. **ShellJobs**: no deadlock, no child left, eventual end.  *Checked; its
   safety proved.*
4. **CmdLoop**: runtime macro stack, breaks, halts, nested fExecute.  *Checked;
   its safety proved.*
5. **Windows, Views, Cursors**: geometry, lifetimes, line shifts.  *Checked
   and proved.*
6. **KeyCodes, ConIn**: both escape-sequence decoders.  *Checked.*
7. **RbTree** against **OrderedIndex**; **CmdIdx** on top of such an index.
   *Checked.*
8. **TabText, Regions** against **PlainText**.  *Checked.*

Next: the inverse laws of TabText, which is free of RECURSIVE operators for that purpose.
Further to model: the walking of files by search and replace, the recorder's
text, word wrap, and the clip ring.

## 3. What is modelled

**LineArray** is the array of lines as a record of `li` (a function on the
allocated indices), `capacity` and `lineCount`.  `LineInfoReserve`,
`InsertLines` and `DeleteLines` follow the C++ slot by slot, reallocation and
the clearing of vacated slots included, because what is left beyond EOF becomes
visible when `d_LineCount` grows.  An access outside the allocation is an
evaluation error in TLC, as it would be a wild access in C++.  A line's content
is `Blank` or a member of `Text`.

**UndoRedo** is one buffer.  `edits` is the list from `d_pOldestEdit` to
`d_pNewestEdit`, `cur` is `d_pCurrentEdit`; the records are those of the four
subclasses of `EditRec`.  `pc` names the loop the main thread is in: the
command loop before the boundary (`loop`), the pruning loop of `UndoInsBoundary`
(`prune`), a command about to run (`fetched`), and the walks of an undo or a
redo (`undo`, `redo`), one record per step.

| action | code |
|---|---|
| `UndoInsBoundary`, `PruneStep` | `FetchAndExecuteCMDs`, `FBUF::UndoInsBoundary` and its while |
| `PutLine` | `PutLineRaw`, `UndoIns_EditLine`, with coalescing |
| `InsBlankLinesBefore`, `DelLines` | `InsertLines__`, `DeleteLines__` with undo records |
| `UserUndo`, `UserRedo`, `EdOpUndo`, `EdOpRedo` | `Undo_UserStep_UndoOrRedo` and the virtual VUndo, VRedo, VUpdtFromBoundary |
| `SetMaxUndo`, `ToglNoEdit` | the maxundo switch, `ARG::noedit` |
| `WriteToDisk`, `WrittenElsewhere` | a successful `write_to_disk`; any other program's write |
| `DeclineRefresh`, `ReadFromDisk` | `UpdateFromDisk`, refused or carried out |

An edit may follow an edit without a boundary (two graphic characters in a row,
several primitives in one command), which is what coalescing and multi-record
steps need.  The second boundary, inside an undo command, finds the one the
loop has just put there and only updates it.

**History** says what undo promises with no records at all: committed
documents, a position, the document on the screen; undo and redo move the
position and show exactly the document there.  **UndoHistory** adds a history
variable (the document each boundary was made on) and the refinement mapping.
Documents are compared up to trailing blank lines: the code itself keeps a line
count grown by an undone paste beyond EOF (`fbuf_undo.cpp`, "Design
loose-end"), and a save drops those lines unless told not to.

**SaveFile** is one buffer being saved, any number of times, under its own or
another name.  The file system is four families of files: under each name the
file itself (`disk`), its temporary file (`tmp`, extension `.__k`), its `.bak`
(`bak`), and in `.kbackup` one file per second of modification time (`kept`).  A
file is a version of the text, whole or torn, and a time.  `pc` is the next file
operation of `write_to_disk`, one per step, so that a crash, a user break or a
failure can come between any two:

| action | code |
|---|---|
| `WriteToDisk` | `FBUF::WriteToDisk`, `SaveToDiskByName`, the saves of a dirty file |
| `OpenTmp`, `WriteTmp` | `FBUF_WriteToDiskOk` of the temporary file, `FileWrErr` |
| `OpenDest`, `WriteDest` | the "last chance": the same on the destination itself |
| `NoBackup`, `CantStat`, `BackupBak`, `CopyBak`, `BackupUndel`, `BackupNone` | `backupOldDiskFile`, `SaveFileMultiGenerationBackup`, `MoveFileOk` with its copying fallback |
| `RenameTmp`, `CopyNew` | `MoveFileOk` to the destination, `ChangeName`, `UnDirty` |
| `SetUserInterrupt`, `ClrExecutionHaltRequest` | the halt flag, set from the console's thread, cleared by the command loop |
| `EditText`, `WrittenElsewhere`, `RemovedElsewhere`, `Crash`, `Restart` | the user, other programs, the end of the process and the next start |

`faults` says which of these may go wrong: `halt` (user break), `full` (no
space), `dir` (the directory or file refuses to be opened for writing),
`rename`, `unlink`, `mkdir`, `copy`, `crash`, `removed` (by another program).
The module stands for the POSIX build; on Windows the `.bak` file is unlinked
before the rename and a read-only destination is asked about.

**ShellJobs** is the executor of one buffer on Linux with three kinds of actors:
the main thread (`main`), which holds the lock but while it waits for a key or
for the worker; the worker thread (`worker`), whose steps that log need the lock;
and the children.  `pid` is `d_pid`, which the worker publishes after the fork
and takes back before it waits for the child (`reaping`), and which the stopper
reads twice around its prompt.

| action | code |
|---|---|
| `WaitForKey`, `GotKey` | `GetEdKC_Ascii`, which passes the lock |
| `Restart` | `StartInternalShellJob`, `InternalShellJobExecutor::Restart` |
| `CloseBuffer`, `GiveUpLock`, `Join`, `DestroyExecutor`, `Destroyed` | `FBUF::~FBUF`, `StopInternalShellJobExecutor`, the executor's destructor |
| `DeleteAllEnqueuedJobs`, `ReadPid`, `Confirm`, `Recheck` | `KillAllJobsInBkgndProcessQueue` |
| `SignalTerm`, `AfterSleep`, `SignalKill` | `TerminateProcessGroup` |
| `TakeJob`, `JobStatus`, `AfterJob`, `Report`, `ThreadExit` | `ThreadFxnRunAllJobs`, `CreateProcess_piped` |
| `EchoCommand`, `LogLine`, `LogTail` | `PutLastLogLine`, under the lock |
| `Fork`, `Publish` | `ForkChildOk` |
| `ReadLine`, `ReadEof` | `TPipeReader`, `piped_forker::Read` |
| `CloseAndForgetPid`, `Reaped`, `HangUp`, `Terminate`, `Kill` | `ReapChild`, `WaitForChildUntil` |
| `PrintLine`, `CloseOutput`, `Exit` | the programs |

**CmdLoop** is the command loop.  The C++ call stack is `frames` (loops of
`FetchAndExecuteCMDs`, fExecutes, ARG::arg, the text prompt, commands), the
place in the innermost of them is `pc`, and the macro stack is `stk`.  A macro
text is a sequence of tokens; string literals are modelled by where they open
and close, because a label is looked for in the quotation the branch stands in.

| action | code |
|---|---|
| `ReadKey`, `ReadMacro`, `StopReading` | `CMD_reader::GetNextCMD_ExpandAnyMacros` with pushes, pops at a break, branches (`Branch`), literal characters, unknown names and `AbortUntilBreak` |
| `LoopFetches`, `LoopExecutes`, `LoopEnds`, `CleanupHalt` | `FetchAndExecuteCMDs`, `CleanupAnyExecutionHaltRequest` |
| `ArgReads`, `TextReads` | the loops of `ARG::arg` and `GetTextargString` |
| `FExecute`, `CommandReturns` | `fExecute`, and the end of a command, which may fail, refuse or ask for a halt |

**Windows** is the geometry half of `wnd.cpp`: `SplitCurWnd`, `CloseWnd` with the
merging of a neighbour, `NextWindow`, and `ScreenSizeChanged` with the rounded
shares of `d_size_pct`: `NewSizes` are the shares of the `Room` between the
borders, `Left` is where a window ends when those behind it have theirs (`ulc`).
`ulc` and `delta` are unsigned, so the first window takes what is left whether
that is more or less than its share (`NewSize`), and its corner never moves.
The screens are assumed to have a line and a column for each of `MAX_WINDOWS`,
so that the room is not negative, where the code's division, which rounds
towards zero, would part from `\div`.  On screens of some 300 columns, split nine
times, what is left can be negative; a state without `HasRoom` is reached and not
followed further, because drawing a window of negative width throws.  **Views** is the other half, with the life of an FBUF:
`Startup` (state file), `ChangeFile`, `OpenFileNotDir`, `SplitCurWnd`, `CloseWnd`
with its questions, `NextWindow`, `ForgetCurrent`, `ForgetByName`, `Edit`,
`WriteToDisk`, and `Outside`, by which files and directories come and go.  Each
action is the whole handler: whatever ends with a view gone goes through
`Settle`, the search for a file that can be shown instead.  `StateFile` is the
loop that writes the state file, and `StateFileIsMostRecent` compares it with the
visits that were made.

**Cursors** gives every line an identity (`doc`), so that what a cursor points
at can be followed.  `MoveCursor` and `ScrollOriginY` are `View::MoveCursor_` and
`ScrollOrigin_Y_Abs_`; `ScrollByPages`, `ScrollToPrev`, `InsertLines`,
`DeleteLines`, `PutLastLine` (a log line with tailing), `SwitchWindow`, `Resize`,
`DefineMark`, `DeleteMark`, `MarkGoto` are the handlers named so.

**RbTree** has the nodes of `krbtree.cpp` as a heap of records, with leaves that
form a ring and internal nodes that know their nearest leaves.  `Enter` and
`Remove` are `rb_insert_gen` and `rb_delete_node` with their rotations; the
asserts of the deletion set `failed`.  **OrderedIndex** is what it answers: a set
of numbers, and the least of them that is not below a key.

**KeyCodes** holds the tables and pure parts of both decoders (CSI, CSI-u, `~`
and letter sequences, modifiers, 7-bit Alt), **ConIn** the reading.  `wire`, `tty`
and `got` are the bytes under way, arrived and read in the present sequence; a
byte carries the key press it comes from, so that a property can say which key
was heard.  The kitty backend's actions are `FirstByte`, `SecondByte`, `CsiByte`
and their encounters with a resize; the ncurses backend's are `SlurpByte`,
`SlurpResize`, `SlurpEnds`.  The terminal (`KeyPressed`, `Arrive`,
`WindowResized`) is external, and sends what the kitty protocol and xterm send
for the keys in `Presses`.

**CmdIdx** has the tree of added commands, the key table and the recorder's
pointer, all holding *pointers*: a name and the block of memory it was at.
A block is used again after a free, so a stale pointer may look live under
another name.  `Assign`, `Initialize`, `InitializeSection` read settings,
`LuaReload` and `LuaReloadFails` replace the scripts, `RecordByName`,
`RecordAgain` and `StopRecord` record.

**TabText** is the arithmetic of tabs as functions on sequences of characters:
columns and indices with the cached starting place, expansion, the three ways of
writing blanks as tabs, trimming.  **Regions** has one buffer and `<clipboard>`,
with the functions FillArgStruct and the conversions between kinds of arguments,
the primitives (`PutLineEntab`, `DelBox`, `DelStream`, `CopyLines`, `CopyBox`,
`CopyStream`) and twelve commands:

| action | code |
|---|---|
| `Sdelete`, `Ldelete`, `Udelete` | `ARG::sdelete`, `ldelete`, `udelete` with `PCVF_delete_*` and `DelChar` |
| `CopyRegion`, `Paste` | `ARG::copy`, `ARG::paste` |
| `Sinsert`, `Linsert`, `Emacsnewl` | `ARG::sinsert`, `linsert`, `emacsnewl` |
| `Graphic`, `Surround` | `ARG::graphic`: a character typed, or quotes put around a selection |
| `Cdelete`, `Emacscdel` | `DeletePrevChar` |

Each is called without an argument or with a selection between any two points,
in box mode or not, with meta or a second arg.  An exception nothing catches is
`thrown`, after which nothing happens.  **PlainText** is the abstract
specification: the screen as a grid of cells, without tabs; a command's promise
is a relation between two grids.

## 4. The runs

| run | question | instance | distinct states |
|---|---|---|---|
| `undo_history` | do undo and redo implement History; does the list keep its shape; is a clean buffer the file? | 2 lines, 4 records and a boundary, maxundo 2, 1 later write by anyone | 1.5 M |
| `undo_array` | indices in records, contents past EOF; does the list start with a boundary when maxundo changes; do the loops end (liveness)? | 2 lines, spare room 1 entry, insertions of 2 lines, 3 records, maxundo 0 or 1, 1 later write by anyone | 577 k |
| `save` | do both texts ever get lost; is a reported save on disk, the temporary file gone, every replaced file in `.kbackup`? | 2 names, all backup modes, every fault but `unlink`, or `rename copy unlink mkdir crash removed`; 2 new versions | 3.5 M |
| `shell` | children and threads left behind, the kill prompt, closing a buffer, ends of batches (liveness) | 3 jobs in batches of one or two, one line each | 238 k |
| `cmdloop` | is anything left over when macros end early, overflow or are halted? | 8 macros, 6 scripts that fExecute, stack of 3, 7 keys | 20 k |
| `windows` | are the windows exactly the screen, can each be closed, does each keep its share of one that shrinks? | 3 screens of up to three windows, least size 10, cuts anywhere | 38 k |
| `views` | which file is current, shown, remembered; which edits go? | 2 files, 2 windows, 3 seconds | 110 k |
| `cursors` | do views keep their lines while another edits? | 3 lines, 2 windows, a resize | 114 k |
| `rbtree` | balance, asserts, order | 11 keys in every order | 22 k |
| `conin` | which keys are heard? | 12 keys of every kind of sequence, 2 presses, 1 resize, 1 flush, both backends, with and without Num Lock | 4.8 M |
| `cmdidx` | do keys point to what they name? | 5 names around 2 intrinsic functions, 2 keys, 2 settings files, 2 scripts | 28 k |
| `regions` | does each command do to the cells what it promises? | 3 texts with tabs of width 3, 4 entab modes, clipboard of tab width 1; 13 places for anchor and cursor, then a paste at 3 places | 49 k |

Bounds.  `MaxRecs` bounds the records below an edit: 3 or 4 are enough for
undo steps of two records, a discard in the middle of them, and a
prune of the oldest while an undone tail exists.  `MaxLine` bounds the line
edited: with two lines an insertion or deletion can be at the start, at the
last line and past EOF.  `MaxInsert` 2 exercises a hole larger
than the spare room `LineHeadSpace` (50 in the code, 0 or 1 here, so that both
the in-place and the reallocating path are taken).  `MaxTime` bounds the writes
of the file.  `MaxUndoValues` holds 0, the least the switch's unsigned parser
admits.  The type of the list, of indices and of counts is not bounded by any
of these: the proofs cover all values.
In SaveFile `MaxVer` and `MaxTime` bound versions and saves: three versions and
four seconds are a first text, a save, an edit or foreign write, and a second
save that finds what the first one's crash or failure left behind.  Two names
are a save under the own name and one under another's.  `TickOnSave` and
`TickOnWrite` keep two writes out of one second: backups are named by seconds
and stats compared by seconds and size.
In ShellJobs three jobs are a batch of two and one of one, in either order, so
that a buffer is closed, opened again and closed again, each job with any
combination of flags and of deafness to signals.  A pipe holds one line, so that
a program is kept waiting by a worker that is kept waiting by the lock.
In CmdLoop a stack of three is filled by a macro that fExecutes one that opens
an argument, and overflows with one that calls itself; seven keys are enough to
begin an argument, run a script inside it, halt, and begin again.  In RbTree
eleven keys give every case of the deletion, with a red and a black sibling on
either side.  In ConIn two presses are a key and the one typed behind it; the
resize and the flush come anywhere between their bytes.  In Regions three cells
per tab make a point at, between and after stops, and a clipboard whose tabs are
one column wide is the one the code makes.

In Windows three screens give splits in either dimension, a resize that shrinks
or grows the dimension that is shared, and one that changes both; they hold three
windows, the proofs any number.
`KeysAreHeard` names the combinations that kitty's decoder hears as a character
(`TypedAsText`), and two of the presses of `conin` are such.

A run that says `CHECK_DEADLOCK FALSE` has a bound whose end is an end of the
behaviours (keys, seconds, presses, the script of commands), or a state in which
the program has ended (a window of negative width, a window without a view, a
crash).

Fairness.  `undo_array` assumes weak fairness of `PruneStep` and of the walk's
step only: they are `while` loops of the main thread, with no wait in them.
Nothing is assumed of the user, of other programs or of the disk.  `shell`
assumes that the main thread comes back to waiting for a key, that the user
answers the kill prompt, one way or the other, that the worker gets the lock
when it is free again and again, and that every program ends its output, by
ending or by closing it.  It does not assume that a program ends: one that closes
its output and goes on is ended by the escalating signals, and that SIGKILL ends
a process is the model's assumption about the system.  `cmdloop` assumes weak
fairness of the thread while it need not wait for a key (`Step`); a macro that
runs for ever is still a behaviour, which only a halt ends.

## 5. The proofs

`UndoRedoProofs` proves, for every value of the constants that satisfies the
assumptions `BlankAssumption`, `HeadSpaceAssumption`, `BoundsAssumption` and
`DocsAssumption`, that the inductive invariant `IInv` holds in every reachable
state, and from it `TypeOK`, `WalkStaysInList`, `UndoneTailIsSealed`,
`OldestIsBoundary`, `SealedWhereWalksBegin`, `DeletionsOwnTheirLines`,
`RecordsFit` and `UndoCountIsBoundaries`.

Why the invariant looks as it does.  That a walk stays in the list follows from
a boundary ahead of it.  Towards the old end it is the oldest record
(`OldestIsBoundary`), towards the new end the newest (`UndoneTailIsSealed`).
The first survives pruning only because pruning stops on a boundary count:
`UndoCountIsBoundaries` ties `d_UndoCount` to the boundaries really there, and
while the count exceeds maxundo there is another boundary behind the oldest
record (`WalksHaveRoom`).  The second is restored whenever a walk
begins only because a boundary was put under the current record just before
(`SealedWhereWalksBegin`), which in a no-edit buffer, where `UndoInsBoundary`
does nothing, was done by the command that set the flag.  `DeletionsOwnTheirLines`
needs the position of `cur` and the direction of the walk.  `RecordsFit` stands
on the allocation never shrinking.

`UndoRedoProofs` begins with the lemmas about the store (each primitive maps a store
to a store and never lowers the capacity) and about the list (appending,
dropping the oldest, counting boundaries, replacing a record).  The main proof
has one lemma per action and one step per conjunct it disturbs.

Its second part goes on from the shape of the list to what it says.  A *page* is
the text at one point of the history, without its end: a content for each
natural number, blank from some line on.  `Between` ties two neighbouring pages
by what their record has saved, whichever side it has exchanged, and `Replays`
says that there are pages for all records with the store's page at the current
place.  A list of pages cannot be computed from the list of records going one
way only, as a record keeps the text of the other side; it is a witness that
each action hands on, longer or shorter by a page.  From it follow
`NoLinesBeyondEof` and, with the stats of the boundaries, `CleanMatchesDisk`.
The latter has the hypothesis `TickOnWrite` (no two writes of the file in one
second): without it the property fails (section 8).

Its third part proves `HistorySpec => ImplementsHistory`.  To `Replays` it
adds that the snapshot of each boundary is the document of its page (`HInv`).
The mapping speaks of the i-th boundary, so the proof counts boundaries:
committing appends a document and drops those above, pruning drops the first,
and a step of a walk keeps the mapped position until the boundary it was to
reach.  Each action has one lemma, which names the action of History it maps to.

`NumberProofs` holds what the others need of natural numbers: least and greatest
members, induction, the counting of positions in a sequence, shares of a product,
and what a sequence is after others are put in or a stretch is taken out.
Induction is
stated for sets, since the library's form takes an operator as a parameter,
which the provers cannot instantiate; its base is the well-foundedness of finite
subsets.

`SaveFileProofs` proves, from `SaveAssumption` and `NoneAssumption`, `TypeOK`
and four promises of a save, the first three: `SavedIsOnDisk` under every fault, `NoTmpLeft`
where unlink does not fail, and `OldOrNewSurvives` where the temporary file can
be written (no user break, disk not full, directory writable).  The invariant
behind them follows a save through its steps: from the backup on the temporary
file is whole (`TmpWhole`); on the direct way it is gone (`NoTmp`); the old text
is under the destination until the backup step is done and in the backup after
it (`OldKept`).  The fourth, `PreviousIncarnationKept`, needs a fact about all
the files at once (`Stamps`): what is in `.kbackup` under a name is older than
the file that has the name now, because each save and each foreign write comes
in a second of its own (`TickOnSave`) and a restart creates only a file that is
not there.  So no name in `.kbackup` is ever taken twice.  Where these
hypotheses fail the promises fail (section 8).

`ShellJobsProofs` proves, for any number of jobs and lines, `TypeOK` and
`NoWorkerWithoutExecutor` from the states of the two threads in which a worker
exists (`Joined`); and, where no program prints the byte 255 (`~MayPrint255`,
the defect of section 8), `NoChildLeft` and `NoJobStartsInPrompt`.  Behind these
stand that no child lives but that of the job at hand (`OneChild`), whose pid
`d_pid` is (`OnePid`) until it is reaped (`PidHidden`), and that once the stopper
has emptied the queue and read a pid the worker is past its last fork
(`LastJob`).

`CmdLoopProofs` proves, for all macro texts, scripts, outcomes of commands, keys
and stack sizes within `ConstantsOK`, `TypeOK`, `MainNeverReturns` and
`HaltEmptiesStack`.  The invariant is a balance: an fExecute pushes one text that
breaks for the loop it enters, and such a text leaves the stack, by its end, an
abort or a full stack, only to be accounted for by `rtnd` or by the end of such
a loop.  So texts that break, with `rtnd`, never outnumber the loops that wait
for one, and the loop of main, which waits for none, sees neither.

`ViewsProofs` proves, from `ViewsAssumption`, for every finite set of names and
any number of windows, the types of its state, `CurFileIsShown`,
`EditsGoOnlyWhenAsked` and `StateFileIsMostRecent`.  The first two promises rest
on `Settle`, the search that follows the loss of a view: what it makes current it puts at the head of the current window, and
what it forgets on the way can no longer be shown, so it is not reachable.
`StateFileIsMostRecent` needs one more conjunct of the invariant, `Ordered`: every
window lists its views in the order they were last shown, none of them later than
the clock.  It holds because a view comes to the head when it is shown, and taking
views out keeps the order (`NthInOrder`, from the ranks of positions); the clones
of a split have the time 0.  The loop that writes the file has an invariant of
its own, `Merging`: what is left was shown no later than what is saved, what is
saved is the last visit of its file, and a file the windows show is saved or still
to come.  A turn either saves a view or finds all files saved (`TurnKeeps`), so
after as many turns as there are names nothing is missing (`AllSaved`, a pigeonhole).

`CursorsProofs` proves, from `CursorsAssumption`, all three promises of Cursors.
`OthersKeepTheirLines` compares places by the identity of the line, so it needs
that no line is in the buffer twice (`Once`), which is why a deleted line is
nowhere any more.  `CursorArrives` and `TailIsFollowed` are arithmetic:
`MoveCursor_` steps by vscroll or by hike, each at least a line and less than the
window, and the limit that `ScrollOriginAndCursor_` puts on the origin leaves the
line after the last within the window, since a third of its lines and vscroll are
together two or more.  That takes windows of three lines; `MIN_WIN_HEIGHT` is ten.

`WindowsProofs` proves, from `WindowsAssumption`, the three properties of Windows
for any screens, places of cuts, least sizes and numbers of windows, and with them
`WindowsApart`: no two windows share a place.  The invariant says that, as long as
all windows have room (`HasRoom`), they are a row along one dimension, in the order
of `g__.aWindow`, each a border behind the one before (`InRow`), from edge to edge
(`Tiles`), and that their shares are not negative and add up to 100
(`SharesWhole`).  That `SortWinArray` need not move anything is a consequence.
Splitting and closing are one relation read in two directions: two neighbours
against the window they are cut from or merged into (`JoinedAt`), which keeps the
row, the sum of the shares and the edges.  Resizing builds the row from its far
edge (`Moved`): each window ends a border before the one behind it begins, and the
first takes what is left, so the row ends at the near edge whatever the others
took.  That no window of a shrinking screen falls short rests on the sums: a
rounded share is at most the share (`TotalShares`), so the windows behind the
first leave it at least its own.  Where the screen grows each window keeps at
least its old size, the sum can exceed the room, and the argument stops where the
code does.

## 6. Only model-checked

`LoopsEnd`, `StopReturns`, `BatchEnds` and `HaltIsHonoured` are liveness
properties under fairness and outside the prover's reach.  RbTree and CmdIdx are
written with RECURSIVE operators, which it cannot use, so `ColoursBalance`,
`AssertsHold`, `AnswersAsSortedList`, `KeysFollowNames` and `IntrinsicsComeBack`
stay with TLC.  What Regions computes (`ColumnsInvert`, `EditsAsPlainText`) is induction over lines and characters.
`KeysAreHeard`, `DamageIsLocal` and `NoReadHangs` of ConIn speak of the tables of
keys, which have to be enumerated.

## 7. Abstractions, and what is not modelled

- A line is one of a few contents in UndoRedo, an identity in Cursors, and a
  sequence of characters in Regions; encodings are not modelled.
- `write_to_disk` succeeds in UndoRedo: its failures are SaveFile's subject.
  SaveFile leaves out line ends, file modes, the known FileStat, and the new
  buffer made for the global pointer of a saved pseudofile.  Writes reach the
  disk when made: what a lost cache does after a power cut is not modelled, nor
  are the ignored results of fsync and close (`fbuf.cpp:1765`), nor the loop
  over all dirty buffers that ends at the first failure (`fbuf.cpp:633`).
- `.__k` and `.bak` replace the extension, so `foo.cpp` and `foo.h` share them;
  the names of the model do not share theirs.
- ShellJobs does not use a pid again, so the signal that reaches another process
  which was given the number of a reaped child (`linux_process.cpp:181`) is not in
  it.  A child stands for its process group; one that leaves the group and keeps
  the output open is a program that does not end its output.  The idle thread
  takes the lock for a redraw and gives it back; it is left out.  The Windows
  executor, whose queue protocol is similar, is not modelled.
- Undo and redo run in a no-edit buffer, and a direct overwrite leaves a buffer
  dirty: the models do the same, and no property says otherwise.
- A refresh reads the file in the step that looks at its stat; what happens
  between the two (`fbuf.cpp:331`) is left out.
- One buffer, with one view, in UndoRedo; a boundary's saved cursor is left out.
- The no-edit flag is set by `ARG::noedit`; setting it from a script in the
  middle of a command is a hazard of its own, listed as not covered.  Code that
  inserts lines without asking for `CantModify` while the flag is set is not
  modelled.
- CmdLoop runs the texts it is given; what a recording writes is not modelled,
  and CmdIdx has only the names it defines.  A Lua function that calls back into
  the editor runs as any command.
- Cursors has lines only: columns, word movement and `savecur` are left out.
- Regions assumes `softcr` on, no Lua indentation and no C-like file type for the
  indentation of a new line, and word wrap off; text arguments and the ring of
  five older clips (`fbuf_edit.cpp:491`) are left out, as is the adjusting of marks, whose line
  half is in Cursors.
- ConIn leaves out the setting up of the terminal and the reading of terminfo.
- Search and replace are walks over text with a vendored matcher; tags, file
  names, listings, the marshalling of Lua arguments, console output and the
  Windows console keep little state of their own, or are third-party code.
  `components` in `PROJECT.json` gives the reason for each.

## 8. Where the code differs from what it says

Met while modelling.  The models follow the code, and the properties leave out
what does not hold, which their comments say.

- A save on a full disk, or one the user breaks, takes every failure to write
  the temporary file for an unwritable directory: the original is truncated, then
  unlinked, without the backup `README.adoc:41` promises (`fbuf.cpp:1548`).
- The backup step fails when the destination does not exist, so an ordinary file
  cannot be saved under a new name (`fbuf.cpp:1442`, `1799`).
- Two writes of one size in one second look alike to a boundary's clean flag
  (`fbuf.cpp:285`), and the second one's backup replaces the first one's.
- On Linux nothing writes the exit code the worker tests, so a failed job does
  not stop its batch (`linux_process.cpp:388`, `686`).  A byte of value 255 is the
  `char` -1 and ends the reading of a job that goes on; its child is forgotten by
  the next fork (`linux_process.cpp:334`).
- `arg` after an argument that was left unfinished trips an assertion
  (`buildexecute.cpp:1063`).  A label that follows a branch and a quoted string is
  not found (`macro.cpp:232`).
- Inserted lines shift the marks before them and not those after
  (`mark.cpp:81`; `k.luaedit:2696` says that marks are updated).
- A view that gets the focus in a smaller window does not show its cursor
  (`display.cpp:2475`).
- Unsaved edits of a file that has become unreachable are dropped unasked,
  against the comment at `fbuf.cpp:424`.
- Forgetting a file may leave another window without a view, whose head
  `display.cpp:2872` dereferences (`display.cpp:3521`).
- A split may leave a window below the least size.
- A terminal that grows can make the first window smaller than its share
  (`wnd.cpp:119`), against the comment at `wnd.cpp:106`, "grow/shrink all windows
  proportional to their d_size_pct": four windows of 11, 11, 17 and 90 columns with
  9, 10, 13 and 68 per cent become 10, 13, 17 and 90 when 132 columns become 133.
  `ShrinksInProportion` states the comment for screens that shrink.  On screens of some 300 columns, split nine times, the first
  window's size becomes negative, and drawing it throws.
- In the kitty protocol ctrl with a comma, a quote or a backtick types the
  character (`kitty_conin.cpp:438`), though each has a code (`ed_edkc.h:378`, `385`,
  `386`) and `README.adoc:29` speaks of a robust decoding of combinations.  Shift
  with the space bar is a space (`kitty_conin.cpp:255`), so `EdKC_s_space` is never
  heard; that looks meant.
- `initialize` leaves one of two macros in place (`cmdidx.cpp:808`; `rsrc.cpp:204`).
- A stream copied from the end of a line brings one cell too many; from an empty
  line it throws, and nothing catches it (`fbuf_edit.cpp:1554`).
- `arg ldelete` and `arg udelete` copy one blank more than they delete
  (`fbuf_edit.cpp:590`).  `arg linsert` uses an index as a column (`708`), and a
  backspace into a tab puts the cursor where the tab did not begin (`401`).
- The conversion of blanks outside of quotes does not know the single quote,
  whose case breaks off (`189`), and counts a quoted tab as one column (`210`).
- kitty's `flushinp` always answers that nothing was flushed
  (`kitty_conin.cpp:812`).
