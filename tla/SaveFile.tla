------------------------------ MODULE SaveFile ------------------------------
(***************************************************************************)
(* Saving one FBUF to its file, or under a new name: FBUF::WriteToDisk,    *)
(* write_to_disk, FBUF_WriteToDiskOk, backupOldDiskFile (fbuf.cpp),        *)
(* SaveFileMultiGenerationBackup (rm_util.cpp), MoveFileOk (my_fio.cpp).   *)
(*                                                                         *)
(* The file system is four families of files: under each name a file, its  *)
(* temporary (extension .__k), its .bak, and in .kbackup one file for each *)
(* second a file was last written in.  A save takes one file operation per *)
(* step, so that the editor may die, the user break in, or an operation    *)
(* fail between any two.  Which of these may happen is chosen once, from   *)
(* FaultSets.                                                              *)
(***************************************************************************)
EXTENDS Integers

CONSTANTS
  Names,        \* the names of disk files
  Pseudo,       \* the name of a buffer that has no disk file
  None,         \* "no such file"
  Modes,        \* the backup modes in use: "none", "bak", "undel"
  FaultSets,    \* what may go wrong: sets of AllFaults, of which one holds
  MaxVer,       \* bound: the versions of the text that are made
  MaxTime,      \* bound: the last second of the clock
  TickOnSave    \* TRUE: no two saves in one clock second

\* halt: a user break.  full: no space.  dir: the directory refuses new files.
\* rename, unlink, mkdir: these calls fail.  copy: CopyFileManuallyOk fails.
\* crash: the editor dies.  removed: other programs remove files.
AllFaults == {"halt", "full", "dir", "rename", "unlink", "mkdir", "copy",
              "crash", "removed"}

ASSUME SaveAssumption ==
  /\ Pseudo \notin Names
  /\ Modes \subseteq {"none", "bak", "undel"}
  /\ FaultSets \subseteq SUBSET AllFaults
  /\ MaxVer \in Nat /\ MaxTime \in Nat \ {0}
  /\ TickOnSave \in BOOLEAN

\* A version of the text; version 0 is the empty file.  A file that is not
\* whole was truncated and not, or not completely, written.
File == [ver : Nat, whole : BOOLEAN, time : 0 .. MaxTime]
ASSUME NoneAssumption == None \notin File

VARIABLES
  pc,      \* the next step of write_to_disk, or how the last one returned
  name,    \* d_filename
  dest,    \* destFileNm of the running save, or of the last one
  buf,     \* the version the buffer holds
  top,     \* the newest version anywhere
  dirty,   \* d_fDirty
  mode,    \* d_backupMode, or g_iBackupMode
  halt,    \* s_fHaltExecution
  clock,   \* the second files are now written in
  disk, tmp, bak,  \* the files: functions on Names
  kept,    \* .kbackup: a function on Names and on seconds
  faults,  \* what may go wrong
  before   \* history variable: the file the save found under dest

diskVars == <<disk, tmp, bak, kept>>
userVars == <<name, buf, top, dirty, mode>>
vars == <<pc, dest, halt, clock, faults, before, userVars, diskVars>>

Saving == pc \in {"openTmp", "writeTmp", "openDest", "writeDest", "backup",
                  "copyBak", "rename", "copyNew"}
Idle   == pc \in {"idle", "saved", "failed"}

Written    == [ver |-> buf, whole |-> TRUE, time |-> clock]
Truncated  == [ver |-> buf, whole |-> FALSE, time |-> clock]
Exists(f)  == f # None
MayFail(x) == x \in faults
\* What a call of unlinkOk leaves of file f.
Unlinked(f) == IF MayFail("unlink") THEN {None, f} ELSE {None}
-----------------------------------------------------------------------------
\* The user edits; other programs remove a file, or write it, between saves.
EditText ==
  /\ Idle
  /\ top < MaxVer
  /\ top' = top + 1
  /\ buf' = top'
  /\ dirty' = TRUE
  /\ pc' = "idle"
  /\ UNCHANGED <<faults, name, dest, mode, halt, clock, before, diskVars>>

WrittenElsewhere(n) ==
  /\ Idle
  /\ top < MaxVer /\ clock < MaxTime
  /\ top' = top + 1
  /\ clock' = clock + 1
  /\ disk' = [disk EXCEPT ![n] = [ver |-> top', whole |-> TRUE, time |-> clock']]
  /\ pc' = "idle"
  /\ UNCHANGED <<faults, name, dest, buf, dirty, mode, halt, before, tmp, bak, kept>>

RemovedElsewhere(n) ==
  /\ MayFail("removed")
  /\ Idle
  /\ Exists(disk[n])
  /\ disk' = [disk EXCEPT ![n] = None]
  /\ pc' = "idle"
  /\ UNCHANGED <<faults, dest, halt, clock, before, userVars, tmp, bak, kept>>

\* FBUF::WriteToDisk up to write_to_disk.  A file is saved under its own name
\* when dirty (ARG::setfile, SyncWriteIfDirty_Wrote), under another one
\* (SaveToDiskByName) in any case; a pseudofile only under another one.
WriteToDisk(n) ==
  /\ Idle
  /\ n = name => dirty
  /\ clock < MaxTime
  /\ clock' \in IF TickOnSave THEN {clock + 1} ELSE {clock, clock + 1}
  /\ dest' = n
  /\ before' = disk[n]
  /\ pc' = "openTmp"
  /\ UNCHANGED <<faults, halt, userVars, diskVars>>

\* A break of the user; the command loop clears it after the command.
SetUserInterrupt ==
  /\ MayFail("halt")
  /\ Saving
  /\ ~halt
  /\ halt' = TRUE
  /\ UNCHANGED <<faults, pc, dest, clock, before, userVars, diskVars>>
ClrExecutionHaltRequest ==
  /\ Idle
  /\ halt
  /\ halt' = FALSE
  /\ UNCHANGED <<faults, pc, dest, clock, before, userVars, diskVars>>
-----------------------------------------------------------------------------
\* FBUF_WriteToDiskOk of the temporary file: open, truncating or creating.
OpenTmp ==
  /\ pc = "openTmp"
  /\ \/ tmp' = [tmp EXCEPT ![dest] = Truncated] /\ pc' = "writeTmp"
     \/ /\ MayFail("dir") /\ ~Exists(tmp[dest])
        /\ pc' = "openDest"
        /\ UNCHANGED tmp
  /\ UNCHANGED <<faults, dest, halt, clock, before, userVars, disk, bak, kept>>

\* Its lines: FileWrErr closes and unlinks when the user breaks in or the
\* write fails, and write_to_disk turns to the destination itself.
WriteBroken == halt \/ MayFail("full")
WriteTmp ==
  /\ pc = "writeTmp"
  /\ \/ /\ ~halt
        /\ tmp' = [tmp EXCEPT ![dest] = Written]
        /\ pc' = "backup"
     \/ /\ WriteBroken
        /\ \E f \in Unlinked(tmp[dest]) : tmp' = [tmp EXCEPT ![dest] = f]
        /\ pc' = "openDest"
  /\ UNCHANGED <<faults, dest, halt, clock, before, userVars, disk, bak, kept>>

\* "last chance: try overwriting target file directly".
OpenDest ==
  /\ pc = "openDest"
  /\ \/ disk' = [disk EXCEPT ![dest] = Truncated] /\ pc' = "writeDest"
     \/ MayFail("dir") /\ pc' = "failed" /\ UNCHANGED disk
  /\ UNCHANGED <<faults, dest, halt, clock, before, userVars, tmp, bak, kept>>

WriteDest ==
  /\ pc = "writeDest"
  /\ \/ /\ ~halt
        /\ disk' = [disk EXCEPT ![dest] = Written]
        /\ pc' = "saved"
     \/ /\ WriteBroken
        /\ \E f \in Unlinked(disk[dest]) : disk' = [disk EXCEPT ![dest] = f]
        /\ pc' = "failed"
  /\ UNCHANGED <<faults, dest, halt, clock, before, userVars, tmp, bak, kept>>
-----------------------------------------------------------------------------
\* Mutant of GiveUp: the temporary file is left behind.
GiveUpUntidy == pc' = "failed" /\ UNCHANGED tmp

\* A failed backup or rename: the temporary file is unlinked.
GiveUp ==
  /\ pc' = "failed"
  /\ \E f \in Unlinked(tmp[dest]) : tmp' = [tmp EXCEPT ![dest] = f]

\* backupOldDiskFile.  An empty file is not worth a backup; one that is not
\* whole may be empty.
BackupModes ==
  IF disk[dest].whole THEN IF disk[dest].ver = 0 THEN {"none"} ELSE {mode}
                      ELSE {"none", mode}

NoBackup ==
  /\ pc = "backup"
  /\ name = Pseudo
  /\ pc' = "rename"
  /\ UNCHANGED <<faults, dest, halt, clock, before, userVars, diskVars>>

CantStat ==
  /\ pc = "backup" /\ name # Pseudo
  /\ ~Exists(disk[dest])
  /\ GiveUp
  /\ UNCHANGED <<faults, dest, halt, clock, before, userVars, disk, bak, kept>>

\* bkup_BAK: MoveFileOk to the .bak file, which renames or else copies; the
\* copy truncates its target when it can open it.
BackupBak ==
  /\ pc = "backup" /\ name # Pseudo
  /\ Exists(disk[dest]) /\ "bak" \in BackupModes
  /\ \/ /\ bak' = [bak EXCEPT ![dest] = disk[dest]]
        /\ disk' = [disk EXCEPT ![dest] = None]
        /\ pc' = "rename"
     \/ /\ MayFail("rename")
        /\ bak' \in {bak, [bak EXCEPT ![dest] = Truncated]}
        /\ pc' = "copyBak"
        /\ UNCHANGED disk
  /\ UNCHANGED <<faults, dest, halt, clock, before, userVars, tmp, kept>>
\* Mutant of CopyBak: MoveFileOk unlinks its source whether or not it was
\* copied.
CopyBakUnchecked ==
  /\ pc = "copyBak"
  /\ bak' \in {bak, [bak EXCEPT ![dest] = disk[dest]]}
  /\ disk' = [disk EXCEPT ![dest] = None]
  /\ pc' = "rename"
  /\ UNCHANGED <<faults, dest, halt, clock, before, userVars, tmp, kept>>
CopyBak ==
  /\ pc = "copyBak"
  /\ \/ /\ bak' = [bak EXCEPT ![dest] = disk[dest]]
        /\ \/ /\ disk' = [disk EXCEPT ![dest] = None]
              /\ pc' = "rename"
              /\ UNCHANGED tmp
           \/ MayFail("unlink") /\ GiveUp /\ UNCHANGED disk
     \/ MayFail("copy") /\ GiveUp /\ UNCHANGED <<disk, bak>>
  /\ UNCHANGED <<faults, dest, halt, clock, before, userVars, kept>>

\* Mutant of BackupUndel: the backup's name lacks the second.
BackupUndelOneName ==
  /\ pc = "backup" /\ name # Pseudo
  /\ Exists(disk[dest]) /\ "undel" \in BackupModes
  /\ kept' = [kept EXCEPT ![dest][0] = disk[dest]]
  /\ disk' = [disk EXCEPT ![dest] = None]
  /\ pc' = "rename"
  /\ UNCHANGED <<faults, dest, halt, clock, before, userVars, tmp, bak>>
\* bkup_UNDEL: SaveFileMultiGenerationBackup; the unlink after it finds
\* nothing to remove.
BackupUndel ==
  /\ pc = "backup" /\ name # Pseudo
  /\ Exists(disk[dest]) /\ "undel" \in BackupModes
  /\ \/ /\ kept' = [kept EXCEPT ![dest][disk[dest].time] = disk[dest]]
        /\ disk' = [disk EXCEPT ![dest] = None]
        /\ pc' = "rename"
        /\ UNCHANGED tmp
     \/ /\ MayFail("mkdir") \/ MayFail("rename")
        /\ GiveUp
        /\ UNCHANGED <<disk, kept>>
  /\ UNCHANGED <<faults, dest, halt, clock, before, userVars, bak>>

\* bkup_NONE: the file is unlinked.
BackupNone ==
  /\ pc = "backup" /\ name # Pseudo
  /\ Exists(disk[dest]) /\ "none" \in BackupModes
  /\ \/ /\ disk' = [disk EXCEPT ![dest] = None]
        /\ pc' = "rename"
        /\ UNCHANGED tmp
     \/ MayFail("unlink") /\ GiveUp /\ UNCHANGED disk
  /\ UNCHANGED <<faults, dest, halt, clock, before, userVars, bak, kept>>
-----------------------------------------------------------------------------
\* The end of write_to_disk: ChangeName, UnDirty.
Saved ==
  /\ pc' = "saved"
  /\ name' = dest
  /\ dirty' = FALSE
  /\ tmp' = [tmp EXCEPT ![dest] = None]
  /\ UNCHANGED <<buf, top, mode>>

\* MoveFileOk of the temporary file to the destination.
RenameTmp ==
  /\ pc = "rename"
  /\ \/ /\ disk' = [disk EXCEPT ![dest] = tmp[dest]]
        /\ Saved
     \/ /\ MayFail("rename")
        /\ disk' \in {disk, [disk EXCEPT ![dest] = Truncated]}
        /\ pc' = "copyNew"
        /\ UNCHANGED <<userVars, tmp>>
  /\ UNCHANGED <<faults, dest, halt, clock, before, bak, kept>>
\* Mutant of CopyNew: the result of the copy is not looked at.
CopyNewUnchecked ==
  /\ pc = "copyNew"
  /\ disk' \in {disk, [disk EXCEPT ![dest] = Written]}
  /\ Saved
  /\ UNCHANGED <<faults, dest, halt, clock, before, bak, kept>>
CopyNew ==
  /\ pc = "copyNew"
  /\ \/ /\ disk' = [disk EXCEPT ![dest] = Written]
        /\ \/ Saved
           \/ MayFail("unlink") /\ GiveUp /\ UNCHANGED userVars
     \/ MayFail("copy") /\ GiveUp /\ UNCHANGED <<userVars, disk>>
  /\ UNCHANGED <<faults, dest, halt, clock, before, bak, kept>>

\* The editor dies in a save; it is started again on some file, which it
\* creates when it is not there.  A torn file is a text like any other then.
Crash ==
  /\ MayFail("crash")
  /\ Saving
  /\ pc' = "dead"
  /\ halt' = FALSE
  /\ UNCHANGED <<faults, dest, clock, before, userVars, diskVars>>
Restart(n) ==
  /\ pc = "dead"
  /\ pc' = "idle"
  /\ name' = n
  /\ dirty' = FALSE
  /\ IF ~Exists(disk[n])
       THEN /\ disk' = [disk EXCEPT ![n] =
                          [ver |-> 0, whole |-> TRUE, time |-> clock]]
            /\ buf' = 0 /\ UNCHANGED top
     ELSE IF disk[n].whole
       THEN buf' = disk[n].ver /\ UNCHANGED <<top, disk>>
     ELSE /\ top' = top + 1
          /\ buf' = top'
          /\ disk' = [disk EXCEPT ![n].ver = top', ![n].whole = TRUE]
  /\ UNCHANGED <<faults, dest, mode, halt, clock, before, tmp, bak, kept>>
-----------------------------------------------------------------------------
Init ==
  /\ pc = "idle"
  /\ name \in Names \cup {Pseudo}
  /\ dest \in Names
  /\ top = 1
  /\ clock = 1
  /\ \E ver \in {0, 1} :
       /\ buf = ver
       /\ disk = [n \in Names |->
                    IF n = name THEN [ver |-> ver, whole |-> TRUE, time |-> 1]
                                ELSE None]
  /\ dirty = FALSE
  /\ mode \in Modes
  /\ halt = FALSE
  /\ tmp  = [n \in Names |-> None]
  /\ bak  = [n \in Names |-> None]
  /\ kept = [n \in Names |-> [t \in 0 .. MaxTime |-> None]]
  /\ before = None
  /\ faults \in FaultSets

SaveStep ==
  \/ OpenTmp \/ WriteTmp \/ OpenDest \/ WriteDest
  \/ NoBackup \/ CantStat \/ BackupBak \/ CopyBak \/ BackupUndel \/ BackupNone
  \/ RenameTmp \/ CopyNew

Next ==
  \/ SaveStep
  \/ EditText
  \/ SetUserInterrupt \/ ClrExecutionHaltRequest
  \/ Crash
  \/ \E n \in Names : \/ WriteToDisk(n) \/ Restart(n)
                      \/ WrittenElsewhere(n) \/ RemovedElsewhere(n)

Spec == Init /\ [][Next]_vars
-----------------------------------------------------------------------------
FileOrNone == File \cup {None}
TypeOK ==
  /\ pc \in {"idle", "saved", "failed", "dead", "openTmp", "writeTmp", "openDest",
             "writeDest", "backup", "copyBak", "rename", "copyNew"}
  /\ name \in Names \cup {Pseudo}
  /\ dest \in Names
  /\ buf \in Nat /\ top \in Nat /\ clock \in 0 .. MaxTime
  /\ dirty \in BOOLEAN /\ halt \in BOOLEAN
  /\ mode \in {"none", "bak", "undel"}
  /\ disk \in [Names -> FileOrNone]
  /\ tmp \in [Names -> FileOrNone]
  /\ bak \in [Names -> FileOrNone]
  /\ kept \in [Names -> [0 .. MaxTime -> FileOrNone]]
  /\ before \in FileOrNone
  /\ faults \in SUBSET AllFaults

IsBuf(f)  == Exists(f) /\ f.whole /\ f.ver = buf
Copies(n) == {disk[n], tmp[n], bak[n]} \cup {kept[n][t] : t \in 0 .. MaxTime}

\* A save that reports success has put the whole text under the name it was
\* given, whichever of its ways it took (fbuf.cpp:1545-1577).
SavedIsOnDisk == pc = "saved" => IsBuf(disk[dest])

\* Whatever step a save dies or fails in, the text the file held or the text
\* it was to hold is somewhere on disk, whole, as long as the temporary file
\* can be written; only the failed save of a pseudofile or in mode "none",
\* which have no backup, is exempt (fbuf.cpp:1439-1493, 1556-1568).
TmpWritable == faults \cap {"halt", "full", "dir"} = {}
HadText    == Exists(before) /\ before.whole /\ before.ver # 0
HasBackup  == mode # "none" /\ name # Pseudo
OldOrNewSurvives ==
  TmpWritable /\ HadText /\ pc # "idle" /\ (pc = "failed" => HasBackup)
    => \E f \in Copies(dest) : f = before \/ IsBuf(f)

\* A save that returned has left no temporary file, on any of its exits, where
\* unlink does not fail (fbuf.cpp:1559, 1566, FileWrErr).
NoTmpLeft ==
  ~MayFail("unlink") /\ pc \in {"saved", "failed"} => ~Exists(tmp[dest])

\* "Every time a dirty file is saved to disk, the previous incarnation of the
\* file (being overwritten) is moved to .kbackup" (README.adoc:41): no step of
\* a save makes a file disappear that is not in .kbackup from then on.  The
\* code keeps this as long as the temporary file can be written.
StepKeepsOld ==
  mode = "undel" /\ name # Pseudo /\ SaveStep =>
    /\ \A n \in Names, t \in 0 .. MaxTime :
         Exists(kept[n][t]) => kept'[n][t] = kept[n][t]
    /\ Exists(disk[dest]) /\ disk[dest] = before /\ before.whole /\ before.ver # 0
         => disk'[dest] = before \/ kept'[dest][before.time] = before
PreviousIncarnationKept == [][TmpWritable => StepKeepsOld]_vars
=============================================================================
