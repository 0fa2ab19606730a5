--------------------------- MODULE SaveFileProofs ---------------------------
(***************************************************************************)
(* What a save promises, for every set of names, number of versions, clock *)
(* and choice of faults.  Everything follows from three facts of a running *)
(* save: its temporary file is whole from the backup step on (TmpWhole),   *)
(* it is gone whenever the save went the direct way (NoTmp), and the old   *)
(* text is under the destination or in its backup (OldKept); and from one  *)
(* of all the files: no name in .kbackup is taken twice (Stamps).          *)
(***************************************************************************)
EXTENDS SaveFile, TLAPS

USE DEF Exists, MayFail

\* The constants of the type of a file.
LEMMA WrittenIsFile ==
  ASSUME TypeOK
  PROVE  Written \in File /\ Truncated \in File
BY DEF TypeOK, Written, Truncated, File

LEMMA NoFile == None \in FileOrNone /\ None \notin File /\ File \subseteq FileOrNone
BY NoneAssumption DEF FileOrNone

LEMMA UnlinkedType ==
  ASSUME NEW f \in FileOrNone
  PROVE  Unlinked(f) \subseteq FileOrNone
BY NoFile DEF Unlinked

\* The initial state has the types.
LEMMA InitTyped == Init => TypeOK
<1> SUFFICES ASSUME Init PROVE TypeOK OBVIOUS
<1> USE SaveAssumption, NoFile
<1>1. 0 .. MaxTime # {} /\ 1 \in 0 .. MaxTime /\ 0 \in 0 .. MaxTime OBVIOUS
<1>2. disk \in [Names -> FileOrNone] /\ buf \in Nat
  <2>1. PICK ver \in {0, 1} :
          /\ buf = ver
          /\ disk = [n \in Names |->
                       IF n = name THEN [ver |-> ver, whole |-> TRUE, time |-> 1]
                                   ELSE None]
    BY DEF Init
  <2>2. ver \in Nat /\ [ver |-> ver, whole |-> TRUE, time |-> 1] \in File
    BY <1>1 DEF File
  <2> QED BY <2>1, <2>2
<1>3. mode \in {"none", "bak", "undel"}
  BY DEF Init
<1>4. /\ tmp \in [Names -> FileOrNone] /\ bak \in [Names -> FileOrNone]
      /\ kept \in [Names -> [0 .. MaxTime -> FileOrNone]]
  BY DEF Init
<1>5. top \in Nat /\ clock \in 0 .. MaxTime
  BY <1>1 DEF Init
<1> QED BY <1>2, <1>3, <1>4, <1>5 DEF Init, TypeOK

\* The steps of a save keep the types.
LEMMA SaveStepTyped ==
  ASSUME TypeOK, SaveStep
  PROVE  TypeOK'
<1> USE NoFile, WrittenIsFile, UnlinkedType, SaveAssumption
<1>g. ASSUME GiveUp PROVE tmp' \in [Names -> FileOrNone] /\ pc' = "failed"
  BY <1>g DEF GiveUp, TypeOK
<1>s. ASSUME Saved
      PROVE  /\ tmp' \in [Names -> FileOrNone] /\ pc' = "saved" /\ name' \in Names
             /\ dirty' = FALSE /\ buf' \in Nat /\ top' \in Nat /\ mode' = mode
  BY <1>s DEF Saved, TypeOK
<1>1. CASE OpenTmp   BY <1>1 DEF OpenTmp, TypeOK, userVars
<1>2. CASE WriteTmp  BY <1>2 DEF WriteTmp, TypeOK, userVars
<1>3. CASE OpenDest  BY <1>3 DEF OpenDest, TypeOK, userVars
<1>4. CASE WriteDest BY <1>4 DEF WriteDest, TypeOK, userVars
<1>5. CASE NoBackup  BY <1>5 DEF NoBackup, TypeOK, userVars, diskVars
<1>6. CASE CantStat  BY <1>6, <1>g DEF CantStat, TypeOK, userVars
<1>7. CASE BackupBak BY ZenonT(30), <1>7 DEF BackupBak, TypeOK, userVars
<1>8. CASE CopyBak   BY ZenonT(30), <1>8, <1>g DEF CopyBak, TypeOK, userVars
<1>9. CASE BackupUndel
  <2>1. disk[dest] \in File /\ disk[dest].time \in 0 .. MaxTime
    BY <1>9 DEF BackupUndel, TypeOK, FileOrNone, File
  <2>2. [kept EXCEPT ![dest][disk[dest].time] = disk[dest]]
          \in [Names -> [0 .. MaxTime -> FileOrNone]]
    BY <2>1 DEF TypeOK
  <2> QED BY ZenonT(30), <1>9, <1>g, <2>2 DEF BackupUndel, TypeOK, userVars
<1>10. CASE BackupNone BY <1>10, <1>g DEF BackupNone, TypeOK, userVars
<1>11. CASE RenameTmp  BY <1>11, <1>s DEF RenameTmp, TypeOK, userVars
<1>12. CASE CopyNew    BY <1>12, <1>g, <1>s DEF CopyNew, TypeOK, userVars
<1> QED BY <1>1, <1>2, <1>3, <1>4, <1>5, <1>6, <1>7, <1>8, <1>9, <1>10,
           <1>11, <1>12 DEF SaveStep

\* So do the steps of the user, of other programs and of a crash.
LEMMA StepTyped ==
  ASSUME TypeOK, [Next]_vars
  PROVE  TypeOK'
<1> USE NoFile, SaveAssumption
<1>1. CASE SaveStep BY <1>1, SaveStepTyped
<1>2. CASE EditText BY <1>2 DEF EditText, TypeOK, diskVars
<1>3. CASE SetUserInterrupt
  BY <1>3 DEF SetUserInterrupt, TypeOK, userVars, diskVars
<1>4. CASE ClrExecutionHaltRequest
  BY <1>4 DEF ClrExecutionHaltRequest, TypeOK, userVars, diskVars
<1>5. CASE Crash BY <1>5 DEF Crash, TypeOK, userVars, diskVars
<1>6. ASSUME NEW n \in Names, WriteToDisk(n) PROVE TypeOK'
  <2>1. clock' \in 0 .. MaxTime /\ disk[n] \in FileOrNone
    BY <1>6 DEF WriteToDisk, TypeOK
  <2> QED BY <1>6, <2>1 DEF WriteToDisk, TypeOK, userVars, diskVars
<1>7. ASSUME NEW n \in Names, Restart(n) PROVE TypeOK'
  <2>1. CASE ~Exists(disk[n])
    <3>1. [ver |-> 0, whole |-> TRUE, time |-> clock] \in File
      BY DEF TypeOK, File
    <3>2. /\ disk' = [disk EXCEPT ![n] = [ver |-> 0, whole |-> TRUE, time |-> clock]]
          /\ buf' = 0 /\ top' = top
      BY <1>7, <2>1 DEF Restart
    <3>3. disk' \in [Names -> FileOrNone] /\ buf' \in Nat /\ top' \in Nat
      BY <3>1, <3>2 DEF TypeOK
    <3> QED BY <1>7, <3>3 DEF Restart, TypeOK
  <2>2. CASE Exists(disk[n])
    <3>1. disk[n] \in File BY <2>2 DEF TypeOK, FileOrNone
    <3>2. disk[n].ver \in Nat BY <3>1 DEF File
    <3>3. ASSUME NEW v \in Nat
          PROVE  [disk EXCEPT ![n].ver = v, ![n].whole = TRUE]
                   \in [Names -> FileOrNone]
      BY <3>1 DEF TypeOK, File
    <3>4. top + 1 \in Nat BY DEF TypeOK
    <3>5. CASE disk' = disk
      <4>1. disk' \in [Names -> FileOrNone] BY <3>5 DEF TypeOK
      <4>2. buf' \in Nat /\ top' \in Nat
        BY <1>7, <2>2, <3>2, <3>4 DEF Restart, TypeOK
      <4> QED BY <1>7, <4>1, <4>2 DEF Restart, TypeOK
    <3>6. CASE ~disk[n].whole
      <4>1. top' = top + 1 /\ buf' = top'
            /\ disk' = [disk EXCEPT ![n].ver = top', ![n].whole = TRUE]
        BY <1>7, <2>2, <3>6 DEF Restart
      <4>2. disk' \in [Names -> FileOrNone] BY <4>1, <3>3, <3>4
      <4> QED BY <1>7, <4>1, <4>2, <3>4 DEF Restart, TypeOK
    <3>7. disk[n].whole => disk' = disk
      BY <1>7, <2>2 DEF Restart
    <3> QED BY <3>5, <3>6, <3>7
  <2> QED BY <2>1, <2>2
<1>8. ASSUME NEW n \in Names, WrittenElsewhere(n) PROVE TypeOK'
  <2>1. clock' \in 0 .. MaxTime /\ top' \in Nat
    BY <1>8 DEF WrittenElsewhere, TypeOK
  <2>2. [ver |-> top', whole |-> TRUE, time |-> clock'] \in File
    BY <2>1 DEF File
  <2>3. disk' \in [Names -> FileOrNone]
    BY <1>8, <2>2 DEF WrittenElsewhere, TypeOK
  <2> QED BY <1>8, <2>1, <2>3 DEF WrittenElsewhere, TypeOK
<1>9. ASSUME NEW n \in Names, RemovedElsewhere(n) PROVE TypeOK'
  BY <1>9 DEF RemovedElsewhere, TypeOK, userVars
<1>10. CASE UNCHANGED vars BY <1>10 DEF vars, TypeOK, userVars, diskVars
<1> QED BY <1>1, <1>2, <1>3, <1>4, <1>5, <1>6, <1>7, <1>8, <1>9, <1>10 DEF Next

\* Every reachable state has the types of TypeOK.
THEOREM TypeCorrect == Spec => []TypeOK
<1>1. Init => TypeOK BY InitTyped
<1>2. TypeOK /\ [Next]_vars => TypeOK' BY StepTyped
<1> QED BY <1>1, <1>2, PTL DEF Spec
-----------------------------------------------------------------------------
\* From the backup step on the temporary file holds the whole text.
TmpWhole ==
  pc \in {"backup", "copyBak", "rename", "copyNew"} => IsBuf(tmp[dest])

WholeInv == TypeOK /\ TmpWhole /\ SavedIsOnDisk

\* A step of a save keeps the temporary file whole and what is saved on disk.
LEMMA SaveStepWhole ==
  ASSUME WholeInv, SaveStep
  PROVE  TmpWhole' /\ SavedIsOnDisk'
<1> USE DEF WholeInv, TmpWhole, SavedIsOnDisk, IsBuf
<1>w. Written # None /\ Written.whole /\ Written.ver = buf
  BY WrittenIsFile, NoFile DEF Written, WholeInv
<1>1. CASE OpenTmp BY <1>1 DEF OpenTmp
<1>2. CASE WriteTmp
  <2>1. CASE pc' = "backup"
    <3>1. tmp' = [tmp EXCEPT ![dest] = Written] BY <1>2, <2>1 DEF WriteTmp
    <3>2. tmp'[dest] = Written BY <3>1 DEF TypeOK
    <3> QED BY <1>2, <2>1, <3>2, <1>w DEF WriteTmp, userVars
  <2> QED BY <1>2, <2>1 DEF WriteTmp
<1>3. CASE OpenDest BY <1>3 DEF OpenDest
<1>4. CASE WriteDest
  <2>1. CASE pc' = "saved"
    <3>1. disk' = [disk EXCEPT ![dest] = Written] BY <1>4, <2>1 DEF WriteDest
    <3>2. disk'[dest] = Written BY <3>1 DEF TypeOK
    <3> QED BY <1>4, <2>1, <3>2, <1>w DEF WriteDest, userVars
  <2> QED BY <1>4, <2>1 DEF WriteDest
<1>5. CASE NoBackup BY <1>5 DEF NoBackup, userVars, diskVars
<1>6. CASE CantStat BY <1>6 DEF CantStat, GiveUp
<1>7. CASE BackupBak BY <1>7 DEF BackupBak, userVars
<1>8. CASE CopyBak BY <1>8 DEF CopyBak, GiveUp, userVars
<1>9. CASE BackupUndel BY <1>9 DEF BackupUndel, GiveUp, userVars
<1>10. CASE BackupNone BY <1>10 DEF BackupNone, GiveUp, userVars
<1>11. CASE RenameTmp
  <2>1. CASE pc' = "saved"
    <3>1. disk' = [disk EXCEPT ![dest] = tmp[dest]]
      BY <1>11, <2>1 DEF RenameTmp
    <3>2. disk'[dest] = tmp[dest] BY <3>1 DEF TypeOK
    <3>3. dest' = dest /\ buf' = buf BY <1>11, <2>1 DEF RenameTmp, Saved
    <3> QED BY <1>11, <2>1, <3>2, <3>3 DEF RenameTmp
  <2> QED BY <1>11, <2>1 DEF RenameTmp, Saved, userVars
<1>12. CASE CopyNew
  <2>1. CASE pc' = "saved"
    <3>1. disk' = [disk EXCEPT ![dest] = Written]
      BY <1>12, <2>1 DEF CopyNew, GiveUp
    <3>2. disk'[dest] = Written BY <3>1 DEF TypeOK
    <3>3. dest' = dest /\ buf' = buf BY <1>12, <2>1 DEF CopyNew, Saved, userVars
    <3> QED BY <2>1, <3>2, <3>3, <1>w
  <2> QED BY <1>12, <2>1 DEF CopyNew, Saved, GiveUp
<1> QED BY <1>1, <1>2, <1>3, <1>4, <1>5, <1>6, <1>7, <1>8, <1>9, <1>10,
           <1>11, <1>12 DEF SaveStep

\* A step that is not one of a save starts one, returns to idle, or leaves pc
\* and the files alone.
LEMMA OtherStep ==
  ASSUME [Next]_vars, ~SaveStep
  PROVE  /\ \/ pc' \in {"idle", "dead"}
            \/ pc' = "openTmp" /\ Idle /\ \E n \in Names : WriteToDisk(n)
            \/ pc' = pc /\ UNCHANGED <<dest, before, userVars, diskVars>>
         /\ faults' = faults
BY DEF Next, vars, EditText, SetUserInterrupt, ClrExecutionHaltRequest, Crash,
       WriteToDisk, Restart, WrittenElsewhere, RemovedElsewhere

\* No step changes what may go wrong.
LEMMA StepFaults ==
  ASSUME [Next]_vars
  PROVE  faults' = faults
<1>1. CASE SaveStep
  BY <1>1 DEF SaveStep, OpenTmp, WriteTmp, OpenDest, WriteDest, NoBackup,
     CantStat, BackupBak, CopyBak, BackupUndel, BackupNone, RenameTmp, CopyNew
<1>2. CASE ~SaveStep BY <1>2, OtherStep
<1> QED BY <1>1, <1>2

\* Every step keeps it.
LEMMA StepWhole ==
  ASSUME WholeInv, [Next]_vars
  PROVE  WholeInv'
<1>1. TypeOK' BY StepTyped DEF WholeInv
<1>2. CASE SaveStep BY <1>1, <1>2, SaveStepWhole DEF WholeInv
<1>3. CASE ~SaveStep
  <2>1. TmpWhole' /\ SavedIsOnDisk'
    BY <1>3, OtherStep
       DEF WholeInv, TmpWhole, SavedIsOnDisk, IsBuf, userVars, diskVars
  <2> QED BY <1>1, <2>1 DEF WholeInv
<1> QED BY <1>2, <1>3

\* A save that reports success has put the whole text on disk, whatever goes
\* wrong before (fbuf.cpp:1545-1577).
THEOREM SavedTextIsOnDisk == Spec => []SavedIsOnDisk
<1>1. Init => WholeInv
  BY InitTyped DEF Init, WholeInv, TmpWhole, SavedIsOnDisk
<1>2. WholeInv /\ [Next]_vars => WholeInv' BY StepWhole
<1>3. WholeInv => SavedIsOnDisk BY DEF WholeInv
<1> QED BY <1>1, <1>2, <1>3, PTL DEF Spec
-----------------------------------------------------------------------------
\* A save that takes the direct way, or that has returned, left no temporary
\* file.
NoTmp == pc \in {"openDest", "writeDest", "saved", "failed"} => ~Exists(tmp[dest])

\* Where unlink does not fail, every exit of a save removes the temporary file
\* (fbuf.cpp:1559, 1566, FileWrErr).
THEOREM NoTmpIsLeft == Spec => []NoTmpLeft
<1> DEFINE Inv == TypeOK /\ (~MayFail("unlink") => NoTmp)
<1>1. Init => Inv
  BY InitTyped DEF Init, NoTmp
<1>2. ASSUME Inv, [Next]_vars PROVE Inv'
  <2>1. TypeOK' BY <1>2, StepTyped
  <2> SUFFICES ASSUME ~MayFail("unlink")' PROVE NoTmp' BY <2>1
  <2>n. ~MayFail("unlink") /\ NoTmp
    BY <1>2, StepFaults
  <2>u. ASSUME NEW f PROVE Unlinked(f) = {None} BY <2>n DEF Unlinked
  <2>t. tmp \in [Names -> FileOrNone] /\ dest \in Names BY <1>2 DEF TypeOK
  <2>g. ASSUME GiveUp PROVE tmp'[dest] = None
    BY <2>g, <2>u, <2>t DEF GiveUp
  <2>s. ASSUME Saved PROVE tmp'[dest] = None
    BY <2>s, <2>t DEF Saved
  <2>2. CASE SaveStep
    <3>1. CASE OpenTmp BY <3>1, <2>t DEF OpenTmp, NoTmp
    <3>2. CASE WriteTmp BY <3>2, <2>u, <2>t DEF WriteTmp, NoTmp
    <3>3. CASE OpenDest BY <2>n, <3>3 DEF OpenDest, NoTmp
    <3>4. CASE WriteDest BY <2>n, <3>4 DEF WriteDest, NoTmp
    <3>5. CASE NoBackup BY <3>5 DEF NoBackup, NoTmp
    <3>6. CASE CantStat BY <3>6, <2>g DEF CantStat, NoTmp
    <3>7. CASE BackupBak BY <3>7 DEF BackupBak, NoTmp
    <3>8. CASE CopyBak BY <3>8, <2>g DEF CopyBak, NoTmp
    <3>9. CASE BackupUndel BY <3>9, <2>g DEF BackupUndel, NoTmp
    <3>10. CASE BackupNone BY <3>10, <2>g DEF BackupNone, NoTmp
    <3>11. CASE RenameTmp BY <3>11, <2>s DEF RenameTmp, NoTmp
    <3>12. CASE CopyNew BY <3>12, <2>g, <2>s DEF CopyNew, NoTmp
    <3> QED
      BY <2>2, <3>1, <3>2, <3>3, <3>4, <3>5, <3>6, <3>7, <3>8, <3>9, <3>10,
         <3>11, <3>12 DEF SaveStep
  <2>3. CASE ~SaveStep
    <3> QED BY <1>2, <2>n, <2>3, OtherStep DEF NoTmp, diskVars
  <2> QED BY <2>2, <2>3
<1>3. Inv => NoTmpLeft BY DEF NoTmp, NoTmpLeft
<1> QED BY <1>1, <1>2, <1>3, PTL DEF Spec
-----------------------------------------------------------------------------
\* The old text is under the destination until the backup step is done, and in
\* the backup after it, when there is one.
Backups(n) == {bak[n]} \cup {kept[n][t] : t \in 0 .. MaxTime}
OldKept ==
  /\ halt = FALSE /\ pc \notin {"openDest", "writeDest"}
  /\ pc \in {"openTmp", "writeTmp", "backup", "copyBak"} => disk[dest] = before
  /\ pc = "copyBak" => HasBackup
  /\ pc \in {"rename", "copyNew"} /\ HadText /\ HasBackup
       => before \in Backups(dest)

SurvivalInv == WholeInv /\ (TmpWritable => OldKept) /\ OldOrNewSurvives

\* The new text on disk, under either name, is enough.
LEMMA NewOnDisk ==
  ASSUME IsBuf(disk[dest])' \/ IsBuf(tmp[dest])'
  PROVE  OldOrNewSurvives'
BY DEF OldOrNewSurvives, Copies

\* So no state of a running or successful save loses both texts.
LEMMA RunningSurvives ==
  ASSUME OldKept', WholeInv', pc' \notin {"failed", "dead"}
  PROVE  OldOrNewSurvives'
<1>1. CASE pc' = "idle" BY <1>1 DEF OldOrNewSurvives
<1>2. CASE pc' \in {"openTmp", "writeTmp"}
  BY <1>2 DEF OldKept, OldOrNewSurvives, Copies
<1>3. CASE pc' \in {"backup", "copyBak", "rename", "copyNew"}
  BY <1>3, NewOnDisk DEF WholeInv, TmpWhole
<1>4. CASE pc' = "saved"
  BY <1>4, NewOnDisk DEF WholeInv, SavedIsOnDisk
<1> QED BY <1>1, <1>2, <1>3, <1>4 DEF OldKept, WholeInv, TypeOK

\* The steps of a save, when the temporary file can be written.
LEMMA SaveStepSurvival ==
  ASSUME TmpWritable, SurvivalInv, SaveStep, WholeInv'
  PROVE  OldKept' /\ OldOrNewSurvives'
<1> USE DEF SurvivalInv, OldKept, TmpWritable
<1>t. /\ disk \in [Names -> FileOrNone] /\ bak \in [Names -> FileOrNone]
      /\ kept \in [Names -> [0 .. MaxTime -> FileOrNone]] /\ dest \in Names
  BY DEF WholeInv, TypeOK
<1>r. OldKept' /\ pc' \notin {"failed", "dead"} => OldOrNewSurvives'
  BY RunningSurvives
<1>f. ASSUME disk' = disk, dest' = dest, before' = before,
             pc' = "failed", pc \in {"backup", "copyBak"}, halt' = halt
      PROVE  OldKept' /\ OldOrNewSurvives'
  BY <1>f DEF OldOrNewSurvives, Copies
<1>1. CASE OpenTmp
  <2>1. OldKept' /\ pc' = "writeTmp" BY <1>1 DEF OpenTmp
  <2> QED BY <2>1, <1>r
<1>2. CASE WriteTmp
  <2>1. OldKept' /\ pc' = "backup" BY <1>2 DEF WriteTmp, WriteBroken
  <2> QED BY <2>1, <1>r
<1>3. CASE OpenDest \/ WriteDest BY <1>3 DEF OpenDest, WriteDest
<1>5. CASE NoBackup
  <2>1. OldKept' /\ pc' = "rename"
    BY <1>5 DEF NoBackup, HasBackup, userVars, diskVars
  <2> QED BY <2>1, <1>r
<1>6. CASE CantStat BY <1>6, <1>f DEF CantStat, GiveUp
<1>7. CASE BackupBak
  <2>1. CASE pc' = "rename"
    <3>1. bak'[dest] = before BY <1>7, <2>1, <1>t DEF BackupBak
    <3>2. OldKept' BY <1>7, <2>1, <3>1 DEF BackupBak, Backups
    <3> QED BY <2>1, <3>2, <1>r
  <2>2. CASE pc' = "copyBak"
    <3>1. mode = "bak" BY <1>7 DEF BackupBak, BackupModes
    <3>2. OldKept' BY <1>7, <2>2, <3>1 DEF BackupBak, HasBackup, userVars
    <3> QED BY <2>2, <3>2, <1>r
  <2> QED BY <1>7, <2>1, <2>2 DEF BackupBak
<1>8. CASE CopyBak
  <2>1. CASE pc' = "rename"
    <3>1. bak'[dest] = before BY <1>8, <2>1, <1>t DEF CopyBak, GiveUp
    <3>2. OldKept' BY <1>8, <2>1, <3>1 DEF CopyBak, Backups
    <3> QED BY <2>1, <3>2, <1>r
  <2>2. CASE pc' # "rename" BY <1>8, <2>2, <1>f DEF CopyBak, GiveUp
  <2> QED BY <2>1, <2>2
<1>9. CASE BackupUndel
  <2>1. CASE pc' = "rename"
    <3>1. disk[dest].time \in 0 .. MaxTime
      BY <1>9, <1>t DEF BackupUndel, FileOrNone, File
    <3>e. /\ kept' = [kept EXCEPT ![dest][disk[dest].time] = disk[dest]]
          /\ disk[dest] = before
      BY <1>9, <2>1 DEF BackupUndel, GiveUp
    <3>2. kept'[dest][disk[dest].time] = before
      BY <1>t, <3>1, <3>e
    <3>3. OldKept' BY <1>9, <2>1, <3>1, <3>2 DEF BackupUndel, Backups
    <3> QED BY <2>1, <3>3, <1>r
  <2>2. CASE pc' # "rename" BY <1>9, <2>2, <1>f DEF BackupUndel, GiveUp
  <2> QED BY <2>1, <2>2
<1>10. CASE BackupNone
  <2>1. CASE pc' = "rename"
    <3>1. ~(HadText /\ HasBackup)
      BY <1>10 DEF BackupNone, BackupModes, HadText, HasBackup
    <3>2. OldKept'
      BY <1>10, <2>1, <3>1 DEF BackupNone, HadText, HasBackup, userVars
    <3> QED BY <2>1, <3>2, <1>r
  <2>2. CASE pc' # "rename" BY <1>10, <2>2, <1>f DEF BackupNone, GiveUp
  <2> QED BY <2>1, <2>2
<1>11. CASE RenameTmp
  <2>1. CASE pc' = "saved"
    <3>1. OldKept' BY <1>11, <2>1 DEF RenameTmp, Saved
    <3> QED BY <2>1, <3>1, <1>r
  <2>2. CASE pc' # "saved"
    <3>1. pc = "rename" /\ pc' = "copyNew" /\ halt' = halt
      BY <1>11, <2>2 DEF RenameTmp, Saved
    <3>2. UNCHANGED <<dest, before, bak, kept, name, mode>>
      BY <1>11, <2>2 DEF RenameTmp, Saved, userVars
    <3>3. HadText /\ HasBackup => before \in Backups(dest)
      BY <3>1
    <3>4. OldKept'
      BY <3>1, <3>2, <3>3 DEF HadText, HasBackup, Backups
    <3> QED BY <3>1, <3>4, <1>r
  <2> QED BY <2>1, <2>2
<1>12. CASE CopyNew
  <2>1. CASE pc' = "saved"
    <3>1. OldKept' BY <1>12, <2>1 DEF CopyNew, Saved, GiveUp
    <3> QED BY <2>1, <3>1, <1>r
  <2>2. CASE pc' # "saved"
    <3>1. OldKept' /\ pc' = "failed" BY <1>12, <2>2 DEF CopyNew, Saved, GiveUp
    <3>2. UNCHANGED <<dest, before, bak, kept, name, mode>>
      BY <1>12, <2>2 DEF CopyNew, Saved, userVars
    <3>3. HadText /\ HasBackup => before \in Backups(dest)
      BY <1>12 DEF CopyNew
    <3> QED BY <3>1, <3>2, <3>3
            DEF OldOrNewSurvives, HadText, HasBackup, Backups, Copies
  <2> QED BY <2>1, <2>2
<1> QED BY <1>1, <1>2, <1>3, <1>5, <1>6, <1>7, <1>8, <1>9, <1>10, <1>11,
           <1>12 DEF SaveStep

LEMMA Survival == Spec => []SurvivalInv
<1>1. Init => SurvivalInv
  BY InitTyped DEF Init, SurvivalInv, WholeInv, TmpWhole, SavedIsOnDisk, OldKept,
                   OldOrNewSurvives
<1>2. ASSUME SurvivalInv, [Next]_vars PROVE SurvivalInv'
  <2>1. WholeInv' BY <1>2, StepWhole DEF SurvivalInv
  <2>2. CASE SaveStep
    <3>1. TmpWritable => OldKept' /\ OldOrNewSurvives'
      BY <1>2, <2>1, <2>2, SaveStepSurvival
    <3>2. TmpWritable' <=> TmpWritable BY <1>2, StepFaults DEF TmpWritable
    <3>3. CASE TmpWritable BY <2>1, <3>1, <3>3 DEF SurvivalInv
    <3>4. CASE ~TmpWritable
      BY <2>1, <3>2, <3>4 DEF SurvivalInv, OldOrNewSurvives
    <3> QED BY <3>3, <3>4
  <2>3. CASE ~SaveStep
    <3> SUFFICES ASSUME TmpWritable'
                 PROVE  OldKept' /\ OldOrNewSurvives'
      BY <2>1 DEF SurvivalInv, OldOrNewSurvives
    <3>w. TmpWritable /\ OldKept
      BY <1>2, StepFaults DEF SurvivalInv, TmpWritable
    <3>h. halt' = FALSE
      BY <1>2, <2>3, <3>w DEF TmpWritable, OldKept, Next, vars, EditText, Crash,
         SetUserInterrupt, ClrExecutionHaltRequest, WriteToDisk, Restart,
         WrittenElsewhere, RemovedElsewhere
    <3>1. ASSUME NEW n \in Names, WriteToDisk(n)
          PROVE  OldKept' /\ OldOrNewSurvives'
      <4>1. OldKept' /\ pc' = "openTmp"
        BY <1>2, <3>h, <3>w, <3>1 DEF OldKept, WriteToDisk, diskVars
      <4> QED BY <2>1, <4>1, RunningSurvives
    <3>2. CASE Crash
      <4>1. OldKept' BY <1>2, <3>h, <3>w, <3>2 DEF Crash, OldKept
      <4>2. OldOrNewSurvives'
        BY <1>2, <3>w, <3>2 DEF Crash, Saving, SurvivalInv, OldOrNewSurvives,
           HadText, HasBackup, Copies, IsBuf, userVars, diskVars
      <4> QED BY <4>1, <4>2
    <3>3. CASE pc' = "idle"
      BY <3>h, <3>3 DEF OldKept, OldOrNewSurvives
    <3>4. CASE UNCHANGED <<pc, dest, before, userVars, diskVars>>
      BY <1>2, <3>h, <3>w, <3>4 DEF SurvivalInv, OldKept, OldOrNewSurvives, HadText,
         HasBackup, Copies, Backups, IsBuf, userVars, diskVars
    <3> QED BY <1>2, <2>3, <3>1, <3>2, <3>3, <3>4
            DEF Next, vars, EditText, SetUserInterrupt, ClrExecutionHaltRequest,
                Restart, WrittenElsewhere, RemovedElsewhere
  <2> QED BY <2>2, <2>3
<1> QED BY <1>1, <1>2, PTL DEF Spec

\* When the temporary file can be written, no failing rename, copy, unlink or
\* mkdir and no crash loses both texts (fbuf.cpp:1439-1493, 1556-1568).
THEOREM TextSurvives == Spec => []OldOrNewSurvives
<1>1. SurvivalInv => OldOrNewSurvives BY DEF SurvivalInv
<1> QED BY <1>1, Survival, PTL
-----------------------------------------------------------------------------
\* Files are not stamped in the future; what is in .kbackup is from an earlier
\* second than the present one, and than the file it was made of.
Stamps ==
  /\ \A n \in Names : Exists(disk[n]) => disk[n].time <= clock
  /\ \A n \in Names : \A t \in 0 .. MaxTime : Exists(kept[n][t]) => t < clock
  /\ \A n \in Names : Exists(disk[n]) => ~Exists(kept[n][disk[n].time])

\* The file a save finds is from an earlier second, the one it brings from this.
SaveStamps ==
  /\ pc \in {"openTmp", "writeTmp", "backup", "copyBak"} /\ Exists(disk[dest])
       => disk[dest].time < clock
  /\ pc \in {"backup", "copyBak", "rename", "copyNew"} => tmp[dest].time = clock

\* From the renaming on the old file is out of the way.
OutOfTheWay ==
  /\ pc = "copyBak" => mode = "bak"
  /\ pc \in {"rename", "copyNew"} /\ name # Pseudo /\ Exists(disk[dest])
       => ~disk[dest].whole

StampInv == TypeOK /\ Stamps /\ SaveStamps /\ OutOfTheWay

LEMMA StampsInit == Init => StampInv
<1> SUFFICES ASSUME Init PROVE StampInv OBVIOUS
<1>1. TypeOK BY InitTyped
<1>2. \A n \in Names : Exists(disk[n]) => disk[n].time = 1
  BY DEF Init
<1>3. \A n \in Names : \A t \in 0 .. MaxTime : kept[n][t] = None
  BY DEF Init
<1>4. 1 \in 0 .. MaxTime BY SaveAssumption
<1> QED BY <1>1, <1>2, <1>3, <1>4
        DEF Init, StampInv, Stamps, SaveStamps, OutOfTheWay

\* The functions of the file system, and the times in them.
LEMMA FileTypes ==
  ASSUME TypeOK
  PROVE  /\ dest \in Names /\ clock \in 0 .. MaxTime
         /\ disk \in [Names -> FileOrNone] /\ tmp \in [Names -> FileOrNone]
         /\ kept \in [Names -> [0 .. MaxTime -> FileOrNone]]
         /\ \A n \in Names : Exists(disk[n]) => disk[n].time \in 0 .. MaxTime
         /\ Written.time = clock /\ Truncated.time = clock
         /\ ~Truncated.whole /\ Truncated # None
BY WrittenIsFile, NoFile DEF TypeOK, FileOrNone, File, Written, Truncated

\* A file stamped now, or none, comes under a name.
LEMMA StampNow ==
  ASSUME TypeOK, Stamps, NEW n \in Names, NEW g, g # None => g.time = clock,
         disk' = [disk EXCEPT ![n] = g], clock' = clock, kept' = kept
  PROVE  Stamps'
<1>1. \A m \in Names : disk'[m] = IF m = n THEN g ELSE disk[m]
  BY FileTypes
<1>2. clock \in 0 .. MaxTime /\ clock \in Nat
  BY FileTypes, SaveAssumption
<1>3. ~Exists(kept[n][clock])
  BY <1>2 DEF Stamps
<1> QED BY <1>1, <1>2, <1>3 DEF Stamps

\* The second of which time goes on, and one file may be stamped with it.
LEMMA StampLater ==
  ASSUME TypeOK, Stamps, clock < MaxTime, clock' = clock + 1, kept' = kept,
         \A m \in Names : disk'[m] = disk[m] \/ disk'[m].time = clock'
  PROVE  Stamps'
<1>1. clock \in Nat /\ clock' \in 0 .. MaxTime BY FileTypes, SaveAssumption
<1>2. \A m \in Names : Exists(disk[m]) => disk[m].time \in Nat /\ disk[m].time <= clock
  BY FileTypes, SaveAssumption DEF Stamps
<1>3. \A m \in Names : \A t \in 0 .. MaxTime : Exists(kept[m][t]) => t < clock
  BY DEF Stamps
<1> QED BY <1>1, <1>2, <1>3 DEF Stamps

\* The backup of .kbackup: the file is put away under its own second.
LEMMA StampPutAway ==
  ASSUME TypeOK, Stamps, NEW n \in Names, Exists(disk[n]), disk[n].time < clock,
         kept' = [kept EXCEPT ![n][disk[n].time] = disk[n]],
         disk' = [disk EXCEPT ![n] = None], clock' = clock
  PROVE  /\ Stamps' /\ kept'[n][disk[n].time] = disk[n]
         /\ \A m \in Names : \A t \in 0 .. MaxTime :
              Exists(kept[m][t]) => kept'[m][t] = kept[m][t]
<1> DEFINE d == disk[n].time
<1>1. d \in 0 .. MaxTime /\ d \in Nat
  BY FileTypes, SaveAssumption
<1>2. \A m \in Names : disk'[m] = IF m = n THEN None ELSE disk[m]
  BY FileTypes
<1>3. \A m \in Names : \A t \in 0 .. MaxTime :
        kept'[m][t] = IF m = n /\ t = d THEN disk[n] ELSE kept[m][t]
  BY <1>1, FileTypes
<1>4. ~Exists(kept[n][d])
  BY DEF Stamps
<1>5. \A m \in Names : Exists(disk'[m]) =>
        m # n /\ disk'[m] = disk[m] /\ disk[m].time \in 0 .. MaxTime
  BY <1>2, FileTypes
<1>6. \A m \in Names : \A t \in 0 .. MaxTime : Exists(kept'[m][t]) => t < clock
  BY <1>3 DEF Stamps
<1>7. \A m \in Names : Exists(disk'[m]) =>
        disk'[m].time <= clock /\ ~Exists(kept'[m][disk'[m].time])
  BY <1>3, <1>5 DEF Stamps
<1> HIDE DEF d
<1>8. Stamps'
  BY <1>6, <1>7 DEF Stamps
<1>9. kept'[n][d] = disk[n]
  BY <1>1, <1>3
<1>10. \A m \in Names : \A t \in 0 .. MaxTime :
         Exists(kept[m][t]) => kept'[m][t] = kept[m][t]
  BY <1>3, <1>4
<1> QED
  BY <1>8, <1>9, <1>10 DEF d

\* A save whose backup or rename failed changes no stamp.
LEMMA StampGiveUp ==
  ASSUME StampInv, TypeOK', GiveUp, disk' = disk, kept' = kept, clock' = clock
  PROVE  StampInv'
BY DEF StampInv, Stamps, SaveStamps, OutOfTheWay, GiveUp

\* The steps of a save keep the stamps.
LEMMA SaveStepStamps ==
  ASSUME StampInv, SaveStep, TypeOK'
  PROVE  StampInv'
<1> USE DEF SaveStamps, OutOfTheWay
<1>i. TypeOK /\ Stamps /\ SaveStamps /\ OutOfTheWay
  BY DEF StampInv
<1>t. /\ dest \in Names /\ clock \in 0 .. MaxTime
      /\ disk \in [Names -> FileOrNone] /\ tmp \in [Names -> FileOrNone]
      /\ Written.time = clock /\ Truncated.time = clock
      /\ ~Truncated.whole /\ Truncated # None
  BY <1>i, FileTypes
<1>n. \A g : (g # None => g.time = clock) /\ disk' = [disk EXCEPT ![dest] = g]
               /\ clock' = clock /\ kept' = kept => Stamps' /\ disk'[dest] = g
  BY <1>i, <1>t, StampNow
<1>d. disk' = disk /\ clock' = clock /\ kept' = kept => Stamps'
  BY <1>i DEF Stamps
<1>1. CASE OpenTmp
  BY <1>i, <1>1, <1>d DEF OpenTmp, StampInv
<1>2. CASE WriteTmp
  <2>1. CASE pc' = "backup"
    <3>1. tmp' = [tmp EXCEPT ![dest] = Written]
      BY <1>2, <2>1 DEF WriteTmp
    <3>2. tmp'[dest].time = clock
      BY <3>1, <1>t
    <3> QED
      BY <1>i, <1>2, <2>1, <3>2, <1>d DEF WriteTmp, StampInv
  <2>2. CASE pc' = "openDest"
    BY <1>i, <1>2, <2>2, <1>d DEF WriteTmp, StampInv
  <2> QED BY <1>2, <2>1, <2>2 DEF WriteTmp
<1>3. CASE OpenDest
  <2>1. CASE disk' = disk
    BY <1>3, <2>1, <1>d DEF OpenDest, StampInv
  <2>2. CASE disk' = [disk EXCEPT ![dest] = Truncated]
    BY <1>3, <2>2, <1>n, <1>t DEF OpenDest, StampInv
  <2> QED BY <1>3, <2>1, <2>2 DEF OpenDest
<1>4. CASE WriteDest
  <2>1. PICK g : /\ disk' = [disk EXCEPT ![dest] = g]
                 /\ g \in {Written, None, disk[dest]}
                 /\ g = disk[dest] => disk' = disk
    BY <1>4, <1>t DEF WriteDest, Unlinked
  <2>2. Stamps'
    BY <1>4, <2>1, <1>n, <1>d, <1>t DEF WriteDest
  <2> QED BY <1>4, <2>2 DEF WriteDest, StampInv
<1>5. CASE NoBackup
  BY <1>i, <1>5, <1>d DEF NoBackup, StampInv, userVars, diskVars
<1>6. CASE CantStat
  BY <1>6, StampGiveUp DEF CantStat
<1>7. CASE BackupBak
  <2>m. mode = "bak"
    BY <1>7 DEF BackupBak, BackupModes
  <2>1. CASE pc' = "rename"
    <3>1. disk' = [disk EXCEPT ![dest] = None]
      BY <1>7, <2>1 DEF BackupBak
    <3>2. Stamps' /\ disk'[dest] = None
      BY <1>7, <3>1, <1>n DEF BackupBak
    <3> QED BY <1>i, <1>7, <2>1, <3>2 DEF BackupBak, StampInv
  <2>2. CASE pc' = "copyBak"
    BY <1>i, <1>7, <2>2, <2>m, <1>d DEF BackupBak, StampInv, userVars
  <2> QED BY <1>7, <2>1, <2>2 DEF BackupBak
<1>8. CASE CopyBak
  <2>1. CASE pc' = "rename"
    <3>1. disk' = [disk EXCEPT ![dest] = None]
      BY <1>8, <2>1 DEF CopyBak, GiveUp
    <3>2. Stamps' /\ disk'[dest] = None
      BY <1>8, <3>1, <1>n DEF CopyBak
    <3> QED BY <1>i, <1>8, <2>1, <3>2 DEF CopyBak, GiveUp, StampInv
  <2>2. CASE pc' # "rename"
    BY <1>8, <2>2, StampGiveUp DEF CopyBak
  <2> QED BY <2>1, <2>2
<1>9. CASE BackupUndel
  <2>1. CASE pc' = "rename"
    <3>1. /\ disk' = [disk EXCEPT ![dest] = None]
          /\ kept' = [kept EXCEPT ![dest][disk[dest].time] = disk[dest]]
      BY <1>9, <2>1 DEF BackupUndel, GiveUp
    <3>2. Stamps' /\ disk'[dest] = None
      BY <1>i, <1>9, <1>t, <3>1, StampPutAway DEF BackupUndel
    <3> QED BY <1>i, <1>9, <2>1, <3>2 DEF BackupUndel, StampInv
  <2>2. CASE pc' # "rename"
    BY <1>9, <2>2, StampGiveUp DEF BackupUndel
  <2> QED BY <2>1, <2>2
<1>10. CASE BackupNone
  <2>1. CASE pc' = "rename"
    <3>1. disk' = [disk EXCEPT ![dest] = None]
      BY <1>10, <2>1 DEF BackupNone, GiveUp
    <3>2. Stamps' /\ disk'[dest] = None
      BY <1>10, <3>1, <1>n DEF BackupNone
    <3> QED BY <1>i, <1>10, <2>1, <3>2 DEF BackupNone, StampInv
  <2>2. CASE pc' # "rename"
    BY <1>10, <2>2, StampGiveUp DEF BackupNone
  <2> QED BY <2>1, <2>2
<1>11. CASE RenameTmp
  <2>1. CASE pc' = "saved"
    <3>1. disk' = [disk EXCEPT ![dest] = tmp[dest]] /\ tmp[dest].time = clock
      BY <1>i, <1>11, <2>1 DEF RenameTmp
    <3>2. Stamps'
      BY <1>11, <3>1, <1>n DEF RenameTmp
    <3> QED BY <1>11, <2>1, <3>2 DEF RenameTmp, StampInv
  <2>2. CASE pc' = "copyNew"
    <3>1. disk' = disk \/ disk' = [disk EXCEPT ![dest] = Truncated]
      BY <1>11, <2>2 DEF RenameTmp, Saved
    <3>2. Stamps' /\ (disk' = disk \/ disk'[dest] = Truncated)
      BY <1>11, <3>1, <1>n, <1>d, <1>t DEF RenameTmp
    <3> QED BY <1>i, <1>11, <2>2, <3>2, <1>t DEF RenameTmp, Saved, StampInv, userVars
  <2> QED BY <1>11, <2>1, <2>2 DEF RenameTmp, Saved
<1>12. CASE CopyNew
  <2>1. CASE pc' = "saved" \/ disk' # disk
    <3>1. disk' = [disk EXCEPT ![dest] = Written]
      BY <1>12, <2>1 DEF CopyNew, GiveUp
    <3>2. Stamps'
      BY <1>12, <3>1, <1>n, <1>t DEF CopyNew
    <3> QED BY <1>12, <3>2 DEF CopyNew, GiveUp, Saved, StampInv
  <2>2. CASE pc' # "saved" /\ disk' = disk
    BY <1>12, <2>2, StampGiveUp DEF CopyNew, Saved
  <2> QED BY <2>1, <2>2
<1> QED BY <1>1, <1>2, <1>3, <1>4, <1>5, <1>6, <1>7, <1>8, <1>9, <1>10,
           <1>11, <1>12 DEF SaveStep

\* Between saves: what is written then, or created at a start, is stamped now.
LEMMA OtherStamps ==
  ASSUME TickOnSave, StampInv, [Next]_vars, ~SaveStep, TypeOK'
  PROVE  StampInv'
<1> USE DEF SaveStamps, OutOfTheWay
<1>i. TypeOK /\ Stamps /\ SaveStamps /\ OutOfTheWay
  BY DEF StampInv
<1>t. /\ clock \in 0 .. MaxTime /\ clock \in Nat
      /\ disk \in [Names -> FileOrNone]
  BY <1>i, FileTypes, SaveAssumption
<1>d. disk' = disk /\ clock' = clock /\ kept' = kept => Stamps'
  BY <1>i DEF Stamps
<1>1. CASE EditText
  BY <1>i, <1>1, <1>d DEF EditText, StampInv, diskVars
<1>2. CASE SetUserInterrupt \/ ClrExecutionHaltRequest
  BY <1>i, <1>2, <1>d
     DEF SetUserInterrupt, ClrExecutionHaltRequest, StampInv, userVars, diskVars
<1>3. CASE Crash
  BY <1>i, <1>3, <1>d DEF Crash, StampInv, diskVars
<1>4. CASE UNCHANGED vars
  BY <1>i, <1>4, <1>d DEF vars, StampInv, userVars, diskVars
<1>5. ASSUME NEW n \in Names, WriteToDisk(n) PROVE StampInv'
  <2>1. /\ disk' = disk /\ kept' = kept /\ clock' = clock + 1 /\ clock < MaxTime
        /\ dest' = n /\ pc' = "openTmp"
    BY <1>5 DEF WriteToDisk, diskVars
  <2>2. Stamps'
    BY <1>i, <2>1, StampLater
  <2>3. Exists(disk[n]) => disk[n].time < clock'
    BY <1>i, <1>t, <2>1, FileTypes DEF Stamps
  <2> QED BY <2>1, <2>2, <2>3 DEF StampInv
<1>6. ASSUME NEW n \in Names, WrittenElsewhere(n) PROVE StampInv'
  <2>1. \A m \in Names : disk'[m] = disk[m] \/ disk'[m].time = clock'
    BY <1>6, <1>t DEF WrittenElsewhere
  <2>2. Stamps'
    BY <1>i, <1>6, <2>1, StampLater DEF WrittenElsewhere
  <2> QED BY <1>6, <2>2 DEF WrittenElsewhere, StampInv
<1>7. ASSUME NEW n \in Names, RemovedElsewhere(n) PROVE StampInv'
  <2>1. Stamps'
    BY <1>i, <1>7, StampNow DEF RemovedElsewhere
  <2> QED BY <1>7, <2>1 DEF RemovedElsewhere, StampInv
<1>8. ASSUME NEW n \in Names, Restart(n) PROVE StampInv'
  <2>1. CASE ~Exists(disk[n])
    <3> DEFINE g == [ver |-> 0, whole |-> TRUE, time |-> clock]
    <3>1. disk' = [disk EXCEPT ![n] = g]
      BY <1>8, <2>1 DEF Restart
    <3>2. g.time = clock
      OBVIOUS
    <3> HIDE DEF g
    <3>3. Stamps'
      BY <1>i, <1>8, <3>1, <3>2, StampNow DEF Restart
    <3> QED BY <1>8, <3>3 DEF Restart, StampInv
  <2>2. CASE Exists(disk[n])
    <3>1. disk[n] \in File
      BY <1>t, <2>2 DEF FileOrNone
    <3>2. \A m \in Names : /\ Exists(disk'[m]) => Exists(disk[m])
                           /\ Exists(disk[m]) => disk'[m].time = disk[m].time
      <4>1. CASE disk' = disk
        BY <4>1
      <4>2. CASE disk' = [disk EXCEPT ![n].ver = top', ![n].whole = TRUE]
        BY <1>t, <2>2, <3>1, <4>2 DEF File
      <4> QED BY <1>8, <2>2, <4>1, <4>2 DEF Restart
    <3>3. Stamps'
      BY <1>i, <1>8, <3>2 DEF Restart, Stamps
    <3> QED BY <1>8, <3>3 DEF Restart, StampInv
  <2> QED BY <2>1, <2>2
<1> QED BY <1>1, <1>2, <1>3, <1>4, <1>5, <1>6, <1>7, <1>8 DEF Next

\* A step of a save to .kbackup lets no file go that it does not put there.
LEMMA SaveKeepsOld ==
  ASSUME StampInv, OldKept, TmpWritable, SaveStep, mode = "undel", name # Pseudo
  PROVE  StepKeepsOld
<1> USE DEF SaveStamps, OutOfTheWay
<1>i. TypeOK /\ Stamps /\ SaveStamps /\ OutOfTheWay
  BY DEF StampInv
<1> DEFINE Old == Exists(disk[dest]) /\ disk[dest] = before /\ before.whole /\ before.ver # 0
<1>s. ASSUME kept' = kept, Old => disk' = disk
      PROVE  StepKeepsOld
  BY <1>s DEF StepKeepsOld
<1>1. CASE OpenTmp \/ WriteTmp
  BY <1>1, <1>s DEF OpenTmp, WriteTmp
<1>2. CASE OpenDest \/ WriteDest
  BY <1>2 DEF OldKept, OpenDest, WriteDest
<1>3. CASE NoBackup \/ CantStat
  BY <1>3, <1>s DEF NoBackup, CantStat, diskVars
<1>4. CASE BackupBak \/ CopyBak
  BY <1>i, <1>4, <1>s DEF BackupBak, CopyBak, BackupModes
<1>5. CASE BackupUndel
  <2>1. CASE pc' = "rename"
    <3>1. /\ disk' = [disk EXCEPT ![dest] = None] /\ clock' = clock
          /\ kept' = [kept EXCEPT ![dest][disk[dest].time] = disk[dest]]
          /\ Exists(disk[dest]) /\ disk[dest].time < clock
      BY <1>i, <1>5, <2>1 DEF BackupUndel, GiveUp
    <3>2. /\ kept'[dest][disk[dest].time] = disk[dest]
          /\ \A m \in Names : \A t \in 0 .. MaxTime :
               Exists(kept[m][t]) => kept'[m][t] = kept[m][t]
      BY <1>i, <3>1, StampPutAway DEF TypeOK
    <3> QED BY <3>2 DEF StepKeepsOld
  <2>2. CASE pc' # "rename"
    BY <1>5, <2>2, <1>s DEF BackupUndel
  <2> QED BY <2>1, <2>2
<1>6. CASE BackupNone
  BY <1>6, <1>s DEF BackupNone, BackupModes
<1>7. CASE RenameTmp \/ CopyNew
  BY <1>i, <1>7, <1>s DEF RenameTmp, CopyNew
<1> QED BY <1>1, <1>2, <1>3, <1>4, <1>5, <1>6, <1>7 DEF SaveStep

\* Where no two saves fall into one second, and the temporary file can be
\* written, every file a save replaces is in .kbackup from then on, and none
\* there is ever written over (PreviousIncarnationKept; README.adoc:41,
\* rm_util.cpp, SaveFileMultiGenerationBackup).
THEOREM ReplacedFilesAreKept ==
  ASSUME TickOnSave
  PROVE  Spec => PreviousIncarnationKept
<1>1. Init => StampInv
  BY StampsInit
<1>2. StampInv /\ [Next]_vars => StampInv'
  <2> SUFFICES ASSUME StampInv, [Next]_vars PROVE StampInv' OBVIOUS
  <2>1. TypeOK'
    BY StepTyped DEF StampInv
  <2> QED BY <2>1, SaveStepStamps, OtherStamps
<1>3. StampInv /\ SurvivalInv /\ [Next]_vars => [TmpWritable => StepKeepsOld]_vars
  <2> SUFFICES ASSUME StampInv, SurvivalInv, [Next]_vars, TmpWritable
               PROVE  StepKeepsOld
    OBVIOUS
  <2>1. CASE SaveStep /\ mode = "undel" /\ name # Pseudo
    BY <2>1, SaveKeepsOld DEF SurvivalInv
  <2>2. CASE ~(SaveStep /\ mode = "undel" /\ name # Pseudo)
    BY <2>2 DEF StepKeepsOld
  <2> QED BY <2>1, <2>2
<1> QED BY <1>1, <1>2, <1>3, Survival, PTL DEF Spec, PreviousIncarnationKept
=============================================================================
