------------------------------- MODULE CmdIdx -------------------------------
(***************************************************************************)
(* The command index and the key table: cmdidx.cpp, with DefineMacro and    *)
(* record of macro.cpp, Initialize of rsrc.cpp and the reloading of the     *)
(* Lua functions in lua_intf.cpp, which add and remove commands.            *)
(*                                                                          *)
(* Intrinsic functions are in a static table (g_CmdTable). Macros and Lua   *)
(* functions are heap objects in a tree sorted by name (s_CmdIdxAddins)     *)
(* that is searched first, so a Lua function may shadow an intrinsic one.   *)
(* The key table (s_Key2CmdTbl) and record's s_pCmdRecordMacro hold bare    *)
(* pointers to either, which every addition and removal has to correct.     *)
(*                                                                          *)
(* A pointer is a record of the name the command had and the block of       *)
(* memory it is at; block 0 is the static table. An allocation takes a      *)
(* block nobody points at: reusing one would only hide a stale pointer.     *)
(***************************************************************************)
EXTENDS Integers, SequencesExt

Tree == INSTANCE OrderedIndex   \* what the red-black tree promises

CONSTANTS
  Names,       \* names of commands: numbers, in the order of the tree
  Builtins,    \* those in g_CmdTable
  Unassigned,  \* the intrinsic function of keys without one
  CurFile,     \* the macro ReinitializeMacros defines (four alike in the code)
  Playback,    \* the macro record defines by default
  Keys,
  RsrcFiles,   \* sequences of statements [op, name, key] a settings section may hold
  LuaFiles     \* sequences of [name, key] a script may register; key NoKey for none

ASSUME CmdIdxConstants ==
  /\ Names \subseteq Nat \ {0}
  /\ Builtins \subseteq Names
  /\ Unassigned \in Builtins
  /\ {CurFile, Playback} \subseteq Names \ Builtins

Nil == Tree!Nil  \* no name: the head of the tree, or an unset pointer's name
NoKey == "none"
Blocks == 1..4   \* more than the pointers that can be stale at once
Pointer(n, b) == [name |-> n, at |-> b]
NullPtr == Pointer(Nil, 0)
pCMD_unassigned == Pointer(Unassigned, 0)

VARIABLES
  index,     \* [addins |-> name -> [at, func], keys |-> key -> pointer]
  recorded,  \* s_pCmdRecordMacro
  recording, \* g_fMacroRecordingActive
  defining   \* the name <record>'s definition begins with
vars == <<index, recorded, recording, defining>>

-----------------------------------------------------------------------------
(* Lookup *)

Addins(ix) == DOMAIN ix.addins
CmdFromNameBuiltinOnly(n) == IF n \in Builtins THEN Pointer(n, 0) ELSE NullPtr
CmdFromName(ix, n) ==
  IF n \in Addins(ix) THEN Pointer(n, ix.addins[n].at) ELSE CmdFromNameBuiltinOnly(n)

Live(ix, p) ==
  \/ p.at = 0 /\ p.name \in Builtins
  \/ p.at # 0 /\ p = CmdFromName(ix, p.name)
IsRealMacro(ix, p) == p.at # 0 /\ p.name \in Addins(ix) /\ ix.addins[p.name].func = "macro"

(* Addition and removal *)

AssignSubstituteCmd(keys, old, new) == [k \in Keys |-> IF keys[k] = old THEN new ELSE keys[k]]

Fresh(ix, n) ==
  CHOOSE b \in Blocks : Pointer(n, b) \notin {ix.keys[k] : k \in Keys} \cup {recorded}

\* A new command, or a new function for the addin of this name; the keys of
\* an intrinsic function of the name get it.
BlockOf(ix, n) == IF n \in Addins(ix) THEN ix.addins[n].at ELSE Fresh(ix, n)
WithAddin(ix, n, func) == (n :> [at |-> BlockOf(ix, n), func |-> func]) @@ ix.addins

cmdIdxAddUnseen(ix, n, func) == [ix EXCEPT !.addins = WithAddin(ix, n, func)]
cmdIdxAdd(ix, n, func) ==
  [addins |-> WithAddin(ix, n, func),
   keys |-> IF n \in Builtins
            THEN AssignSubstituteCmd(ix.keys, Pointer(n, 0), Pointer(n, BlockOf(ix, n)))
            ELSE ix.keys]

DeleteCmdUnassigning(ix, n) ==
  [addins |-> [m \in Addins(ix) \ {n} |-> ix.addins[m]],
   keys |-> AssignSubstituteCmd(ix.keys, Pointer(n, ix.addins[n].at), pCMD_unassigned)]

\* The keys of a command that goes revert to the intrinsic function it shadowed.
DeleteCmd(ix, n) ==
  [addins |-> [m \in Addins(ix) \ {n} |-> ix.addins[m]],
   keys |-> AssignSubstituteCmd(ix.keys, Pointer(n, ix.addins[n].at),
              IF n \in Builtins THEN Pointer(n, 0) ELSE pCMD_unassigned)]

rb_first(ix) == Tree!LeastOf(Addins(ix))
rb_next(ix, n) == IF n = Nil THEN Nil ELSE Tree!NextOf(Addins(ix), n)

\* The traversal of CmdIdxRmvCmdsByFunction. A removal steps back to the last
\* node that was kept, or to the new first node when none was, and the loop's
\* increment then passes over that one.
RECURSIVE RmvFrom(_, _, _, _)
RmvFrom(ix, n, prev, func) ==
  IF n = Nil THEN ix
  ELSE IF ix.addins[n].func # func THEN RmvFrom(ix, rb_next(ix, n), n, func)
  ELSE LET left == DeleteCmd(ix, n)
           back == IF prev = Nil THEN rb_first(left) ELSE prev
       IN  RmvFrom(left, rb_next(left, back), prev, func)
CmdIdxRmvCmdsByFunction(ix, func) == RmvFrom(ix, rb_first(ix), Nil, func)

UnbindMacrosFromKeys(ix) ==
  [ix EXCEPT !.keys = [k \in Keys |-> IF IsRealMacro(ix, ix.keys[k]) THEN pCMD_unassigned ELSE ix.keys[k]]]

(* Statements *)

\* An existing macro keeps its command and gets the new text; any other
\* command refuses.
DefineMacro(ix, n) == IF CmdFromName(ix, n) = NullPtr THEN cmdIdxAdd(ix, n, "macro") ELSE ix

\* A name that is no command's is a switch's, which changes nothing here.
BindKeyToCMD(ix, n, k) ==
  IF CmdFromName(ix, n) = NullPtr THEN ix ELSE [ix EXCEPT !.keys[k] = CmdFromName(ix, n)]

AssignStrOk(ix, s) ==
  IF s.op = "define" THEN DefineMacro(ix, s.name) ELSE BindKeyToCMD(ix, s.name, s.key)

AssignAll(ix, file) == FoldLeft(AssignStrOk, ix, file)

ReinitializeMacros(ix, erase, file) ==
  LET kept == IF erase THEN CmdIdxRmvCmdsByFunction(UnbindMacrosFromKeys(ix), "macro") ELSE ix
  IN  AssignAll(DefineMacro(kept, CurFile), file)

\* k.luaedit's RegisterLuaEdFxn, for each function a script has queued.
RegisterLuaEdFxn(ix, f) ==
  LET added == cmdIdxAdd(ix, f.name, "lua")
  IN  IF f.key = NoKey THEN added ELSE BindKeyToCMD(added, f.name, f.key)
RegisterAllLuaEdFxns(ix, file) == FoldLeft(RegisterLuaEdFxn, ix, file)

-----------------------------------------------------------------------------
(* Main loads the Lua functions before the settings. *)
Init ==
  /\ recorded = NullPtr /\ recording = FALSE /\ defining = Nil
  /\ \E lua \in LuaFiles, rsrc \in RsrcFiles, keys \in [Keys -> {Pointer(n, 0) : n \in Builtins}] :
       index = ReinitializeMacros(
                 RegisterAllLuaEdFxns([addins |-> <<>>, keys |-> keys], lua), FALSE, rsrc)

Change(ix) == index' = ix /\ UNCHANGED <<recorded, recording, defining>>

Assign(s) == Change(AssignStrOk(index, s))
Initialize(file) == Change(ReinitializeMacros(index, TRUE, file))
InitializeSection(file) == Change(AssignAll(index, file))

\* The functions of the old state go when the new script has run; the new
\* ones are registered after that.
LuaReload(file) ==
  Change(RegisterAllLuaEdFxns(CmdIdxRmvCmdsByFunction(index, "lua"), file))

\* A script that does not run has its own state cleaned up, and that cleanup
\* removes whatever Lua functions there are: those of the state that stays.
LuaReloadFails == Change(CmdIdxRmvCmdsByFunction(index, "lua"))

\* The name the last recording had; a pointer whose command is gone reads
\* freed memory, and the name is anything.
RecordedNames ==
  IF recorded = NullPtr THEN {Playback}
  ELSE IF Live(index, recorded) THEN {recorded.name} ELSE Names

\* A definition line is put into <record> unless the recording is appended
\* to the last one (append, without a name).
StartRecord(n, append) ==
  /\ ~recording /\ recording' = TRUE
  /\ index' = DefineMacro(index, n)
  /\ recorded' = CmdFromName(index', n)
  /\ defining' = IF append THEN defining ELSE n

RecordByName == \E n \in Names : StartRecord(n, FALSE)
RecordAgain == \E n \in RecordedNames, append \in BOOLEAN : StartRecord(n, append)

\* The lines of <record> are assigned: they define its macro, or fail to.
StopRecord ==
  /\ recording /\ recording' = FALSE
  /\ index' = IF defining = Nil THEN index ELSE DefineMacro(index, defining)
  /\ UNCHANGED <<recorded, defining>>

Next ==
  \/ \E s \in UNION {ToSet(f) : f \in RsrcFiles} : Assign(s)
  \/ \E file \in RsrcFiles : Initialize(file)
  \/ \E file \in RsrcFiles : InitializeSection(file)
  \/ \E file \in LuaFiles : LuaReload(file)
  \/ LuaReloadFails
  \/ RecordByName
  \/ RecordAgain
  \/ StopRecord

Spec == Init /\ [][Next]_vars

-----------------------------------------------------------------------------
(* The bare pointers of the key table follow the index: a key always runs    *)
(* the command its command's name stands for now, never a command that is    *)
(* freed and never an intrinsic function a Lua function has taken over.      *)
KeysFollowNames == \A k \in Keys : index.keys[k] = CmdFromName(index, index.keys[k].name)

(* An intrinsic function comes back: a key on which there is a command of an *)
(* intrinsic function's name is not left unassigned, however many times Lua  *)
(* functions of that name are loaded, reloaded, lost in a failed reload, or  *)
(* settings reread (DeleteCmd's "revert to builtin CMD of same name").       *)
IntrinsicsComeBack ==
  [][\A k \in Keys :
       index.keys[k].name \in Builtins \ {Unassigned} => index'.keys[k] # pCMD_unassigned]_vars

=============================================================================
