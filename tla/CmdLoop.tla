------------------------------- MODULE CmdLoop -------------------------------
(***************************************************************************)
(* The command loop of the editor (FetchAndExecuteCMDs), the stack of      *)
(* macro texts it reads commands from (namespace Interpreter), the         *)
(* collection of arguments (ARG::arg, GetTextargString) and fExecute, by   *)
(* which a command runs a macro text before it returns.                    *)
(*                                                                         *)
(* All of it is one thread.  Its C++ call stack is `frames', its place in  *)
(* the innermost function `pc': "head", the top of that function's loop;   *)
(* "next", inside CMD_reader::GetNextCMD_ExpandAnyMacros; "got", with the  *)
(* command that returned.  A macro text is a sequence of tokens: the       *)
(* literal characters of a quoted string, quotes, command names, branches  *)
(* and labels.  A quote inside a literal string (written twice) is not     *)
(* modelled, nor is the recording of macros.                               *)
(***************************************************************************)
EXTENDS Integers, Sequences, FiniteSets, FiniteSetsExt, TLC

CONSTANTS
  Text,      \* macro texts: a function from names to sequences of tokens
  Script,    \* commands that call fExecute: a function from names to sequences of texts
  Keys,      \* the tokens the keyboard can deliver
  Outcome,   \* what a plain command may do: a function from names to sets of outcomes
  MaxNest,   \* MAX_MACRO_NESTING
  MaxKeys,   \* bound: keys the user presses
  MaxArgs    \* bound: the arg count

Outcomes == {"true", "false", "error", "refused"}

Commands == {"graphic", "arg", "lastsel", "last", "cursor", "plain", "script"}
Tokens ==
  [k : Commands \cup {"macro", "label", "quote", "unknown"}, x : STRING]
    \cup [k : {"branch"}, x : {"=", "+", "-"}, l : STRING]

\* A name that is not known is an "unknown" token.
Known(t) ==
  /\ t.k = "macro" => t.x \in DOMAIN Text
  /\ t.k = "script" => t.x \in DOMAIN Script
  /\ t.k \in {"plain", "graphic"} => t.x \in DOMAIN Outcome

ASSUME ConstantsOK ==
  /\ MaxNest \in Nat \ {0} /\ MaxKeys \in Nat /\ MaxArgs \in Nat \ {0}
  /\ \A c \in DOMAIN Outcome : Outcome[c] \subseteq Outcomes
  /\ DOMAIN Outcome \subseteq STRING
  /\ "c" \in DOMAIN Outcome          \* the literal character
  /\ \A c \in DOMAIN Script : Script[c] \in Seq(DOMAIN Text)
  /\ \A t \in DOMAIN Text : Text[t] \in Seq(Tokens)
  /\ \A t \in DOMAIN Text : \A i \in 1..Len(Text[t]) : Known(Text[t][i])
  /\ \A t \in DOMAIN Text : \A i \in 1..Len(Text[t])-1 :
       ~(Text[t][i].k = "quote" /\ Text[t][i+1].k = "quote")
  /\ \A key \in Keys : key \in Tokens /\ key.k \in Commands \cup {"macro"} /\ Known(key)

VARIABLES
  stk,    \* s_MacroRuntimeStack, up to s_ixPastTOS
  frames, \* the C++ functions being executed, the innermost last
  pc,     \* where the innermost one is
  cmd,    \* the command GetNextCMD returned
  halt,   \* s_fHaltExecution is set
  rtnd,   \* s_fRtndFrom_fExecuted_macro
  ret,    \* g_fFuncRetVal
  args,   \* s_iArgCount
  sel,    \* the cursor differs from s_SelAnchor
  lit,    \* s_fHaveLiteralTextarg
  keys    \* keys pressed so far

vars == <<stk, frames, pc, cmd, halt, rtnd, ret, args, sel, lit, keys>>

Tok(k, x) == [k |-> k, x |-> x]
None == Tok("none", "")
Quote == Tok("quote", "")
Char == Tok("graphic", "c")
Br(cond, l) == [k |-> "branch", x |-> cond, l |-> l]

Frame(k) == [k |-> k, todo |-> <<>>]
Top == IF frames = <<>> THEN Frame("none") ELSE frames[Len(frames)]
Below == SubSeq(frames, 1, Len(frames) - 1)
Replace(f) == Append(Below, f)

\* one step of a command's list of fExecute calls
CmdFrame(todo) == [k |-> "cmd", todo |-> todo]

-----------------------------------------------------------------------------
(* The macro stack *)

\* MacroRuntimeStkEntry::Advance: the position is kept on the next token or
\* literal character, past a quote that opens a string there
Open(t, p) == IF p <= Len(t) /\ t[p].k = "quote" THEN [pos |-> p+1, quoted |-> TRUE]
                                                 ELSE [pos |-> p, quoted |-> FALSE]
Advance(t, p, quoted) ==
  CASE ~quoted -> Open(t, p)
    [] quoted /\ p <= Len(t) /\ t[p].k = "quote" -> Open(t, p+1)
    [] OTHER -> [pos |-> p, quoted |-> TRUE]

Entry(name, brk) ==
  LET a == Advance(Text[name], 1, FALSE)
  IN [text |-> name, pos |-> a.pos, quoted |-> a.quoted, brk |-> brk]

TOS == stk[Len(stk)]
Interpreting == stk # <<>>
Full == Len(stk) = MaxNest
SetTOS(e) == [stk EXCEPT ![Len(stk)] = e]

\* PushMacroStringOk
Push(name, brk) == Append(stk, Entry(name, brk))

\* PopUntilBreak: what is left, and whether an entry that breaks was popped
Breaks == {i \in 1..Len(stk) : stk[i].brk}
BrokeOut == Breaks # {}
AfterBreakPopsOne == SubSeq(stk, 1, Len(stk) - 1)    \* mutant: only the innermost text
AfterBreak == IF BrokeOut THEN SubSeq(stk, 1, Max(Breaks) - 1) ELSE <<>>

Moved(e, p, quoted) ==
  LET a == Advance(Text[e.text], p, quoted)
  IN [e EXCEPT !.pos = a.pos, !.quoted = a.quoted]

\* The position of every token GetNextToken would return when it started at
\* the first one with d_insideQuot2dString = quoted: a first character read
\* as a literal is not looked at, each quote after it changes the reading
ReadAsToken(t, quoted) ==
  {p \in 1..Len(t) :
     LET from == IF quoted THEN 2 ELSE 1
         n == Cardinality({i \in from..p-1 : t[i].k = "quote"})
     IN (quoted = (n % 2 = 1)) /\ t[p].k # "quote"}

LabelsAt(t, l, quoted) ==
  {p \in ReadAsToken(t, quoted) : t[p].k = "label" /\ t[p].x = l}

\* MacroRuntimeStkEntry::BranchToLabel restarts at the first token, and keeps
\* d_insideQuot2dString as the branch left it
LabelPositions(e, l) == LabelsAt(Text[e.text], l, e.quoted)

Taken(b) == b.x = "=" \/ (b.x = "+" /\ ret) \/ (b.x = "-" /\ ~ret)

-----------------------------------------------------------------------------
(* CMD_reader::GetNextCMD_ExpandAnyMacros *)

\* GetNextCMD: the function called returns to the frame that reads commands
Got(c) == pc' = "got" /\ cmd' = c

\* AbortUntilBreak: the error dialog requests a halt
AbortUntilBreak ==
  /\ halt' = TRUE /\ args' = 0
  /\ stk' = AfterBreak /\ rtnd' = BrokeOut
  /\ Got(None)
  /\ UNCHANGED <<frames, ret, sel, lit, keys>>

\* everything but the macro stack and the command read is left alone
ReadOnly == UNCHANGED <<frames, halt, rtnd, ret, args, sel, lit, keys>>

\* A reader that stops where an fExecuted macro ended (all but the text prompt)
StopReading ==
  /\ pc = "next" /\ Top.k # "text" /\ rtnd
  /\ Got(None) /\ UNCHANGED stk /\ ReadOnly

Reading == pc = "next" /\ (Top.k = "text" \/ ~rtnd)

\* CmdFromKbdForExec; the BuildExecute of a key bound to a macro pushes its text,
\* unless a halt is pending
ReadKey ==
  /\ Reading /\ ~Interpreting /\ keys < MaxKeys
  /\ keys' = keys + 1
  /\ \E key \in Keys :
       \/ /\ key.k # "macro" \/ halt
          /\ Got(IF halt THEN None ELSE key)
          /\ UNCHANGED <<stk, ret>>
       \/ /\ key.k = "macro" /\ ~halt
          /\ stk' = Push(key.x, FALSE) /\ ret' = TRUE
          /\ UNCHANGED <<pc, cmd>>
  /\ UNCHANGED <<frames, halt, rtnd, args, sel, lit>>

Exhausted(e) == e.pos > Len(Text[e.text])

\* The macro ended: PopIsBreak; a pending halt ends the reading all the same
PopMacro ==
  /\ stk' = SubSeq(stk, 1, Len(stk) - 1)
  /\ rtnd' = TOS.brk
  /\ IF halt THEN Got(None) ELSE UNCHANGED <<pc, cmd>>
  /\ UNCHANGED <<frames, halt, ret, args, sel, lit, keys>>

\* CleanupPendingMacroStream when a token is read while a halt is pending
HaltWhileReading ==
  /\ stk' = AfterBreak /\ rtnd' = BrokeOut
  /\ Got(None)
  /\ UNCHANGED <<frames, halt, ret, args, sel, lit, keys>>

\* BuildExecute of a macro: RunMacro pushes its text, or reports the overflow
ExpandMacro(e, name) ==
  IF Full
    THEN /\ halt' = TRUE /\ ret' = FALSE
         /\ stk' = SetTOS(e)
         /\ UNCHANGED <<frames, pc, cmd, rtnd, args, sel, lit, keys>>
    ELSE /\ ret' = TRUE
         /\ stk' = Append(SetTOS(e), Entry(name, FALSE))
         /\ UNCHANGED <<frames, pc, cmd, halt, rtnd, args, sel, lit, keys>>

Branch(e, b) ==
  IF ~Taken(b)
    THEN stk' = SetTOS(e) /\ UNCHANGED <<pc, cmd>> /\ ReadOnly
  ELSE IF b.l = ""
    THEN PopMacro                       \* no label: return from the macro
  ELSE LET at == LabelPositions(e, b.l) IN
       IF at = {} THEN AbortUntilBreak
       ELSE stk' = SetTOS(Moved(e, Min(at) + 1, FALSE)) /\ UNCHANGED <<pc, cmd>> /\ ReadOnly

\* CmdFromCurMacro
ReadMacro ==
  /\ Reading /\ Interpreting
  /\ LET t == Text[TOS.text][TOS.pos]
         e == Moved(TOS, TOS.pos + 1, TOS.quoted)
     IN CASE Exhausted(TOS)      -> PopMacro
          [] ~Exhausted(TOS) /\ halt -> HaltWhileReading
          [] OTHER ->
             \/ TOS.quoted /\ Got(Char) /\ stk' = SetTOS(e) /\ ReadOnly
             \/ ~TOS.quoted /\ t.k = "macro"   /\ ExpandMacro(e, t.x)
             \/ ~TOS.quoted /\ t.k = "label"   /\ stk' = SetTOS(e) /\ UNCHANGED <<pc, cmd>> /\ ReadOnly
             \/ ~TOS.quoted /\ t.k = "branch"  /\ Branch(e, t)
             \/ ~TOS.quoted /\ t.k = "unknown" /\ AbortUntilBreak
             \/ /\ ~TOS.quoted /\ t.k \notin {"macro", "label", "branch", "unknown"}
                /\ Got(t) /\ stk' = SetTOS(e) /\ ReadOnly

-----------------------------------------------------------------------------
(* Executing a command: CMD::BuildExecute.  f is the call stack the command *)
(* returns to.                                                              *)

\* ARG::arg asserts that no argument is open, and a failed assertion aborts
\* the editor; IncArgCnt_DropAnchor
StartArg(f) ==
  IF args # 0
    THEN pc' = "aborted" /\ UNCHANGED <<frames, halt, ret, args, sel, lit>>
    ELSE /\ args' = 1 /\ sel' = FALSE
         /\ frames' = Append(f, Frame("arg")) /\ pc' = "next"
         /\ UNCHANGED <<halt, ret, lit>>

\* ARG::InitOk refuses an argument of a type the command does not take
BadArgument(f) ==
  /\ halt' = TRUE /\ ret' = FALSE
  /\ args' = 0 /\ sel' = FALSE /\ lit' = FALSE
  /\ frames' = f /\ pc' = "head"

\* ARG::lastselect takes no argument
LastSelect(f) ==
  IF args > 0
    THEN BadArgument(f)
    ELSE /\ args' = 1 /\ sel' = TRUE /\ lit' = FALSE
         /\ frames' = Append(f, Frame("arg")) /\ pc' = "next"
         /\ UNCHANGED <<halt, ret>>

\* ARG::lasttext takes no text; the arguments are consumed, the anchor dropped
\* as often as they say (GetTextargStringNXeq) and the text prompt opened
LastText(f, l) ==
  IF args > 0 /\ l
    THEN BadArgument(f)
    ELSE /\ args' = IF args > 0 /\ (sel \/ args = MaxArgs) THEN args ELSE args + 1
         /\ sel' = FALSE /\ lit' = FALSE
         /\ frames' = Append(f, Frame("text")) /\ pc' = "next"
         /\ UNCHANGED <<halt, ret>>

\* A cursor function has no argument built and may alter the selection
MoveCursor(f) ==
  /\ sel' \in (IF args > 0 THEN BOOLEAN ELSE {sel})
  /\ ret' = TRUE /\ frames' = f
  /\ pc' = (IF f[Len(f)].k = "arg" THEN "next" ELSE "head")
  /\ UNCHANGED <<halt, args, lit>>

\* IngestArgTextAndSelection consumes the arguments, then the command runs:
\* it succeeds, fails, or opens an error dialog, which requests a halt.
\* A command that modifies is refused in a buffer that may not be modified.
RunPlain(f, c, l) ==
  /\ \E r \in Outcome[c.x] :
       /\ ret' = (r = "true")
       /\ halt' = (halt \/ r = "error")
       /\ lit' = (l /\ r = "refused")
  /\ args' = 0 /\ sel' = FALSE
  /\ frames' = f /\ pc' = "head"

\* A command that calls fExecute, once or more
RunScript(f, c) ==
  /\ args' = 0 /\ lit' = FALSE /\ sel' = FALSE
  /\ frames' = Append(f, CmdFrame(Script[c.x])) /\ pc' = "head"
  /\ UNCHANGED <<halt, ret>>

\* l: s_fHaveLiteralTextarg when the command starts
Run(f, c, l) ==
  /\ \/ c.k = "arg"     /\ StartArg(f)
     \/ c.k = "lastsel" /\ LastSelect(f)
     \/ c.k = "last"    /\ LastText(f, l)
     \/ c.k = "cursor"  /\ MoveCursor(f)
     \/ c.k \in {"plain", "graphic"} /\ RunPlain(f, c, l)
     \/ c.k = "script"  /\ RunScript(f, c)
  /\ cmd' = None
  /\ UNCHANGED <<stk, rtnd, keys>>

-----------------------------------------------------------------------------
(* The frames *)

\* FetchAndExecuteCMDs( fCatchExecutionHaltRequests ): the loop condition,
\* CleanupExecutionHaltRequests, GetNextCMD, BuildExecute
Catches == Top.k = "main"

\* mutant: the flag outlives the loop it ends
LoopEndsKeepsFlag ==
  /\ pc = "head" /\ Top.k \in {"main", "exec"} /\ rtnd
  /\ frames' = Below
  /\ UNCHANGED <<stk, pc, cmd, halt, rtnd, ret, args, sel, lit, keys>>

LoopEnds ==
  /\ pc = "head" /\ Top.k \in {"main", "exec"} /\ rtnd
  /\ rtnd' = FALSE /\ frames' = Below
  /\ UNCHANGED <<stk, pc, cmd, halt, ret, args, sel, lit, keys>>

\* mutant: a loop that does not catch the halt goes on instead of ending
CleanupHaltStays ==
  /\ pc = "head" /\ Top.k \in {"main", "exec"} /\ ~rtnd /\ halt
  /\ stk' = AfterBreak /\ rtnd' = FALSE
  /\ halt' = (halt /\ ~Catches)
  /\ UNCHANGED <<frames, pc, cmd, ret, args, sel, lit, keys>>

CleanupHalt ==
  /\ pc = "head" /\ Top.k \in {"main", "exec"} /\ ~rtnd /\ halt
  /\ stk' = AfterBreak
  /\ IF Catches
       THEN /\ halt' = FALSE
            /\ rtnd' = (Interpreting /\ BrokeOut)
            /\ pc' = "next" /\ UNCHANGED frames
       ELSE /\ rtnd' = FALSE                \* the buck stops later
            /\ frames' = Below
            /\ UNCHANGED <<halt, pc>>
  /\ UNCHANGED <<cmd, ret, args, sel, lit, keys>>

LoopFetches ==
  /\ pc = "head" /\ Top.k \in {"main", "exec"} /\ ~rtnd /\ ~halt
  /\ pc' = "next"
  /\ UNCHANGED <<stk, frames, cmd, halt, rtnd, ret, args, sel, lit, keys>>

LoopExecutes ==
  /\ pc = "got" /\ Top.k \in {"main", "exec"}
  /\ IF cmd = None
       THEN pc' = "head" /\ UNCHANGED <<stk, frames, cmd, halt, rtnd, ret, args, sel, lit, keys>>
       ELSE Run(frames, cmd, lit)

\* CollectTextOrSelectArg_Execute
ArgReads ==
  /\ pc = "got" /\ Top.k = "arg"
  /\ \/ /\ cmd = None
        /\ ret' = FALSE /\ frames' = Below /\ pc' = "head"
        /\ UNCHANGED <<stk, cmd, halt, rtnd, args, sel, lit, keys>>
     \/ /\ cmd.k = "arg"
        /\ args' = (IF args < MaxArgs THEN args + 1 ELSE args)
        /\ pc' = "next" /\ cmd' = None
        /\ UNCHANGED <<stk, frames, halt, rtnd, ret, sel, lit, keys>>
     \/ /\ cmd.k = "cursor"
        /\ Run(frames, cmd, lit)
     \/ /\ cmd.k = "graphic" /\ ~sel          \* its first character opens the prompt
        /\ frames' = Replace(Frame("text")) /\ pc' = "next" /\ cmd' = None
        /\ UNCHANGED <<stk, halt, rtnd, ret, args, sel, lit, keys>>
     \/ /\ cmd.k \in {"plain", "lastsel", "last", "script"} \/ (cmd.k = "graphic" /\ sel)
        /\ Run(Below, cmd, lit)

\* GetTextargString_: what edits the text keeps the prompt open, any other
\* command closes it and is executed on the text
TextReads ==
  /\ pc = "got" /\ Top.k = "text"
  /\ \/ /\ cmd = None
        /\ ret' = FALSE /\ frames' = Below /\ pc' = "head"
        /\ UNCHANGED <<stk, cmd, halt, rtnd, args, sel, lit, keys>>
     \/ /\ cmd.k \in {"graphic", "cursor", "arg"}
        /\ pc' = "next" /\ cmd' = None
        /\ UNCHANGED <<stk, frames, halt, rtnd, ret, args, sel, lit, keys>>
     \/ /\ cmd.k \in {"plain", "lastsel", "last", "script"}
        /\ Run(Below, cmd, TRUE)

\* fExecute: the text is pushed and run, or there is no room for it
FExecute ==
  /\ pc = "head" /\ Top.k = "cmd" /\ Top.todo # <<>>
  /\ LET rest == Replace(CmdFrame(Tail(Top.todo))) IN
     IF Full
       THEN halt' = TRUE /\ frames' = rest /\ UNCHANGED stk
       ELSE /\ stk' = Push(Head(Top.todo), TRUE)
            /\ frames' = Append(rest, Frame("exec"))
            /\ UNCHANGED halt
  /\ UNCHANGED <<pc, cmd, rtnd, ret, args, sel, lit, keys>>

CommandReturns ==
  /\ pc = "head" /\ Top.k = "cmd" /\ Top.todo = <<>>
  /\ frames' = Below
  /\ UNCHANGED <<stk, pc, cmd, halt, rtnd, ret, args, sel, lit, keys>>

Init ==
  /\ stk = <<>> /\ frames = <<Frame("main")>> /\ pc = "head" /\ cmd = None
  /\ halt = FALSE /\ rtnd = FALSE /\ ret = FALSE
  /\ args = 0 /\ sel = FALSE /\ lit = FALSE /\ keys = 0

\* what the editor does by itself, and what waits for the user
Step ==
  \/ StopReading \/ ReadMacro
  \/ LoopEnds \/ CleanupHalt \/ LoopFetches \/ LoopExecutes
  \/ ArgReads \/ TextReads \/ FExecute \/ CommandReturns

Next == ReadKey \/ Step

Spec == Init /\ [][Next]_vars

\* The thread runs as long as it has not to wait for a key.
FairSpec == Spec /\ WF_vars(Step)

-----------------------------------------------------------------------------
(* Properties *)

\* The state has the shape the code's types give it, the stack its fixed size
\* (s_MacroRuntimeStack is an array of MAX_MACRO_NESTING entries).
TypeOK ==
  /\ \A i \in 1..Len(stk) : /\ stk[i].text \in DOMAIN Text /\ stk[i].quoted \in BOOLEAN
                            /\ stk[i].brk \in BOOLEAN
                            /\ stk[i].pos \in 1..Len(Text[stk[i].text]) + 1
  /\ Len(stk) <= MaxNest
  /\ \A i \in 1..Len(frames) : frames[i].k \in {"main", "exec", "arg", "text", "cmd"}
  /\ pc \in {"head", "next", "got", "aborted"} /\ cmd \in Tokens \cup {None} /\ cmd.k \in Commands \cup {"none"}
  /\ halt \in BOOLEAN /\ rtnd \in BOOLEAN /\ ret \in BOOLEAN /\ sel \in BOOLEAN /\ lit \in BOOLEAN
  /\ args \in 0..MaxArgs /\ keys \in 0..MaxKeys

Execs == {i \in 1..Len(frames) : frames[i].k = "exec"}

\* The command loop of main() "NEVER RETURNS": whatever ends early, prompts
\* in the middle of a text or overflows the stack, no entry that breaks is
\* ever left for the outermost loop to pop, nor the flag that one was popped.
MainNeverReturns ==
  /\ frames # <<>>
  /\ Cardinality(Breaks) <= Cardinality(Execs)
  /\ (Len(frames) = 1) => ~rtnd

\* When the halt is cleared nothing of what was interrupted is left: "any
\* queued macros are still there; MUST clean them up so they're not
\* mistakenly used later" (CleanupExecutionHaltRequests).
HaltEmptiesStack == [][(halt /\ ~halt') => (stk' = <<>> /\ Len(frames') = 1 /\ ~rtnd')]_vars

\* A requested halt is always honoured: the frames unwind and it is cleared.
HaltIsHonoured == halt ~> ~halt

=============================================================================
