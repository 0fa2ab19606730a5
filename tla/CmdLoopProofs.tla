--------------------------- MODULE CmdLoopProofs ---------------------------
(***************************************************************************)
(* What the command loop promises for all macro texts, commands and keys.  *)
(* main() must never return and a halt must leave nothing behind, although *)
(* texts end, overflow and are cut off anywhere.  The reason is a balance: *)
(* fExecute pushes one text that breaks for each loop it enters, and every *)
(* such text that is popped, by its end or by a halt, is either still to   *)
(* be accounted for (rtnd) or has ended such a loop.  So there are never   *)
(* more of them, with rtnd, than loops to end; and the outermost loop,     *)
(* which is none of these, finds neither.                                  *)
(***************************************************************************)
EXTENDS CmdLoop, NumberProofs

Entries == [text : DOMAIN Text, pos : Nat, quoted : BOOLEAN, brk : BOOLEAN]
Frames  == [k : {"main", "exec", "arg", "text", "cmd"}, todo : Seq(DOMAIN Text)]

\* The positions of a stack's texts that break, and of a call stack's loops
\* that end with one.
BreaksIn(s) == {i \in 1..Len(s) : s[i].brk}
ExecsIn(f)  == {i \in 1..Len(f) : f[i].k = "exec"}
NumBreaks(s) == Cardinality(BreaksIn(s))
NumExecs(f)  == Cardinality(ExecsIn(f))

\* A text is read up to a token or a literal character, never a quote.
Placed(e) ==
  /\ e.pos \in 1..Len(Text[e.text]) + 1
  /\ e.pos <= Len(Text[e.text]) => Text[e.text][e.pos].k # "quote"

StackOK ==
  /\ stk \in Seq(Entries) /\ Len(stk) <= MaxNest
  /\ \A i \in 1..Len(stk) : Placed(stk[i])

\* The outermost loop is main's and no other is.
CallsOK(f) ==
  /\ f \in Seq(Frames) /\ Len(f) > 0
  /\ f[1].k = "main"
  /\ \A i \in 2..Len(f) : f[i].k # "main"
FramesOK == CallsOK(frames)

CmdOK == cmd \in Tokens \cup {None} /\ cmd.k \in Commands \cup {"none"} /\ Known(cmd)

FlagsOK ==
  /\ pc \in {"head", "next", "got", "aborted"}
  /\ halt \in BOOLEAN /\ rtnd \in BOOLEAN /\ ret \in BOOLEAN
  /\ sel \in BOOLEAN /\ lit \in BOOLEAN
  /\ args \in 0..MaxArgs /\ keys \in 0..MaxKeys

\* Texts that break, with the one just popped, against loops that one ends.
Balanced ==
  NumBreaks(stk) + (IF rtnd THEN 1 ELSE 0) <= NumExecs(frames)

IInv == StackOK /\ FramesOK /\ CmdOK /\ FlagsOK /\ Balanced
-----------------------------------------------------------------------------
(* Texts *)

LEMMA TextFacts ==
  ASSUME NEW n \in DOMAIN Text
  PROVE  /\ Text[n] \in Seq(Tokens) /\ Len(Text[n]) \in Nat
         /\ \A i \in 1..Len(Text[n]) : Text[n][i] \in Tokens /\ Known(Text[n][i])
         /\ \A i \in 1..Len(Text[n]) : i + 1 <= Len(Text[n]) =>
              ~(Text[n][i].k = "quote" /\ Text[n][i + 1].k = "quote")
<1>1. Text[n] \in Seq(Tokens) /\ Len(Text[n]) \in Nat
  BY ConstantsOK
<1>2. \A i \in 1..Len(Text[n]) : Text[n][i] \in Tokens /\ Known(Text[n][i])
  BY <1>1, ConstantsOK
<1>3. ASSUME NEW i \in 1..Len(Text[n]), i + 1 <= Len(Text[n])
      PROVE  ~(Text[n][i].k = "quote" /\ Text[n][i + 1].k = "quote")
  <2>1. i \in 1..Len(Text[n]) - 1 BY <1>1, <1>3
  <2> QED BY <2>1, ConstantsOK
<1> QED BY <1>1, <1>2, <1>3

\* Advance stops at the end of the text or at a token that is no quote.
LEMMA AdvanceStops ==
  ASSUME NEW n \in DOMAIN Text, NEW p \in 1..Len(Text[n]) + 1, NEW quoted \in BOOLEAN
  PROVE  /\ Advance(Text[n], p, quoted).pos \in 1..Len(Text[n]) + 1
         /\ Advance(Text[n], p, quoted).quoted \in BOOLEAN
         /\ Advance(Text[n], p, quoted).pos <= Len(Text[n]) =>
              Text[n][Advance(Text[n], p, quoted).pos].k # "quote"
<1> DEFINE t == Text[n]
<1> USE TextFacts
<1>1. ASSUME NEW q \in 1..Len(t) + 1
      PROVE  /\ Open(t, q).pos \in 1..Len(t) + 1
             /\ Open(t, q).quoted \in BOOLEAN
             /\ Open(t, q).pos <= Len(t) => t[Open(t, q).pos].k # "quote"
  BY DEF Open
<1>2. CASE ~quoted
  <2>1. Advance(t, p, quoted) = Open(t, p) BY <1>2 DEF Advance
  <2> QED BY <1>1, <2>1
<1>3. CASE quoted /\ p <= Len(t) /\ t[p].k = "quote"
  <2>1. p + 1 \in 1..Len(t) + 1 BY <1>3
  <2> QED BY <1>1, <1>3, <2>1 DEF Advance
<1>4. CASE quoted /\ ~(p <= Len(t) /\ t[p].k = "quote")
  BY <1>4 DEF Advance
<1> QED BY <1>2, <1>3, <1>4

\* What is pushed for a text, and the same text read on.
LEMMA EntryPlaced ==
  ASSUME NEW n \in DOMAIN Text, NEW brk \in BOOLEAN
  PROVE  /\ Entry(n, brk) \in Entries /\ Placed(Entry(n, brk))
         /\ Entry(n, brk).brk = brk
<1>1. 1 \in 1..Len(Text[n]) + 1 BY TextFacts
<1>2. FALSE \in BOOLEAN OBVIOUS
<1> HIDE DEF Advance
<1>3. PICK a : a = Advance(Text[n], 1, FALSE) OBVIOUS
<1>4. /\ a.pos \in 1..Len(Text[n]) + 1 /\ a.quoted \in BOOLEAN
      /\ a.pos <= Len(Text[n]) => Text[n][a.pos].k # "quote"
  BY <1>1, <1>2, <1>3, AdvanceStops
<1>5. Entry(n, brk) = [text |-> n, pos |-> a.pos, quoted |-> a.quoted, brk |-> brk]
  BY <1>3 DEF Entry
<1> QED BY <1>4, <1>5, TextFacts DEF Entries, Placed

LEMMA MovedPlaced ==
  ASSUME NEW e \in Entries, NEW p \in 1..Len(Text[e.text]) + 1, NEW quoted \in BOOLEAN
  PROVE  /\ Moved(e, p, quoted) \in Entries /\ Placed(Moved(e, p, quoted))
         /\ Moved(e, p, quoted).brk = e.brk
<1>1. e.text \in DOMAIN Text BY DEF Entries
<1>2. PICK a : a = Advance(Text[e.text], p, quoted) OBVIOUS
<1>3. /\ a.pos \in 1..Len(Text[e.text]) + 1 /\ a.quoted \in BOOLEAN
      /\ a.pos <= Len(Text[e.text]) => Text[e.text][a.pos].k # "quote"
  BY <1>1, <1>2, AdvanceStops
<1>4. Moved(e, p, quoted) = [e EXCEPT !.pos = a.pos, !.quoted = a.quoted]
  BY <1>2 DEF Moved
<1>5. /\ Moved(e, p, quoted).pos = a.pos /\ Moved(e, p, quoted).text = e.text
      /\ Moved(e, p, quoted).brk = e.brk /\ Moved(e, p, quoted).quoted = a.quoted
  BY <1>4 DEF Entries
<1>6. Moved(e, p, quoted) \in Entries
  <2>1. a.pos \in Nat BY <1>1, <1>3, TextFacts
  <2>2. PICK b : b = [e EXCEPT !.pos = a.pos] OBVIOUS
  <2>3. b \in Entries BY <2>1, <2>2 DEF Entries
  <2>4. Moved(e, p, quoted) = [b EXCEPT !.quoted = a.quoted] BY <1>4, <2>2
  <2> QED BY <1>3, <2>3, <2>4 DEF Entries
<1> QED BY <1>3, <1>5, <1>6 DEF Placed
-----------------------------------------------------------------------------
(* The stack and its texts that break *)

LEMMA BreaksCount ==
  ASSUME NEW s \in Seq(Entries)
  PROVE  NumBreaks(s) \in Nat /\ BreaksIn(s) \subseteq 1..Len(s) /\ Len(s) \in Nat
<1>1. BreaksIn(s) \in SUBSET (1..Len(s)) /\ Len(s) \in Nat BY DEF BreaksIn
<1> QED BY <1>1, PositionsCount DEF NumBreaks

Breaking(e)   == IF e.brk THEN 1 ELSE 0
OnTop(s, e)   == Append(s, e)
WithTop(s, e) == [s EXCEPT ![Len(s)] = e]

\* A text that is pushed counts if it breaks.
LEMMA PushCounts ==
  ASSUME NEW s \in Seq(Entries), NEW e \in Entries, NEW t, t = OnTop(s, e)
  PROVE  /\ t \in Seq(Entries) /\ Len(t) = Len(s) + 1 /\ t[Len(t)] = e
         /\ \A i \in 1..Len(s) : t[i] = s[i]
         /\ NumBreaks(t) = NumBreaks(s) + Breaking(e)
<1>1. /\ t \in Seq(Entries) /\ Len(t) = Len(s) + 1 /\ t[Len(t)] = e
      /\ \A i \in 1..Len(s) : t[i] = s[i]
  BY DEF OnTop
<1> DEFINE n == Len(s) + 1
<1>2. n \in Nat /\ BreaksIn(s) \in SUBSET (1..n) /\ n \in 1..n /\ n \notin BreaksIn(s)
  BY DEF BreaksIn
<1>3. Cardinality(BreaksIn(s) \cup {n}) = Cardinality(BreaksIn(s)) + 1
  BY <1>2, PositionsCount
<1>4. BreaksIn(t) = IF e.brk THEN BreaksIn(s) \cup {n} ELSE BreaksIn(s)
  BY <1>1 DEF BreaksIn
<1>5. NumBreaks(s) \in Nat BY BreaksCount
<1> QED BY <1>1, <1>3, <1>4, <1>5 DEF NumBreaks, Breaking

\* What is left below a cut, and what of it breaks.
LEMMA CutCounts ==
  ASSUME NEW s \in Seq(Entries), NEW n \in 0..Len(s), NEW t, t = SubSeq(s, 1, n)
  PROVE  /\ t \in Seq(Entries) /\ Len(t) = n
         /\ \A i \in 1..n : t[i] = s[i]
         /\ BreaksIn(t) = BreaksIn(s) \cap 1..n
<1>1. t \in Seq(Entries) /\ Len(t) = n /\ \A i \in 1..n : t[i] = s[i]
  OBVIOUS
<1> QED BY <1>1 DEF BreaksIn

LEMMA PopCounts ==
  ASSUME NEW s \in Seq(Entries), s # <<>>, NEW t, t = SubSeq(s, 1, Len(s) - 1)
  PROVE  /\ t \in Seq(Entries) /\ Len(t) = Len(s) - 1
         /\ \A i \in 1..Len(t) : t[i] = s[i]
         /\ NumBreaks(t) + (IF s[Len(s)].brk THEN 1 ELSE 0) = NumBreaks(s)
<1> PICK n : n = Len(s) - 1 OBVIOUS
<1>1. /\ n \in 0..Len(s) /\ n + 1 = Len(s) /\ Len(s) \in 1..Len(s)
      /\ Len(s) \in Nat /\ t = SubSeq(s, 1, n)
  OBVIOUS
<1>2. /\ t \in Seq(Entries) /\ Len(t) = n
      /\ \A i \in 1..n : t[i] = s[i]
      /\ BreaksIn(t) = BreaksIn(s) \cap 1..n
  <2>1. n \in 0..Len(s) /\ t = SubSeq(s, 1, n)
    BY <1>1
  <2>2. t \in Seq(Entries) /\ Len(t) = n /\ \A i \in 1..n : t[i] = s[i]
    BY SMTT(40), <1>1
  <2>3. BreaksIn(t) = BreaksIn(s) \cap 1..n
    BY <2>1, CutCounts
  <2> QED BY <2>2, <2>3
<1>3. BreaksIn(s) \in SUBSET (1..Len(s)) BY DEF BreaksIn
<1>4. NumBreaks(s) \in Nat BY BreaksCount
<1>5. CASE s[Len(s)].brk
  <2>1. Len(s) \in BreaksIn(s) BY <1>1, <1>5 DEF BreaksIn
  <2>2. BreaksIn(t) = BreaksIn(s) \ {Len(s)} BY <1>1, <1>2, <1>3
  <2>3. Cardinality(BreaksIn(s) \ {Len(s)}) = Cardinality(BreaksIn(s)) - 1
    BY <1>1, <1>3, <2>1, PositionsCount
  <2>4. NumBreaks(t) + 1 = NumBreaks(s)
    <3>1. Cardinality(BreaksIn(t)) = Cardinality(BreaksIn(s)) - 1 BY <2>2, <2>3
    <3>2. Cardinality(BreaksIn(s)) \in Nat BY <1>4 DEF NumBreaks
    <3> QED BY <3>1, <3>2 DEF NumBreaks
  <2> QED BY <1>1, <1>2, <1>5, <2>4
<1>6. CASE ~s[Len(s)].brk
  <2>1. BreaksIn(t) = BreaksIn(s)
    BY <1>1, <1>2, <1>6 DEF BreaksIn
  <2>2. NumBreaks(t) + 0 = NumBreaks(s)
    BY <1>4, <2>1 DEF NumBreaks
  <2> QED BY <1>1, <1>2, <1>6, <2>2
<1> QED BY <1>5, <1>6

\* The top read on breaks as before.
LEMMA SetCounts ==
  ASSUME NEW s \in Seq(Entries), s # <<>>, NEW e \in Entries, e.brk = s[Len(s)].brk,
         NEW t, t = WithTop(s, e)
  PROVE  /\ t \in Seq(Entries) /\ Len(t) = Len(s) /\ t[Len(s)] = e
         /\ \A i \in 1..Len(s) : i # Len(s) => t[i] = s[i]
         /\ NumBreaks(t) = NumBreaks(s)
<1>1. /\ t \in Seq(Entries) /\ Len(t) = Len(s) /\ t[Len(s)] = e
      /\ \A i \in 1..Len(s) : i # Len(s) => t[i] = s[i]
  BY DEF WithTop
<1>2. BreaksIn(t) = BreaksIn(s) BY <1>1 DEF BreaksIn
<1> QED BY <1>1, <1>2 DEF NumBreaks

\* PopUntilBreak leaves one text that breaks less than there were, or none.
LEMMA AfterBreakCounts ==
  ASSUME stk \in Seq(Entries), NEW t, t = AfterBreak
  PROVE  /\ t \in Seq(Entries) /\ Len(t) <= Len(stk)
         /\ \A i \in 1..Len(t) : t[i] = stk[i]
         /\ NumBreaks(t) + (IF BrokeOut THEN 1 ELSE 0) <= NumBreaks(stk)
         /\ Breaks = {} => t = <<>>
         /\ BrokeOut <=> NumBreaks(stk) # 0
<1>1. Breaks = BreaksIn(stk) BY DEF Breaks, BreaksIn
<1>2. /\ NumBreaks(stk) \in Nat /\ Len(stk) \in Nat
      /\ BreaksIn(stk) \in SUBSET (1..Len(stk)) /\ BreaksIn(stk) \in SUBSET (0..Len(stk))
  BY BreaksCount
<1>3. CASE Breaks = {}
  <2>1. t = <<>> /\ ~BrokeOut BY <1>3 DEF AfterBreak, BrokeOut
  <2>2. t \in Seq(Entries) /\ Len(t) = 0 BY <2>1
  <2>3. BreaksIn(t) = {} BY <2>2 DEF BreaksIn
  <2>4. NumBreaks(t) = 0 /\ NumBreaks(stk) = 0
    BY <2>3, <1>3, <1>1, FS_EmptySet DEF NumBreaks
  <2> QED BY <1>2, <2>1, <2>2, <2>4
<1>4. CASE Breaks # {}
  <2>1. Max(Breaks) \in Breaks /\ \A k \in Breaks : Max(Breaks) >= k
    BY <1>1, <1>2, <1>4, GreatestNumber DEF Max
  <2>2. PICK m : m = Max(Breaks) OBVIOUS
  <2>3. m \in 1..Len(stk) /\ m \in BreaksIn(stk) BY <1>1, <1>2, <2>1, <2>2
  <2>4. m - 1 \in 0..Len(stk) BY <1>2, <2>3
  <2>5. t = SubSeq(stk, 1, m - 1) /\ BrokeOut
    BY <1>4, <2>2 DEF AfterBreak, BrokeOut
  <2>6. /\ t \in Seq(Entries) /\ Len(t) = m - 1
        /\ \A i \in 1..(m - 1) : t[i] = stk[i]
        /\ BreaksIn(t) = BreaksIn(stk) \cap 1..(m - 1)
    BY <2>4, <2>5, CutCounts
  <2>7. BreaksIn(t) \in SUBSET (BreaksIn(stk) \ {m})
    BY <2>3, <2>6
  <2>8. Cardinality(BreaksIn(stk) \ {m}) = Cardinality(BreaksIn(stk)) - 1
    BY <1>2, <2>3, PositionsCount
  <2>9. BreaksIn(stk) \ {m} \in SUBSET (1..Len(stk)) BY <1>2
  <2>10. Cardinality(BreaksIn(t)) <= Cardinality(BreaksIn(stk) \ {m})
    BY <1>2, <2>7, <2>9, PositionsCount
  <2>11. NumBreaks(t) \in Nat BY <2>6, BreaksCount
  <2>12. NumBreaks(t) + 1 <= NumBreaks(stk) /\ NumBreaks(stk) # 0
    BY <1>2, <2>8, <2>10, <2>11 DEF NumBreaks
  <2>13. Len(t) <= Len(stk) /\ \A i \in 1..Len(t) : t[i] = stk[i]
    BY <1>2, <2>3, <2>6
  <2> QED BY <1>4, <2>5, <2>6, <2>12, <2>13
<1> QED BY <1>3, <1>4
-----------------------------------------------------------------------------
(* The frames and the loops that a text ends *)

LEMMA ExecsCount ==
  ASSUME NEW f \in Seq(Frames)
  PROVE  NumExecs(f) \in Nat /\ ExecsIn(f) \in SUBSET (1..Len(f)) /\ Len(f) \in Nat
<1>1. ExecsIn(f) \in SUBSET (1..Len(f)) /\ Len(f) \in Nat BY DEF ExecsIn
<1> QED BY <1>1, PositionsCount DEF NumExecs

\* A call adds a frame.
LEMMA CallCounts ==
  ASSUME NEW f, CallsOK(f), NEW e \in Frames, e.k # "main", NEW g, g = OnTop(f, e)
  PROVE  /\ CallsOK(g)
         /\ NumExecs(g) = NumExecs(f) + (IF e.k = "exec" THEN 1 ELSE 0)
<1> DEFINE n == Len(f) + 1
<1>1. /\ f \in Seq(Frames) /\ Len(f) \in Nat /\ Len(f) > 0 /\ f[1].k = "main"
      /\ \A i \in 2..Len(f) : f[i].k # "main"
  BY DEF CallsOK
<1>2. /\ g \in Seq(Frames) /\ Len(g) = n /\ g[n] = e
      /\ \A i \in 1..Len(f) : g[i] = f[i]
  BY <1>1 DEF OnTop
<1>3. CallsOK(g) BY <1>1, <1>2 DEF CallsOK
<1>4. n \in Nat /\ ExecsIn(f) \in SUBSET (1..n) /\ n \in 1..n /\ n \notin ExecsIn(f)
  BY <1>1 DEF ExecsIn
<1>5. Cardinality(ExecsIn(f) \cup {n}) = Cardinality(ExecsIn(f)) + 1
  BY <1>4, PositionsCount
<1>6. NumExecs(f) \in Nat BY <1>1, ExecsCount
<1>7. CASE e.k = "exec"
  <2>1. ExecsIn(g) = ExecsIn(f) \cup {n} BY <1>1, <1>2, <1>7 DEF ExecsIn
  <2> QED BY <1>3, <1>5, <1>7, <2>1 DEF NumExecs
<1>8. CASE e.k # "exec"
  <2>1. ExecsIn(g) = ExecsIn(f) BY <1>1, <1>2, <1>8 DEF ExecsIn
  <2>2. NumExecs(g) = NumExecs(f) + 0 BY <2>1, <1>6 DEF NumExecs
  <2> QED BY <1>3, <1>8, <2>2
<1> QED BY <1>7, <1>8

\* A return removes one.
LEMMA ReturnCounts ==
  ASSUME NEW f, CallsOK(f), Len(f) > 1, NEW g, g = SubSeq(f, 1, Len(f) - 1)
  PROVE  /\ CallsOK(g) /\ Len(g) = Len(f) - 1
         /\ NumExecs(g) + (IF f[Len(f)].k = "exec" THEN 1 ELSE 0) = NumExecs(f)
<1> PICK n : n = Len(f) - 1 OBVIOUS
<1>1. /\ f \in Seq(Frames) /\ Len(f) \in Nat /\ f[1].k = "main"
      /\ \A i \in 2..Len(f) : f[i].k # "main"
  BY DEF CallsOK
<1>2. /\ n \in 0..Len(f) /\ n + 1 = Len(f) /\ n > 0 /\ Len(f) \in 1..Len(f)
      /\ g = SubSeq(f, 1, n)
  BY <1>1
<1>3. g \in Seq(Frames) /\ Len(g) = n /\ \A i \in 1..n : g[i] = f[i]
  BY <1>1, <1>2
<1>4. CallsOK(g) BY <1>1, <1>2, <1>3 DEF CallsOK
<1>5. ExecsIn(f) \in SUBSET (1..Len(f)) BY DEF ExecsIn
<1>6. ExecsIn(g) = ExecsIn(f) \cap 1..n BY <1>1, <1>2, <1>3 DEF ExecsIn
<1>7. Cardinality(ExecsIn(f)) \in Nat BY <1>1, ExecsCount DEF NumExecs
<1>8. CASE f[Len(f)].k = "exec"
  <2>1. Len(f) \in ExecsIn(f) BY <1>2, <1>8 DEF ExecsIn
  <2>2. ExecsIn(g) = ExecsIn(f) \ {Len(f)} BY <1>2, <1>5, <1>6
  <2>3. Cardinality(ExecsIn(f) \ {Len(f)}) = Cardinality(ExecsIn(f)) - 1
    BY <1>1, <1>5, <2>1, PositionsCount
  <2>4. NumExecs(g) + 1 = NumExecs(f)
    <3>1. Cardinality(ExecsIn(g)) = Cardinality(ExecsIn(f)) - 1 BY <2>2, <2>3
    <3> QED BY <1>7, <3>1 DEF NumExecs
  <2> QED BY <1>2, <1>3, <1>4, <1>8, <2>4
<1>9. CASE f[Len(f)].k # "exec"
  <2>1. ExecsIn(g) = ExecsIn(f) BY <1>2, <1>5, <1>6, <1>9 DEF ExecsIn
  <2>2. NumExecs(g) + 0 = NumExecs(f) BY <1>7, <2>1 DEF NumExecs
  <2> QED BY <1>2, <1>3, <1>4, <1>9, <2>2
<1> QED BY <1>8, <1>9

\* Where only main() runs no text ends a loop.
LEMMA OnlyMain ==
  ASSUME FramesOK
  PROVE  /\ Top = frames[Len(frames)] /\ Top \in Frames
         /\ Top.k = "main" <=> Len(frames) = 1
         /\ Len(frames) = 1 => NumExecs(frames) = 0
<1>1. /\ frames \in Seq(Frames) /\ Len(frames) \in Nat /\ Len(frames) > 0
      /\ frames[1].k = "main" /\ \A i \in 2..Len(frames) : frames[i].k # "main"
  BY DEF FramesOK, CallsOK
<1>n. PICK n : n = Len(frames) OBVIOUS
<1>2. Top = frames[Len(frames)] BY <1>1 DEF Top
<1>3. Top.k = "main" <=> Len(frames) = 1
  <2>1. n \in Nat /\ n > 0 BY <1>1, <1>n
  <2>2. n = 1 \/ n \in 2..n BY <2>1
  <2> QED BY <1>1, <1>2, <1>n, <2>1, <2>2
<1>4. ASSUME Len(frames) = 1 PROVE NumExecs(frames) = 0
  <2>1. ExecsIn(frames) = {} BY <1>1, <1>4 DEF ExecsIn
  <2> QED BY <2>1, FS_EmptySet DEF NumExecs
<1> QED BY <1>1, <1>2, <1>3, <1>4

\* The frames of a call, a return and a change of the innermost function.
LEMMA FrameTypes ==
  /\ \A kind \in {"exec", "arg", "text"} : Frame(kind) \in Frames /\ Frame(kind).k = kind
  /\ \A todo \in Seq(DOMAIN Text) : CmdFrame(todo) \in Frames /\ CmdFrame(todo).k = "cmd"
<1>1. <<>> \in Seq(DOMAIN Text) OBVIOUS
<1>2. ASSUME NEW kind \in {"exec", "arg", "text"}
      PROVE  Frame(kind) \in Frames /\ Frame(kind).k = kind
  BY <1>1 DEF Frame, Frames
<1>3. ASSUME NEW todo \in Seq(DOMAIN Text)
      PROVE  CmdFrame(todo) \in Frames /\ CmdFrame(todo).k = "cmd"
  BY DEF CmdFrame, Frames
<1> QED BY <1>2, <1>3
-----------------------------------------------------------------------------
(* What a step does to the stack *)

LEMMA TopOfStack ==
  ASSUME StackOK, Interpreting
  PROVE  TOS \in Entries /\ Placed(TOS) /\ Len(stk) \in 1..Len(stk)
BY DEF StackOK, Interpreting, TOS

LEMMA StackPopped ==
  ASSUME StackOK, Interpreting, stk' = SubSeq(stk, 1, Len(stk) - 1)
  PROVE  /\ StackOK'
         /\ NumBreaks(stk') + (IF TOS.brk THEN 1 ELSE 0) = NumBreaks(stk)
<1>1. stk \in Seq(Entries) /\ stk # <<>> BY DEF StackOK, Interpreting
<1>2. /\ stk' \in Seq(Entries) /\ Len(stk') = Len(stk) - 1
      /\ \A i \in 1..Len(stk') : stk'[i] = stk[i]
      /\ NumBreaks(stk') + (IF stk[Len(stk)].brk THEN 1 ELSE 0) = NumBreaks(stk)
  BY <1>1, PopCounts
<1>3. Len(stk) \in Nat /\ Len(stk) <= MaxNest /\ MaxNest \in Nat
  BY <1>1, ConstantsOK DEF StackOK
<1>4. \A i \in 1..Len(stk') : i \in 1..Len(stk) BY <1>2, <1>3
<1>5. StackOK' BY <1>2, <1>3, <1>4 DEF StackOK, Placed
<1> QED BY <1>2, <1>5 DEF TOS

LEMMA StackCut ==
  ASSUME StackOK, stk' = AfterBreak
  PROVE  /\ StackOK'
         /\ NumBreaks(stk') + (IF BrokeOut THEN 1 ELSE 0) <= NumBreaks(stk)
<1>1. stk \in Seq(Entries) BY DEF StackOK
<1>2. /\ stk' \in Seq(Entries) /\ Len(stk') <= Len(stk)
      /\ \A i \in 1..Len(stk') : stk'[i] = stk[i]
      /\ NumBreaks(stk') + (IF BrokeOut THEN 1 ELSE 0) <= NumBreaks(stk)
  BY <1>1, AfterBreakCounts
<1>3. Len(stk) \in Nat /\ Len(stk') \in Nat /\ Len(stk) <= MaxNest /\ MaxNest \in Nat
  BY <1>1, <1>2, ConstantsOK DEF StackOK
<1>4. \A i \in 1..Len(stk') : i \in 1..Len(stk) BY <1>2, <1>3
<1>5. StackOK' BY SMTT(30), <1>2, <1>3, <1>4 DEF StackOK, Placed
<1> QED BY <1>2, <1>5

LEMMA StackSet ==
  ASSUME StackOK, Interpreting, NEW e \in Entries, Placed(e), e.brk = TOS.brk,
         stk' = SetTOS(e)
  PROVE  StackOK' /\ NumBreaks(stk') = NumBreaks(stk)
<1>1. /\ stk \in Seq(Entries) /\ stk # <<>> /\ e.brk = stk[Len(stk)].brk
      /\ stk' = WithTop(stk, e)
  BY DEF StackOK, Interpreting, TOS, SetTOS, WithTop
<1>2. /\ stk' \in Seq(Entries) /\ Len(stk') = Len(stk) /\ stk'[Len(stk)] = e
      /\ \A i \in 1..Len(stk) : i # Len(stk) => stk'[i] = stk[i]
      /\ NumBreaks(stk') = NumBreaks(stk)
  BY <1>1, SetCounts
<1>3. \A i \in 1..Len(stk) : Placed(stk'[i])
  BY <1>2 DEF StackOK
<1>4. StackOK' BY <1>2, <1>3 DEF StackOK, Placed
<1> QED BY <1>2, <1>4

LEMMA Pushed ==
  ASSUME NEW s \in Seq(Entries), Len(s) < MaxNest, \A i \in 1..Len(s) : Placed(s[i]),
         NEW e \in Entries, Placed(e), stk' = OnTop(s, e)
  PROVE  StackOK' /\ NumBreaks(stk') = NumBreaks(s) + Breaking(e)
<1> PICK t : t = OnTop(s, e) OBVIOUS
<1>1. stk' = t OBVIOUS
<1>2. /\ t \in Seq(Entries) /\ Len(t) = Len(s) + 1
      /\ NumBreaks(t) = NumBreaks(s) + Breaking(e)
  BY PushCounts
<1>3. Len(s) \in Nat /\ MaxNest \in Nat BY ConstantsOK
<1>4. \A i \in 1..Len(s) + 1 : i \in 1..Len(s) \/ i = Len(s) + 1 BY <1>3
<1>5. \A i \in 1..Len(t) : Placed(t[i]) BY <1>2, <1>4 DEF OnTop
<1>6. StackOK' BY SMTT(30), <1>1, <1>2, <1>3, <1>5 DEF StackOK, Placed
<1> QED BY <1>1, <1>2, <1>6

\* The token under the top's position is a command, a macro or a branch.
LEMMA TokenRead ==
  ASSUME StackOK, Interpreting, ~Exhausted(TOS)
  PROVE  /\ TOS.text \in DOMAIN Text /\ TOS.pos \in 1..Len(Text[TOS.text])
         /\ Text[TOS.text][TOS.pos] \in Tokens /\ Known(Text[TOS.text][TOS.pos])
         /\ Text[TOS.text][TOS.pos].k # "quote"
         /\ Moved(TOS, TOS.pos + 1, TOS.quoted) \in Entries
         /\ Placed(Moved(TOS, TOS.pos + 1, TOS.quoted))
         /\ Moved(TOS, TOS.pos + 1, TOS.quoted).brk = TOS.brk
<1>1. TOS \in Entries /\ Placed(TOS) BY TopOfStack
<1>2. TOS.text \in DOMAIN Text /\ TOS.quoted \in BOOLEAN BY <1>1 DEF Entries
<1>3. Len(Text[TOS.text]) \in Nat BY <1>2, TextFacts
<1>4. TOS.pos \in 1..Len(Text[TOS.text]) /\ Text[TOS.text][TOS.pos].k # "quote"
  BY <1>1, <1>3 DEF Placed, Exhausted
<1>5. Text[TOS.text][TOS.pos] \in Tokens /\ Known(Text[TOS.text][TOS.pos])
  BY <1>2, <1>4, TextFacts
<1>6. TOS.pos + 1 \in 1..Len(Text[TOS.text]) + 1 BY <1>3, <1>4
<1> QED BY <1>1, <1>2, <1>4, <1>5, <1>6, MovedPlaced
-----------------------------------------------------------------------------
(* Reading *)

\* The texts that break, with the one just popped.
Held    == NumBreaks(stk) + (IF rtnd THEN 1 ELSE 0)
HeldOK  == StackOK /\ CmdOK /\ FlagsOK
Reads   == HeldOK' /\ frames' = frames /\ Held' <= Held

LEMMA NoneIsCmd == None \in Tokens \cup {None} /\ None.k = "none" /\ Known(None)
BY DEF None, Tok, Known

\* Nothing is pushed or popped.
LEMMA KeepsHeld ==
  ASSUME StackOK', NumBreaks(stk') = NumBreaks(stk), rtnd' = rtnd
  PROVE  Held' = Held
BY DEF Held

LEMMA AbortReads ==
  ASSUME HeldOK, pc = "next", AbortUntilBreak
  PROVE  Reads
<1>1. /\ halt' = TRUE /\ args' = 0 /\ stk' = AfterBreak /\ pc' = "got" /\ cmd' = None
      /\ UNCHANGED <<frames, ret, sel, lit, keys>>
  BY DEF AbortUntilBreak, Got
<1>2. rtnd' = BrokeOut /\ BrokeOut \in BOOLEAN BY DEF AbortUntilBreak, BrokeOut
<1>3. StackOK' /\ NumBreaks(stk') + (IF BrokeOut THEN 1 ELSE 0) <= NumBreaks(stk)
  BY <1>1, StackCut DEF HeldOK
<1>4. CmdOK' BY <1>1, NoneIsCmd DEF CmdOK
<1>5. 0 \in 0..MaxArgs BY ConstantsOK
<1>6. FlagsOK' BY <1>1, <1>2, <1>5 DEF HeldOK, FlagsOK
<1>7. NumBreaks(stk) \in Nat /\ NumBreaks(stk') \in Nat
  BY <1>3, BreaksCount DEF HeldOK, StackOK
<1>8. Held' <= Held BY <1>2, <1>3, <1>7 DEF Held
<1> QED BY <1>1, <1>3, <1>4, <1>6, <1>8 DEF Reads, HeldOK

LEMMA HaltReads ==
  ASSUME HeldOK, pc = "next", HaltWhileReading
  PROVE  Reads
<1>1. /\ stk' = AfterBreak /\ pc' = "got" /\ cmd' = None
      /\ UNCHANGED <<frames, halt, ret, args, sel, lit, keys>>
  BY DEF HaltWhileReading, Got
<1>2. rtnd' = BrokeOut /\ BrokeOut \in BOOLEAN BY DEF HaltWhileReading, BrokeOut
<1>3. StackOK' /\ NumBreaks(stk') + (IF BrokeOut THEN 1 ELSE 0) <= NumBreaks(stk)
  BY <1>1, StackCut DEF HeldOK
<1>4. CmdOK' BY <1>1, NoneIsCmd DEF CmdOK
<1>5. FlagsOK' BY <1>1, <1>2 DEF HeldOK, FlagsOK
<1>7. NumBreaks(stk) \in Nat /\ NumBreaks(stk') \in Nat
  BY <1>3, BreaksCount DEF HeldOK, StackOK
<1>8. Held' <= Held BY <1>2, <1>3, <1>7 DEF Held
<1> QED BY <1>1, <1>3, <1>4, <1>5, <1>8 DEF Reads, HeldOK

LEMMA PopReads ==
  ASSUME HeldOK, pc = "next", Interpreting, PopMacro
  PROVE  Reads
<1>1. /\ stk' = SubSeq(stk, 1, Len(stk) - 1) /\ rtnd' = TOS.brk
      /\ UNCHANGED <<frames, halt, ret, args, sel, lit, keys>>
  BY DEF PopMacro
<1>2. (pc' = "got" /\ cmd' = None) \/ UNCHANGED <<pc, cmd>> BY DEF PopMacro, Got
<1>3. StackOK' /\ NumBreaks(stk') + (IF TOS.brk THEN 1 ELSE 0) = NumBreaks(stk)
  BY <1>1, StackPopped DEF HeldOK
<1>4. CmdOK' BY <1>2, NoneIsCmd DEF CmdOK, HeldOK
<1>5. TOS.brk \in BOOLEAN BY TopOfStack DEF HeldOK, Entries
<1>6. FlagsOK' BY <1>1, <1>2, <1>5 DEF HeldOK, FlagsOK
<1>7. NumBreaks(stk) \in Nat /\ NumBreaks(stk') \in Nat
  BY <1>3, BreaksCount DEF HeldOK, StackOK
<1>8. Held' <= Held BY <1>1, <1>3, <1>7 DEF Held
<1> QED BY <1>1, <1>3, <1>4, <1>6, <1>8 DEF Reads, HeldOK

\* The top is read on, with or without a command that returns.
LEMMA SetReads ==
  ASSUME HeldOK, Interpreting, NEW e \in Entries, Placed(e), e.brk = TOS.brk,
         stk' = SetTOS(e), ReadOnly, CmdOK', pc' \in {"next", "got"}
  PROVE  Reads
<1>1. UNCHANGED <<frames, halt, rtnd, ret, args, sel, lit, keys>> BY DEF ReadOnly
<1>2. StackOK' /\ NumBreaks(stk') = NumBreaks(stk) BY StackSet DEF HeldOK
<1>3. FlagsOK' BY <1>1 DEF HeldOK, FlagsOK
<1>4. NumBreaks(stk) \in Nat BY BreaksCount DEF HeldOK, StackOK
<1>5. Held' <= Held BY <1>1, <1>2, <1>4 DEF Held
<1> QED BY <1>1, <1>2, <1>3, <1>5 DEF Reads, HeldOK

LEMMA ExpandReads ==
  ASSUME HeldOK, pc = "next", Interpreting, NEW e \in Entries, Placed(e), e.brk = TOS.brk,
         NEW n \in DOMAIN Text, ExpandMacro(e, n)
  PROVE  Reads
<1>1. UNCHANGED <<frames, pc, cmd, rtnd, args, sel, lit, keys>>
  BY DEF ExpandMacro
<1>2. halt' \in BOOLEAN /\ ret' \in BOOLEAN BY DEF ExpandMacro, HeldOK, FlagsOK
<1>3. StackOK' /\ NumBreaks(stk') = NumBreaks(stk)
  <2>1. CASE Full
    <3>1. stk' = SetTOS(e) BY <2>1 DEF ExpandMacro
    <3> QED BY <3>1, StackSet DEF HeldOK
  <2>2. CASE ~Full
    <3>1. PICK s : s = SetTOS(e) OBVIOUS
    <3>2. stk' = OnTop(s, Entry(n, FALSE)) BY <2>2, <3>1 DEF ExpandMacro, OnTop
    <3>3. /\ stk \in Seq(Entries) /\ stk # <<>> /\ e.brk = stk[Len(stk)].brk
          /\ s = WithTop(stk, e) /\ Len(stk) <= MaxNest
          /\ \A i \in 1..Len(stk) : Placed(stk[i])
      BY <3>1 DEF HeldOK, StackOK, Interpreting, TOS, SetTOS, WithTop
    <3>4. /\ s \in Seq(Entries) /\ Len(s) = Len(stk) /\ s[Len(stk)] = e
          /\ \A i \in 1..Len(stk) : i # Len(stk) => s[i] = stk[i]
          /\ NumBreaks(s) = NumBreaks(stk)
      BY <3>3, SetCounts
    <3>5. \A i \in 1..Len(s) : Placed(s[i]) BY <3>3, <3>4
    <3>6. Len(s) < MaxNest
      BY <2>2, <3>3, <3>4, ConstantsOK DEF Full
    <3>7. PICK new : new = Entry(n, FALSE) OBVIOUS
    <3>8. new \in Entries /\ Placed(new) /\ Breaking(new) = 0
      BY <3>7, EntryPlaced DEF Breaking
    <3>9. StackOK' /\ NumBreaks(stk') = NumBreaks(s) + Breaking(new)
      <4>1. stk' = OnTop(s, new) BY <3>2, <3>7
      <4> QED BY <4>1, <3>4, <3>5, <3>6, <3>8, Pushed
    <3>10. NumBreaks(s) \in Nat BY <3>4, BreaksCount
    <3> QED BY <3>4, <3>8, <3>9, <3>10
  <2> QED BY <2>1, <2>2
<1>4. CmdOK' BY <1>1 DEF CmdOK, HeldOK
<1>5. FlagsOK' BY <1>1, <1>2 DEF HeldOK, FlagsOK
<1>6. NumBreaks(stk) \in Nat BY BreaksCount DEF HeldOK, StackOK
<1>7. Held' <= Held BY <1>1, <1>3, <1>6 DEF Held
<1> QED BY <1>1, <1>3, <1>4, <1>5, <1>7 DEF Reads, HeldOK

\* A label is at a position of its text.
LEMMA LabelsInText ==
  ASSUME NEW t, NEW l, NEW quoted
  PROVE  LabelsAt(t, l, quoted) \in SUBSET (1..Len(t))
<1>1. ReadAsToken(t, quoted) \subseteq 1..Len(t) BY DEF ReadAsToken
<1> QED BY <1>1 DEF LabelsAt

\* The literal character is a command.
LEMMA CharIsCmd == Char \in Tokens /\ Char.k = "graphic" /\ Known(Char)
<1>1. Char = [k |-> "graphic", x |-> "c"] BY DEF Char, Tok
<1>2. Char \in [k : Commands \cup {"macro", "label", "quote", "unknown"}, x : STRING]
  <2>1. "c" \in STRING BY ConstantsOK
  <2> QED BY <1>1, <2>1 DEF Commands
<1>3. Char.k = "graphic" /\ Char.x = "c" BY <1>1
<1>4. Known(Char) BY <1>3, ConstantsOK DEF Known
<1> QED BY <1>2, <1>3, <1>4 DEF Tokens

\* A branch ends the macro, goes on behind it or goes to the label.
LEMMA BranchReads ==
  ASSUME HeldOK, pc = "next", Interpreting, NEW e \in Entries, Placed(e), e.brk = TOS.brk,
         e.text = TOS.text, NEW b, Branch(e, b)
  PROVE  Reads
<1>1. CASE ~Taken(b)
  BY <1>1, SetReads DEF Branch, CmdOK, HeldOK
<1>2. CASE Taken(b) /\ b.l = ""
  BY <1>2, PopReads DEF Branch
<1>3. CASE Taken(b) /\ b.l # "" /\ LabelPositions(e, b.l) = {}
  BY <1>3, AbortReads DEF Branch
<1>4. CASE Taken(b) /\ b.l # "" /\ LabelPositions(e, b.l) # {}
  <2>1. PICK at : at = LabelPositions(e, b.l) OBVIOUS
  <2>2. /\ stk' = SetTOS(Moved(e, Min(at) + 1, FALSE))
        /\ UNCHANGED <<pc, cmd>> /\ ReadOnly
    BY <1>4, <2>1 DEF Branch
  <2>3. e.text \in DOMAIN Text /\ Len(Text[e.text]) \in Nat
    BY TextFacts DEF Entries
  <2>4. at \in SUBSET (1..Len(Text[e.text])) /\ at \in SUBSET Nat /\ at # {}
    <3> PICK n : n = Len(Text[e.text]) OBVIOUS
    <3>1. at \in SUBSET (1..n) /\ n \in Nat
      BY <2>1, <2>3, LabelsInText DEF LabelPositions
    <3>2. 1..n \subseteq Nat BY <3>1
    <3> QED BY <1>4, <2>1, <3>1, <3>2
  <2>5. Min(at) \in at BY <2>4, LeastNumber DEF Min
  <2>6. PICK p : p = Min(at) + 1 OBVIOUS
  <2>7. p \in 1..Len(Text[e.text]) + 1
    <3> PICK n, m : n = Len(Text[e.text]) /\ m = Min(at) OBVIOUS
    <3>1. m \in 1..n /\ n \in Nat /\ p = m + 1 BY <2>3, <2>4, <2>5, <2>6
    <3>2. p \in 1..n + 1 BY <3>1
    <3> QED BY <3>2
  <2>8. PICK no \in BOOLEAN : no = FALSE OBVIOUS
  <2>9. PICK new : new = Moved(e, p, no) OBVIOUS
  <2>10. new \in Entries /\ Placed(new) /\ new.brk = e.brk
    BY <2>7, <2>9, MovedPlaced
  <2>11. stk' = SetTOS(new) BY <2>2, <2>6, <2>8, <2>9
  <2> QED BY <2>2, <2>10, <2>11, SetReads DEF CmdOK, HeldOK
<1> QED BY <1>1, <1>2, <1>3, <1>4

\* A text that is read gives commands the program knows, and pops no more texts
\* that break than it accounts for.
LEMMA MacroReads ==
  ASSUME HeldOK, ReadMacro
  PROVE  Reads
<1>1. pc = "next" /\ Interpreting BY DEF ReadMacro, Reading
<1>2. CASE Exhausted(TOS)
  <2>1. PopMacro BY <1>2 DEF ReadMacro
  <2> QED BY <1>1, <2>1, PopReads
<1>3. CASE ~Exhausted(TOS) /\ halt
  <2>1. HaltWhileReading BY <1>3 DEF ReadMacro
  <2> QED BY <1>1, <2>1, HaltReads
<1>4. CASE ~Exhausted(TOS) /\ ~halt
  <2> PICK t, e : t = Text[TOS.text][TOS.pos] /\ e = Moved(TOS, TOS.pos + 1, TOS.quoted)
    OBVIOUS
  <2>1. /\ t \in Tokens /\ Known(t) /\ t.k # "quote"
        /\ e \in Entries /\ Placed(e) /\ e.brk = TOS.brk
    BY <1>1, <1>4, TokenRead DEF HeldOK
  <2>2. e.text = TOS.text
    <3>1. TOS \in Entries BY <1>1, TopOfStack DEF HeldOK
    <3>2. PICK a : a = Advance(Text[TOS.text], TOS.pos + 1, TOS.quoted) OBVIOUS
    <3>3. e = [TOS EXCEPT !.pos = a.pos, !.quoted = a.quoted] BY <3>2 DEF Moved
    <3> QED BY <3>1, <3>3 DEF Entries
  <2>3. \/ TOS.quoted /\ Got(Char) /\ stk' = SetTOS(e) /\ ReadOnly
        \/ t.k = "macro" /\ ExpandMacro(e, t.x)
        \/ t.k = "label" /\ stk' = SetTOS(e) /\ UNCHANGED <<pc, cmd>> /\ ReadOnly
        \/ t.k = "branch" /\ Branch(e, t)
        \/ AbortUntilBreak
        \/ /\ t.k \notin {"macro", "label", "branch", "unknown"}
           /\ Got(t) /\ stk' = SetTOS(e) /\ ReadOnly
    BY <1>4 DEF ReadMacro
  <2>4. CASE TOS.quoted /\ Got(Char) /\ stk' = SetTOS(e) /\ ReadOnly
    <3>1. CmdOK' /\ pc' = "got" BY <2>4, CharIsCmd DEF Got, CmdOK, Commands
    <3> QED BY <1>1, <2>1, <2>4, <3>1, SetReads
  <2>5. CASE t.k = "macro" /\ ExpandMacro(e, t.x)
    <3>1. t.x \in DOMAIN Text BY <2>1, <2>5 DEF Known
    <3> QED BY <1>1, <2>1, <2>5, <3>1, ExpandReads
  <2>6. CASE t.k = "label" /\ stk' = SetTOS(e) /\ UNCHANGED <<pc, cmd>> /\ ReadOnly
    <3>1. CmdOK' /\ pc' = "next" BY <1>1, <2>6 DEF CmdOK, HeldOK
    <3> QED BY <1>1, <2>1, <2>6, <3>1, SetReads
  <2>7. CASE t.k = "branch" /\ Branch(e, t)
    BY <1>1, <2>1, <2>2, <2>7, BranchReads
  <2>8. CASE AbortUntilBreak
    BY <1>1, <2>8, AbortReads
  <2>9. CASE /\ t.k \notin {"macro", "label", "branch", "unknown"}
             /\ Got(t) /\ stk' = SetTOS(e) /\ ReadOnly
    <3>1. t.k \in Commands BY <2>1, <2>9 DEF Tokens, Commands
    <3>2. CmdOK' /\ pc' = "got" BY <2>1, <2>9, <3>1 DEF Got, CmdOK
    <3> QED BY <1>1, <2>1, <2>9, <3>2, SetReads
  <2> QED BY <2>3, <2>4, <2>5, <2>6, <2>7, <2>8, <2>9
<1> QED BY <1>2, <1>3, <1>4

\* A key gives a command, or the text of a macro on an empty stack.
LEMMA KeyReads ==
  ASSUME HeldOK, ReadKey
  PROVE  Reads
<1>1. /\ pc = "next" /\ stk = <<>> /\ keys < MaxKeys /\ keys' = keys + 1
      /\ UNCHANGED <<frames, halt, rtnd, args, sel, lit>>
  BY DEF ReadKey, Reading, Interpreting
<1>2. keys' \in 0..MaxKeys BY <1>1, ConstantsOK DEF HeldOK, FlagsOK
<1>3. PICK key \in Keys :
        \/ (key.k # "macro" \/ halt) /\ Got(IF halt THEN None ELSE key) /\ UNCHANGED <<stk, ret>>
        \/ key.k = "macro" /\ stk' = Push(key.x, FALSE) /\ ret' = TRUE /\ UNCHANGED <<pc, cmd>>
  BY DEF ReadKey
<1>4. key \in Tokens /\ key.k \in Commands \cup {"macro"} /\ Known(key)
  BY ConstantsOK
<1>5. NumBreaks(stk) \in Nat BY BreaksCount DEF HeldOK, StackOK
<1>6. CASE (key.k # "macro" \/ halt) /\ Got(IF halt THEN None ELSE key) /\ UNCHANGED <<stk, ret>>
  <2>1. cmd' = None \/ (cmd' = key /\ key.k # "macro") BY <1>6 DEF Got
  <2>2. CmdOK' BY <1>4, <2>1, NoneIsCmd DEF CmdOK
  <2>3. StackOK' BY <1>6 DEF HeldOK, StackOK, Placed
  <2>4. FlagsOK' BY <1>1, <1>2, <1>6 DEF HeldOK, FlagsOK, Got
  <2>5. Held' <= Held BY <1>1, <1>5, <1>6 DEF Held, NumBreaks, BreaksIn
  <2> QED BY <1>1, <2>2, <2>3, <2>4, <2>5 DEF Reads, HeldOK
<1>7. CASE key.k = "macro" /\ stk' = Push(key.x, FALSE) /\ ret' = TRUE /\ UNCHANGED <<pc, cmd>>
  <2>1. key.x \in DOMAIN Text BY <1>4, <1>7 DEF Known
  <2>2. PICK new : new = Entry(key.x, FALSE) OBVIOUS
  <2>3. new \in Entries /\ Placed(new) /\ Breaking(new) = 0
    BY <2>1, <2>2, EntryPlaced DEF Breaking
  <2>4. stk' = OnTop(stk, new) BY <1>7, <2>2 DEF Push, OnTop
  <2>5. /\ stk \in Seq(Entries) /\ Len(stk) < MaxNest
        /\ \A i \in 1..Len(stk) : Placed(stk[i])
    BY <1>1, ConstantsOK DEF HeldOK, StackOK
  <2>6. StackOK' /\ NumBreaks(stk') = NumBreaks(stk) + Breaking(new)
    BY <2>3, <2>4, <2>5, Pushed
  <2>7. CmdOK' BY <1>7 DEF HeldOK, CmdOK
  <2>8. FlagsOK' BY <1>1, <1>2, <1>7 DEF HeldOK, FlagsOK
  <2>9. Held' <= Held BY <1>1, <1>5, <2>3, <2>6 DEF Held
  <2> QED BY <1>1, <2>6, <2>7, <2>8, <2>9 DEF Reads, HeldOK
<1> QED BY <1>3, <1>6, <1>7

LEMMA StopReads ==
  ASSUME HeldOK, StopReading
  PROVE  Reads
<1>1. /\ pc' = "got" /\ cmd' = None /\ UNCHANGED stk
      /\ UNCHANGED <<frames, halt, rtnd, ret, args, sel, lit, keys>>
  BY DEF StopReading, Got, ReadOnly
<1>2. StackOK' BY <1>1 DEF HeldOK, StackOK, Placed
<1>3. CmdOK' BY <1>1, NoneIsCmd DEF CmdOK
<1>4. FlagsOK' BY <1>1 DEF HeldOK, FlagsOK
<1>5. NumBreaks(stk) \in Nat BY BreaksCount DEF HeldOK, StackOK
<1>6. Held' <= Held BY <1>1, <1>5 DEF Held, NumBreaks, BreaksIn
<1> QED BY <1>1, <1>2, <1>3, <1>4, <1>6 DEF Reads, HeldOK
-----------------------------------------------------------------------------
(* Executing a command *)

\* What a command leaves: it changes neither the stack nor the balance.
Runs ==
  /\ CallsOK(frames') /\ NumExecs(frames') = NumExecs(frames)
  /\ FlagsOK' /\ CmdOK' /\ UNCHANGED <<stk, rtnd>>

\* A command is called or returns, with flags of their types.
LEMMA CommandRuns ==
  ASSUME FlagsOK, FramesOK, NEW f, CallsOK(f), NumExecs(f) = NumExecs(frames),
         NEW c \in Tokens, Known(c), NEW l \in BOOLEAN, Run(f, c, l)
  PROVE  Runs
<1>1. cmd' = None /\ UNCHANGED <<stk, rtnd, keys>> BY DEF Run
<1>2. CmdOK' BY <1>1, NoneIsCmd DEF CmdOK
<1>3. /\ halt \in BOOLEAN /\ ret \in BOOLEAN /\ sel \in BOOLEAN /\ lit \in BOOLEAN
      /\ rtnd' \in BOOLEAN /\ args \in 0..MaxArgs /\ keys' \in 0..MaxKeys
  BY <1>1 DEF FlagsOK
<1>4. MaxArgs \in Nat /\ MaxArgs > 0 /\ 0 \in 0..MaxArgs /\ 1 \in 0..MaxArgs
  BY ConstantsOK
<1>5. NumExecs(f) \in Nat BY ExecsCount DEF CallsOK
<1>6. ASSUME NEW e \in Frames, e.k \notin {"main", "exec"}, frames' = OnTop(f, e)
      PROVE  CallsOK(frames') /\ NumExecs(frames') = NumExecs(frames)
  <2>1. PICK g : g = OnTop(f, e) OBVIOUS
  <2>2. e.k # "main" /\ e.k # "exec" BY <1>6
  <2>3. CallsOK(g) /\ NumExecs(g) = NumExecs(f) + (IF e.k = "exec" THEN 1 ELSE 0)
    BY <2>1, <2>2, CallCounts
  <2>4. NumExecs(g) = NumExecs(f) BY <1>5, <2>2, <2>3
  <2> QED BY <1>6, <2>1, <2>3, <2>4
<1>7. ASSUME frames' = f
      PROVE  CallsOK(frames') /\ NumExecs(frames') = NumExecs(frames)
  BY <1>7
<1>8. ASSUME BadArgument(f) PROVE Runs
  <2>1. /\ halt' \in BOOLEAN /\ ret' \in BOOLEAN /\ sel' \in BOOLEAN /\ lit' \in BOOLEAN
        /\ args' = 0 /\ pc' = "head" /\ frames' = f
    BY <1>8 DEF BadArgument
  <2>2. FlagsOK' BY <1>3, <1>4, <2>1 DEF FlagsOK
  <2> QED BY <1>1, <1>2, <1>7, <2>1, <2>2 DEF Runs
<1>9. CASE StartArg(f)
  <2>1. CASE args # 0
    <3>1. pc' = "aborted" /\ UNCHANGED <<frames, halt, ret, args, sel, lit>>
      BY <1>9, <2>1 DEF StartArg
    <3>2. FlagsOK' BY <1>3, <3>1 DEF FlagsOK
    <3> QED BY <1>1, <1>2, <3>1, <3>2 DEF Runs, FramesOK
  <2>2. CASE args = 0
    <3>1. /\ args' = 1 /\ sel' \in BOOLEAN /\ pc' = "next" /\ UNCHANGED <<halt, ret, lit>>
          /\ frames' = OnTop(f, Frame("arg"))
      BY <1>9, <2>2 DEF StartArg, OnTop
    <3>2. FlagsOK' BY <1>3, <1>4, <3>1 DEF FlagsOK
    <3> QED BY <1>1, <1>2, <1>6, <3>1, <3>2, FrameTypes DEF Runs
  <2> QED BY <2>1, <2>2
<1>10. CASE LastSelect(f)
  <2>1. CASE args > 0
    BY <1>8, <1>10, <2>1 DEF LastSelect
  <2>2. CASE ~(args > 0)
    <3>1. /\ args' = 1 /\ sel' \in BOOLEAN /\ lit' \in BOOLEAN /\ pc' = "next"
          /\ UNCHANGED <<halt, ret>> /\ frames' = OnTop(f, Frame("arg"))
      BY <1>10, <2>2 DEF LastSelect, OnTop
    <3>2. FlagsOK' BY <1>3, <1>4, <3>1 DEF FlagsOK
    <3> QED BY <1>1, <1>2, <1>6, <3>1, <3>2, FrameTypes DEF Runs
  <2> QED BY <2>1, <2>2
<1>11. CASE LastText(f, l)
  <2>1. CASE args > 0 /\ l
    BY <1>8, <1>11, <2>1 DEF LastText
  <2>2. CASE ~(args > 0 /\ l)
    <3>1. /\ sel' \in BOOLEAN /\ lit' \in BOOLEAN /\ pc' = "next"
          /\ UNCHANGED <<halt, ret>> /\ frames' = OnTop(f, Frame("text"))
      BY <1>11, <2>2 DEF LastText, OnTop
    <3>2. args' = IF args > 0 /\ (sel \/ args = MaxArgs) THEN args ELSE args + 1
      BY <1>11, <2>2 DEF LastText
    <3>3. args' = args \/ (args' = args + 1 /\ args # MaxArgs)
      BY <1>3, <1>4, <3>2
    <3>4. args' \in 0..MaxArgs BY <1>3, <1>4, <3>3
    <3>5. FlagsOK' BY <1>3, <3>1, <3>4 DEF FlagsOK
    <3> QED BY <1>1, <1>2, <1>6, <3>1, <3>5, FrameTypes DEF Runs
  <2> QED BY <2>1, <2>2
<1>12. CASE MoveCursor(f)
  <2>1. sel' \in BOOLEAN /\ ret' \in BOOLEAN BY <1>3, <1>12 DEF MoveCursor
  <2>2. frames' = f /\ pc' \in {"next", "head"} /\ UNCHANGED <<halt, args, lit>>
    BY <1>12 DEF MoveCursor
  <2>3. FlagsOK' BY <1>3, <2>1, <2>2 DEF FlagsOK
  <2> QED BY <1>1, <1>2, <1>7, <2>2, <2>3 DEF Runs
<1>13. CASE RunPlain(f, c, l)
  <2>1. ret' \in BOOLEAN /\ halt' \in BOOLEAN /\ lit' \in BOOLEAN /\ sel' \in BOOLEAN
    BY <1>13 DEF RunPlain
  <2>2. frames' = f /\ pc' = "head" /\ args' = 0 BY <1>13 DEF RunPlain
  <2>3. FlagsOK' BY <1>3, <1>4, <2>1, <2>2 DEF FlagsOK
  <2> QED BY <1>1, <1>2, <1>7, <2>2, <2>3 DEF Runs
<1>14. CASE c.k = "script" /\ RunScript(f, c)
  <2>1. sel' \in BOOLEAN /\ lit' \in BOOLEAN BY <1>14 DEF RunScript
  <2>2. /\ args' = 0 /\ pc' = "head" /\ UNCHANGED <<halt, ret>>
        /\ frames' = OnTop(f, CmdFrame(Script[c.x]))
    BY <1>14 DEF RunScript, OnTop
  <2>3. Script[c.x] \in Seq(DOMAIN Text) BY <1>14, ConstantsOK DEF Known
  <2>4. FlagsOK' BY <1>3, <1>4, <2>1, <2>2 DEF FlagsOK
  <2> QED BY <1>1, <1>2, <1>6, <2>2, <2>3, <2>4, FrameTypes DEF Runs
<1> QED BY <1>9, <1>10, <1>11, <1>12, <1>13, <1>14 DEF Run

\* A command starts for a reader that it replaces, or for one that stays.
LEMMA ReaderGone ==
  ASSUME FramesOK, Top.k \in {"arg", "text", "cmd"}
  PROVE  CallsOK(Below) /\ NumExecs(Below) = NumExecs(frames)
<1>1. Top = frames[Len(frames)] /\ Len(frames) # 1 BY OnlyMain
<1>2. frames \in Seq(Frames) /\ CallsOK(frames) /\ Len(frames) > 1
  BY <1>1 DEF FramesOK, CallsOK
<1>3. PICK g : g = Below OBVIOUS
<1>4. g = SubSeq(frames, 1, Len(frames) - 1) BY <1>3 DEF Below
<1>5. CallsOK(g) /\ NumExecs(g) + (IF frames[Len(frames)].k = "exec" THEN 1 ELSE 0) = NumExecs(frames)
  BY <1>2, <1>4, ReturnCounts
<1>6. NumExecs(g) \in Nat BY <1>5, ExecsCount DEF CallsOK
<1> QED BY <1>1, <1>3, <1>5, <1>6

\* The loop that a text ended is gone with it.
LEMMA LoopGone ==
  ASSUME FramesOK, Top.k = "exec"
  PROVE  CallsOK(Below) /\ NumExecs(Below) + 1 = NumExecs(frames)
<1>1. Top = frames[Len(frames)] /\ Len(frames) # 1 BY OnlyMain
<1>2. frames \in Seq(Frames) /\ CallsOK(frames) /\ Len(frames) > 1
  BY <1>1 DEF FramesOK, CallsOK
<1>3. PICK g : g = Below OBVIOUS
<1>4. g = SubSeq(frames, 1, Len(frames) - 1) BY <1>3 DEF Below
<1>5. CallsOK(g) /\ NumExecs(g) + (IF frames[Len(frames)].k = "exec" THEN 1 ELSE 0) = NumExecs(frames)
  BY <1>2, <1>4, ReturnCounts
<1> QED BY <1>1, <1>3, <1>5

\* The token that returned is one the program can execute.
LEMMA CmdExecutes ==
  ASSUME CmdOK, cmd # None
  PROVE  cmd \in Tokens /\ Known(cmd)
BY DEF CmdOK
-----------------------------------------------------------------------------
(* The inductive invariant *)

\* What reads, and what executes, keeps the balance.
LEMMA ReadsKeep ==
  ASSUME IInv, Reads
  PROVE  IInv'
<1>1. /\ HeldOK' /\ frames' = frames /\ Held' <= Held /\ Held <= NumExecs(frames)
  BY DEF Reads, Held, IInv, Balanced
<1>2. NumBreaks(stk) \in Nat /\ NumBreaks(stk') \in Nat /\ NumExecs(frames) \in Nat
  BY <1>1, BreaksCount, ExecsCount DEF HeldOK, IInv, StackOK, FramesOK, CallsOK
<1>3. Held \in Int /\ Held' \in Int BY <1>2 DEF Held
<1>4. Held' <= NumExecs(frames') BY <1>1, <1>2, <1>3
<1>5. Balanced' BY <1>4 DEF Balanced, Held
<1>6. FramesOK' BY <1>1 DEF IInv, FramesOK, CallsOK
<1> QED BY <1>1, <1>5, <1>6 DEF IInv, HeldOK

LEMMA RunsKeep ==
  ASSUME IInv, Runs
  PROVE  IInv'
<1>1. StackOK' BY DEF IInv, Runs, StackOK, Placed
<1>2. FramesOK' BY DEF Runs, FramesOK
<1>3. Balanced' BY DEF IInv, Runs, Balanced, NumBreaks, BreaksIn
<1> QED BY <1>1, <1>2, <1>3 DEF IInv, Runs

LEMMA InitInv == Init => IInv
<1> SUFFICES ASSUME Init PROVE IInv OBVIOUS
<1>1. /\ stk = <<>> /\ frames = <<Frame("main")>> /\ pc = "head" /\ cmd = None
      /\ halt = FALSE /\ rtnd = FALSE /\ ret = FALSE /\ args = 0
      /\ sel = FALSE /\ lit = FALSE /\ keys = 0
  BY DEF Init
<1>2. StackOK
  <2>1. stk \in Seq(Entries) /\ Len(stk) = 0 BY <1>1
  <2> QED BY <2>1, ConstantsOK DEF StackOK
<1>3. FramesOK /\ NumExecs(frames) \in Nat
  <2>1. PICK f : f = Frame("main") OBVIOUS
  <2>2. f \in Frames /\ f.k = "main" BY <2>1 DEF Frame, Frames
  <2>3. frames \in Seq(Frames) /\ Len(frames) = 1 /\ frames[1] = f BY <1>1, <2>1, <2>2
  <2>4. FramesOK BY <2>2, <2>3 DEF FramesOK, CallsOK
  <2> QED BY <2>3, <2>4, ExecsCount
<1>4. CmdOK BY <1>1, NoneIsCmd DEF CmdOK
<1>5. FlagsOK
  <2>1. 0 \in 0..MaxArgs /\ 0 \in 0..MaxKeys BY ConstantsOK
  <2>2. args \in 0..MaxArgs /\ keys \in 0..MaxKeys BY <1>1, <2>1
  <2>3. /\ halt \in BOOLEAN /\ rtnd \in BOOLEAN /\ ret \in BOOLEAN
        /\ sel \in BOOLEAN /\ lit \in BOOLEAN
    BY <1>1
  <2>4. pc \in {"head", "next", "got", "aborted"} BY <1>1
  <2> QED BY <2>2, <2>3, <2>4 DEF FlagsOK
<1>6. Balanced
  <2>1. BreaksIn(stk) = {} BY <1>1 DEF BreaksIn
  <2>2. NumBreaks(stk) = 0 BY <2>1, FS_EmptySet DEF NumBreaks
  <2> QED BY <1>1, <1>3, <2>2 DEF Balanced
<1> QED BY <1>2, <1>3, <1>4, <1>5, <1>6 DEF IInv

\* A loop that ends consumes the text that ended it.
LEMMA EndKeeps ==
  ASSUME IInv, LoopEnds
  PROVE  IInv'
<1>1. /\ Top.k \in {"main", "exec"} /\ rtnd /\ frames' = Below
      /\ UNCHANGED <<stk, pc, cmd, halt, ret, args, sel, lit, keys>>
  BY DEF LoopEnds
<1>2. rtnd' = FALSE BY DEF LoopEnds
<1>3. /\ FramesOK /\ StackOK /\ NumBreaks(stk) \in Nat /\ NumExecs(frames) \in Nat
      /\ NumBreaks(stk) + 1 <= NumExecs(frames)
  <2>1. FramesOK /\ StackOK BY DEF IInv
  <2>2. NumBreaks(stk) + 1 <= NumExecs(frames) BY <1>1 DEF IInv, Balanced
  <2> QED BY <2>1, <2>2, BreaksCount, ExecsCount DEF StackOK, FramesOK, CallsOK
<1>4. Top.k = "exec"
  <2>1. NumExecs(frames) # 0 BY <1>3
  <2>2. Top.k # "main" BY <1>3, <2>1, OnlyMain
  <2> QED BY <1>1, <2>2
<1>5. CallsOK(Below) /\ NumExecs(Below) + 1 = NumExecs(frames)
  BY <1>3, <1>4, LoopGone
<1>6. StackOK' BY <1>1, <1>3 DEF StackOK, Placed
<1>7. FramesOK' BY <1>1, <1>5 DEF FramesOK
<1>8. CmdOK' BY <1>1 DEF IInv, CmdOK
<1>9. FlagsOK' BY <1>1, <1>2 DEF IInv, FlagsOK
<1>10. Balanced'
  <2>1. NumExecs(Below) \in Nat BY <1>5, ExecsCount DEF CallsOK
  <2>2. NumBreaks(stk') = NumBreaks(stk) BY <1>1
  <2>3. NumBreaks(stk') + 0 <= NumExecs(frames')
    BY <1>1, <1>3, <1>5, <2>1, <2>2
  <2> QED BY <1>2, <2>3 DEF Balanced
<1> QED BY <1>6, <1>7, <1>8, <1>9, <1>10 DEF IInv

\* A halt takes one text that breaks with the loop that ends, or is caught
\* where there is none.
LEMMA CleanupKeeps ==
  ASSUME IInv, CleanupHalt
  PROVE  IInv'
<1>1. /\ Top.k \in {"main", "exec"} /\ stk' = AfterBreak
      /\ UNCHANGED <<cmd, ret, args, sel, lit, keys>>
  BY DEF CleanupHalt
<1>2. FramesOK /\ StackOK /\ FlagsOK BY DEF IInv
<1>3. /\ StackOK' /\ NumBreaks(stk') + (IF BrokeOut THEN 1 ELSE 0) <= NumBreaks(stk)
      /\ BrokeOut <=> NumBreaks(stk) # 0
  BY <1>1, <1>2, StackCut, AfterBreakCounts DEF StackOK
<1>4. /\ NumBreaks(stk) \in Nat /\ NumBreaks(stk') \in Nat /\ NumExecs(frames) \in Nat
      /\ NumBreaks(stk) <= NumExecs(frames)
  <2>1. NumBreaks(stk) \in Nat /\ NumBreaks(stk') \in Nat /\ NumExecs(frames) \in Nat
    BY <1>2, <1>3, BreaksCount, ExecsCount DEF StackOK, FramesOK, CallsOK
  <2>2. Held <= NumExecs(frames) BY DEF Held, IInv, Balanced
  <2>3. Held = NumBreaks(stk) + 1 \/ Held = NumBreaks(stk) + 0 BY DEF Held
  <2> QED BY <2>1, <2>2, <2>3
<1>5. CmdOK' BY <1>1 DEF IInv, CmdOK
<1>6. CASE Top.k = "main"
  <2>1. NumExecs(frames) = 0 BY <1>2, <1>6, OnlyMain
  <2>2. NumBreaks(stk) = 0 /\ NumBreaks(stk') = 0 /\ ~BrokeOut BY <1>3, <1>4, <2>1
  <2>3. /\ halt' = FALSE /\ pc' = "next" /\ UNCHANGED frames
        /\ rtnd' = (Interpreting /\ BrokeOut)
    BY <1>6 DEF CleanupHalt, Catches
  <2>4. rtnd' = FALSE BY <2>2, <2>3
  <2>5. FlagsOK' BY <1>1, <1>2, <2>3, <2>4 DEF FlagsOK
  <2>6. Balanced' BY <2>1, <2>2, <2>3, <2>4 DEF Balanced
  <2>7. FramesOK' BY <1>2, <2>3 DEF FramesOK, CallsOK
  <2> QED BY <1>3, <1>5, <2>5, <2>6, <2>7 DEF IInv
<1>7. CASE Top.k = "exec"
  <2>1. rtnd' = FALSE BY <1>7 DEF CleanupHalt, Catches
  <2>2. frames' = Below /\ UNCHANGED <<halt, pc>> BY <1>7 DEF CleanupHalt, Catches
  <2>3. CallsOK(Below) /\ NumExecs(Below) + 1 = NumExecs(frames)
    BY <1>2, <1>7, LoopGone
  <2>4. NumExecs(Below) \in Nat BY <2>3, ExecsCount DEF CallsOK
  <2>5. NumBreaks(stk') <= NumExecs(Below)
    BY <1>3, <1>4, <2>3, <2>4
  <2>6. FlagsOK' BY <1>1, <1>2, <2>1, <2>2 DEF FlagsOK
  <2>7. FramesOK' BY <2>2, <2>3 DEF FramesOK
  <2>8. NumBreaks(stk') + 0 <= NumExecs(frames') BY <1>4, <2>2, <2>4, <2>5
  <2>9. Balanced' BY <2>1, <2>8 DEF Balanced
  <2> QED BY <1>3, <1>5, <2>6, <2>7, <2>9 DEF IInv
<1> QED BY <1>1, <1>6, <1>7

LEMMA FetchKeeps ==
  ASSUME IInv, LoopFetches
  PROVE  IInv'
<1>1. pc' = "next" /\ UNCHANGED <<stk, frames, cmd, halt, rtnd, ret, args, sel, lit, keys>>
  BY DEF LoopFetches
<1>2. FlagsOK' BY <1>1 DEF IInv, FlagsOK
<1>3. StackOK' BY <1>1 DEF IInv, StackOK, Placed
<1>4. FramesOK' /\ CmdOK' BY <1>1 DEF IInv, FramesOK, CallsOK, CmdOK
<1>5. Balanced' BY <1>1 DEF IInv, Balanced, NumBreaks, BreaksIn
<1> QED BY <1>2, <1>3, <1>4, <1>5 DEF IInv

LEMMA ExecuteKeeps ==
  ASSUME IInv, LoopExecutes
  PROVE  IInv'
<1>1. CASE cmd = None
  <2>1. pc' = "head" /\ UNCHANGED <<stk, frames, cmd, halt, rtnd, ret, args, sel, lit, keys>>
    BY <1>1 DEF LoopExecutes
  <2>2. FlagsOK' BY <2>1 DEF IInv, FlagsOK
  <2>3. StackOK' BY <2>1 DEF IInv, StackOK, Placed
  <2>4. FramesOK' /\ CmdOK' BY <2>1 DEF IInv, FramesOK, CallsOK, CmdOK
  <2>5. Balanced' BY <2>1 DEF IInv, Balanced, NumBreaks, BreaksIn
  <2> QED BY <2>2, <2>3, <2>4, <2>5 DEF IInv
<1>2. CASE cmd # None
  <2>1. Run(frames, cmd, lit) BY <1>2 DEF LoopExecutes
  <2>2. cmd \in Tokens /\ Known(cmd) BY <1>2, CmdExecutes DEF IInv
  <2>3. FlagsOK /\ FramesOK /\ CallsOK(frames) /\ lit \in BOOLEAN
    BY DEF IInv, FramesOK, FlagsOK
  <2>4. Runs BY <2>1, <2>2, <2>3, CommandRuns
  <2> QED BY <2>4, RunsKeep
<1> QED BY <1>1, <1>2

\* A reader that returns without a command, or reads on.
LEMMA ReaderKeeps ==
  ASSUME IInv, frames' = frames \/ (frames' = Below /\ Top.k \in {"arg", "text"}),
         pc' \in {"head", "next"}, cmd' = cmd \/ cmd' = None, ret' \in BOOLEAN,
         args' \in 0..MaxArgs, UNCHANGED <<stk, halt, rtnd, sel, lit, keys>>
  PROVE  IInv'
<1>1. CallsOK(frames') /\ NumExecs(frames') = NumExecs(frames)
  <2>1. FramesOK BY DEF IInv
  <2>2. CASE frames' = frames BY <2>1, <2>2 DEF FramesOK
  <2>3. CASE frames' = Below /\ Top.k \in {"arg", "text"} BY <2>1, <2>3, ReaderGone
  <2> QED BY <2>2, <2>3
<1>2. CmdOK' BY NoneIsCmd DEF IInv, CmdOK
<1>3. FlagsOK' BY DEF IInv, FlagsOK
<1>4. Runs BY <1>1, <1>2, <1>3 DEF Runs
<1> QED BY <1>4, RunsKeep

\* A prompt takes a reader's place.
LEMMA PromptOpens ==
  ASSUME IInv, Top.k = "arg", frames' = Replace(Frame("text")), pc' = "next", cmd' = None,
         UNCHANGED <<stk, halt, rtnd, ret, args, sel, lit, keys>>
  PROVE  IInv'
<1>1. PICK f : f = Below OBVIOUS
<1>2. CallsOK(f) /\ NumExecs(f) = NumExecs(frames) BY <1>1, ReaderGone DEF IInv
<1>3. NumExecs(f) \in Nat BY <1>2, ExecsCount DEF CallsOK
<1>4. PICK e : e = Frame("text") OBVIOUS
<1>5. e \in Frames /\ e.k = "text" BY <1>4, FrameTypes
<1>6. frames' = OnTop(f, e) BY <1>1, <1>4 DEF Replace, OnTop
<1>7. CallsOK(frames') /\ NumExecs(frames') = NumExecs(frames)
  <2>1. PICK g : g = OnTop(f, e) OBVIOUS
  <2>2. e.k # "main" /\ e.k # "exec" BY <1>5
  <2>3. CallsOK(g) /\ NumExecs(g) = NumExecs(f) + (IF e.k = "exec" THEN 1 ELSE 0)
    BY <1>2, <1>5, <2>1, <2>2, CallCounts
  <2> QED BY <1>2, <1>3, <1>6, <2>1, <2>2, <2>3
<1>8. CmdOK' BY NoneIsCmd DEF CmdOK
<1>9. FlagsOK' BY DEF IInv, FlagsOK
<1>10. Runs BY <1>7, <1>8, <1>9 DEF Runs
<1> QED BY <1>10, RunsKeep

LEMMA ArgKeeps ==
  ASSUME IInv, ArgReads
  PROVE  IInv'
<1>1. Top.k = "arg" /\ FramesOK /\ FlagsOK /\ CallsOK(frames) /\ lit \in BOOLEAN
  BY DEF ArgReads, IInv, FramesOK, FlagsOK
<1>2. CallsOK(Below) /\ NumExecs(Below) = NumExecs(frames) BY <1>1, ReaderGone
<1>3. \/ /\ cmd = None
         /\ ret' = FALSE /\ frames' = Below /\ pc' = "head"
         /\ UNCHANGED <<stk, cmd, halt, rtnd, args, sel, lit, keys>>
      \/ /\ cmd.k = "arg"
         /\ args' = (IF args < MaxArgs THEN args + 1 ELSE args)
         /\ pc' = "next" /\ cmd' = None
         /\ UNCHANGED <<stk, frames, halt, rtnd, ret, sel, lit, keys>>
      \/ cmd.k = "cursor" /\ Run(frames, cmd, lit)
      \/ /\ frames' = Replace(Frame("text")) /\ pc' = "next" /\ cmd' = None
         /\ UNCHANGED <<stk, halt, rtnd, ret, args, sel, lit, keys>>
      \/ cmd.k \in {"plain", "lastsel", "last", "script", "graphic"} /\ Run(Below, cmd, lit)
  BY DEF ArgReads
<1>4. CASE /\ cmd = None
           /\ ret' = FALSE /\ frames' = Below /\ pc' = "head"
           /\ UNCHANGED <<stk, cmd, halt, rtnd, args, sel, lit, keys>>
  <2>1. ret' \in BOOLEAN BY <1>4
  <2>2. args' \in 0..MaxArgs BY <1>1, <1>4 DEF FlagsOK
  <2> QED BY <1>1, <1>4, <2>1, <2>2, ReaderKeeps
<1>5. CASE /\ cmd.k = "arg"
           /\ args' = (IF args < MaxArgs THEN args + 1 ELSE args)
           /\ pc' = "next" /\ cmd' = None
           /\ UNCHANGED <<stk, frames, halt, rtnd, ret, sel, lit, keys>>
  <2>1. args \in 0..MaxArgs /\ MaxArgs \in Nat BY <1>1, ConstantsOK DEF FlagsOK
  <2>2. args' \in 0..MaxArgs BY <1>5, <2>1
  <2>3. ret' \in BOOLEAN BY <1>1, <1>5 DEF FlagsOK
  <2> QED BY <1>5, <2>2, <2>3, ReaderKeeps
<1>6. CASE cmd.k = "cursor" /\ Run(frames, cmd, lit)
  <2>1. cmd \in Tokens /\ Known(cmd)
    <3>1. cmd # None BY <1>6, NoneIsCmd
    <3> QED BY <3>1, CmdExecutes DEF IInv
  <2>2. Runs BY <1>1, <1>6, <2>1, CommandRuns
  <2> QED BY <2>2, RunsKeep
<1>7. CASE /\ frames' = Replace(Frame("text")) /\ pc' = "next" /\ cmd' = None
           /\ UNCHANGED <<stk, halt, rtnd, ret, args, sel, lit, keys>>
  BY <1>1, <1>7, PromptOpens
<1>8. CASE cmd.k \in {"plain", "lastsel", "last", "script", "graphic"} /\ Run(Below, cmd, lit)
  <2>1. cmd \in Tokens /\ Known(cmd)
    <3>1. cmd # None BY <1>8, NoneIsCmd
    <3> QED BY <3>1, CmdExecutes DEF IInv
  <2>2. Runs BY <1>1, <1>2, <1>8, <2>1, CommandRuns
  <2> QED BY <2>2, RunsKeep
<1> QED BY <1>3, <1>4, <1>5, <1>6, <1>7, <1>8

LEMMA TextKeeps ==
  ASSUME IInv, TextReads
  PROVE  IInv'
<1>1. Top.k = "text" /\ FramesOK /\ FlagsOK BY DEF TextReads, IInv
<1>2. CallsOK(Below) /\ NumExecs(Below) = NumExecs(frames) BY <1>1, ReaderGone
<1>3. ret \in BOOLEAN /\ args \in 0..MaxArgs BY <1>1 DEF FlagsOK
<1>4. \/ /\ cmd = None
         /\ ret' = FALSE /\ frames' = Below /\ pc' = "head"
         /\ UNCHANGED <<stk, cmd, halt, rtnd, args, sel, lit, keys>>
      \/ /\ pc' = "next" /\ cmd' = None
         /\ UNCHANGED <<stk, frames, halt, rtnd, ret, args, sel, lit, keys>>
      \/ cmd.k \in {"plain", "lastsel", "last", "script"} /\ Run(Below, cmd, TRUE)
  BY DEF TextReads
<1>5. CASE /\ cmd = None
           /\ ret' = FALSE /\ frames' = Below /\ pc' = "head"
           /\ UNCHANGED <<stk, cmd, halt, rtnd, args, sel, lit, keys>>
  <2>1. ret' \in BOOLEAN BY <1>5
  <2> QED BY <1>1, <1>3, <1>5, <2>1, ReaderKeeps
<1>6. CASE /\ pc' = "next" /\ cmd' = None
           /\ UNCHANGED <<stk, frames, halt, rtnd, ret, args, sel, lit, keys>>
  <2>1. ret' \in BOOLEAN BY <1>3, <1>6
  <2> QED BY <1>3, <1>6, <2>1, ReaderKeeps
<1>7. CASE cmd.k \in {"plain", "lastsel", "last", "script"} /\ Run(Below, cmd, TRUE)
  <2>1. cmd \in Tokens /\ Known(cmd)
    <3>1. cmd # None BY <1>7, NoneIsCmd
    <3> QED BY <3>1, CmdExecutes DEF IInv
  <2>2. PICK l \in BOOLEAN : l = TRUE OBVIOUS
  <2>3. Run(Below, cmd, l) BY <1>7, <2>2
  <2>4. Runs BY <1>1, <1>2, <2>1, <2>3, CommandRuns
  <2> QED BY <2>4, RunsKeep
<1> QED BY <1>4, <1>5, <1>6, <1>7

LEMMA ReturnKeeps ==
  ASSUME IInv, CommandReturns
  PROVE  IInv'
<1>1. /\ Top.k = "cmd" /\ frames' = Below
      /\ UNCHANGED <<stk, pc, cmd, halt, rtnd, ret, args, sel, lit, keys>>
  BY DEF CommandReturns
<1>2. CallsOK(Below) /\ NumExecs(Below) = NumExecs(frames) BY <1>1, ReaderGone DEF IInv
<1>3. CmdOK' BY <1>1 DEF IInv, CmdOK
<1>4. FlagsOK' BY <1>1 DEF IInv, FlagsOK
<1>5. Runs BY <1>1, <1>2, <1>3, <1>4 DEF Runs
<1> QED BY <1>5, RunsKeep

\* fExecute pushes one text that breaks with the loop it enters, or neither.
LEMMA FExecuteKeeps ==
  ASSUME IInv, FExecute
  PROVE  IInv'
<1>1. Top.k = "cmd" /\ Top.todo # <<>> /\ UNCHANGED <<pc, cmd, rtnd, ret, args, sel, lit, keys>>
  BY DEF FExecute
<1>2. FramesOK /\ StackOK /\ FlagsOK /\ Balanced BY DEF IInv
<1>3. Top.todo \in Seq(DOMAIN Text) BY <1>2, OnlyMain DEF Frames
<1>4. PICK name, todo : name = Head(Top.todo) /\ todo = Tail(Top.todo) OBVIOUS
<1>5. name \in DOMAIN Text /\ todo \in Seq(DOMAIN Text)
  <2>1. PICK s : s = Top.todo OBVIOUS
  <2>2. s \in Seq(DOMAIN Text) /\ s # <<>> BY <1>1, <1>3, <2>1
  <2>3. Head(s) \in DOMAIN Text /\ Tail(s) \in Seq(DOMAIN Text) BY <2>2
  <2> QED BY <1>4, <2>1, <2>3
<1>6. PICK f : f = Below OBVIOUS
<1>7. CallsOK(f) /\ NumExecs(f) = NumExecs(frames) BY <1>1, <1>2, <1>6, ReaderGone
<1>8. NumExecs(f) \in Nat /\ NumBreaks(stk) \in Nat
  BY <1>2, <1>7, ExecsCount, BreaksCount DEF CallsOK, StackOK
<1>9. PICK e : e = CmdFrame(todo) OBVIOUS
<1>10. PICK rest : rest = OnTop(f, e) OBVIOUS
<1>11. CallsOK(rest) /\ NumExecs(rest) = NumExecs(f)
  <2>1. e \in Frames /\ e.k = "cmd" BY <1>5, <1>9, FrameTypes
  <2>2. e.k # "main" /\ e.k # "exec" BY <2>1
  <2>3. CallsOK(rest) /\ NumExecs(rest) = NumExecs(f) + (IF e.k = "exec" THEN 1 ELSE 0)
    BY <1>7, <1>10, <2>1, <2>2, CallCounts
  <2> QED BY <1>8, <2>2, <2>3
<1>12. rest = Replace(CmdFrame(Tail(Top.todo)))
  BY <1>4, <1>6, <1>9, <1>10 DEF OnTop, Replace
<1>13. CmdOK' BY <1>1 DEF IInv, CmdOK
<1>14. CASE Full
  <2>1. halt' = TRUE /\ frames' = rest /\ UNCHANGED stk
    BY <1>12, <1>14 DEF FExecute
  <2>2. FlagsOK' BY <1>1, <1>2, <2>1 DEF FlagsOK
  <2>3. Runs BY <1>1, <1>7, <1>11, <1>13, <2>1, <2>2 DEF Runs
  <2> QED BY <2>3, RunsKeep
<1>15. CASE ~Full
  <2>1. /\ stk' = Push(name, TRUE) /\ frames' = OnTop(rest, Frame("exec")) /\ UNCHANGED halt
    BY <1>4, <1>12, <1>15 DEF FExecute, OnTop
  <2>2. StackOK' /\ NumBreaks(stk') = NumBreaks(stk) + 1
    <3>1. PICK new : new = Entry(name, TRUE) OBVIOUS
    <3>2. new \in Entries /\ Placed(new) /\ Breaking(new) = 1
      BY <1>5, <3>1, EntryPlaced DEF Breaking
    <3>3. stk' = OnTop(stk, new) BY <2>1, <3>1 DEF Push, OnTop
    <3>4. /\ stk \in Seq(Entries) /\ \A i \in 1..Len(stk) : Placed(stk[i])
          /\ Len(stk) < MaxNest
      BY <1>2, <1>15, ConstantsOK DEF StackOK, Full
    <3>5. StackOK' /\ NumBreaks(stk') = NumBreaks(stk) + Breaking(new)
      BY <3>2, <3>3, <3>4, Pushed
    <3> QED BY <3>2, <3>5
  <2>3. CallsOK(frames') /\ NumExecs(frames') = NumExecs(rest) + 1
    <3>1. PICK x : x = Frame("exec") OBVIOUS
    <3>2. x \in Frames /\ x.k = "exec" BY <3>1, FrameTypes
    <3>3. x.k # "main" BY <3>2
    <3>4. PICK g : g = OnTop(rest, x) OBVIOUS
    <3>5. CallsOK(g) /\ NumExecs(g) = NumExecs(rest) + (IF x.k = "exec" THEN 1 ELSE 0)
      BY <1>11, <3>2, <3>3, <3>4, CallCounts
    <3>6. NumExecs(g) = NumExecs(rest) + 1 BY <3>2, <3>5
    <3> QED BY <2>1, <3>1, <3>4, <3>5, <3>6
  <2>4. FlagsOK' BY <1>1, <1>2, <2>1 DEF FlagsOK
  <2>5. Balanced'
    <3>1. NumExecs(frames') = NumExecs(frames) + 1 /\ NumExecs(frames) \in Nat
      BY <1>7, <1>8, <1>11, <2>3
    <3>2. CASE rtnd
      <4>1. rtnd' BY <1>1, <3>2
      <4>2. NumBreaks(stk) + 1 <= NumExecs(frames) BY <1>2, <3>2 DEF Balanced
      <4>3. NumBreaks(stk') + 1 <= NumExecs(frames') BY <1>8, <2>2, <3>1, <4>2
      <4> QED BY <4>1, <4>3 DEF Balanced
    <3>3. CASE ~rtnd
      <4>1. ~rtnd' BY <1>1, <3>3
      <4>2. NumBreaks(stk) + 0 <= NumExecs(frames) BY <1>2, <3>3 DEF Balanced
      <4>3. NumBreaks(stk') + 0 <= NumExecs(frames') BY <1>8, <2>2, <3>1, <4>2
      <4> QED BY <4>1, <4>3 DEF Balanced
    <3> QED BY <3>2, <3>3
  <2>6. FramesOK' BY <2>3 DEF FramesOK
  <2> QED BY <1>13, <2>2, <2>4, <2>5, <2>6 DEF IInv
<1> QED BY <1>14, <1>15

LEMMA StutterKeeps ==
  ASSUME IInv, UNCHANGED vars
  PROVE  IInv'
<1>1. UNCHANGED <<stk, frames, pc, cmd, halt, rtnd, ret, args, sel, lit, keys>>
  BY DEF vars
<1>2. FlagsOK' BY <1>1 DEF IInv, FlagsOK
<1>3. CmdOK' BY <1>1 DEF IInv, CmdOK
<1>4. CallsOK(frames') /\ NumExecs(frames') = NumExecs(frames)
  BY <1>1 DEF IInv, FramesOK
<1>5. Runs BY <1>1, <1>2, <1>3, <1>4 DEF Runs
<1> QED BY <1>5, RunsKeep

\* Every step keeps the types and the balance.
LEMMA StepKeeps == IInv /\ [Next]_vars => IInv'
<1> SUFFICES ASSUME IInv, [Next]_vars PROVE IInv' OBVIOUS
<1>1. HeldOK BY DEF IInv, HeldOK
<1>2. CASE ReadKey       BY <1>1, <1>2, KeyReads, ReadsKeep
<1>3. CASE StopReading   BY <1>1, <1>3, StopReads, ReadsKeep
<1>4. CASE ReadMacro     BY <1>1, <1>4, MacroReads, ReadsKeep
<1>5. CASE LoopEnds       BY <1>5, EndKeeps
<1>6. CASE CleanupHalt    BY <1>6, CleanupKeeps
<1>7. CASE LoopFetches    BY <1>7, FetchKeeps
<1>8. CASE LoopExecutes   BY <1>8, ExecuteKeeps
<1>9. CASE ArgReads       BY <1>9, ArgKeeps
<1>10. CASE TextReads     BY <1>10, TextKeeps
<1>11. CASE FExecute      BY <1>11, FExecuteKeeps
<1>12. CASE CommandReturns BY <1>12, ReturnKeeps
<1>13. CASE UNCHANGED vars BY <1>13, StutterKeeps
<1> QED
  BY <1>2, <1>3, <1>4, <1>5, <1>6, <1>7, <1>8, <1>9, <1>10, <1>11, <1>12, <1>13
  DEF Next, Step

LEMMA Inductive == Spec => []IInv
BY InitInv, StepKeeps, PTL DEF Spec
-----------------------------------------------------------------------------
(* The properties *)

\* The types of the command loop's state: no macro overflows the stack of
\* MAX_MACRO_NESTING texts, and only commands the program has are executed.
THEOREM TypeCorrect == Spec => []TypeOK
<1>1. IInv => TypeOK
  <2> SUFFICES ASSUME IInv PROVE TypeOK OBVIOUS
  <2>1. /\ \A i \in 1..Len(stk) : stk[i] \in Entries /\ Placed(stk[i])
        /\ Len(stk) <= MaxNest
    BY DEF IInv, StackOK
  <2>2. ASSUME NEW i \in 1..Len(stk)
        PROVE  /\ stk[i].text \in DOMAIN Text /\ stk[i].quoted \in BOOLEAN
               /\ stk[i].brk \in BOOLEAN
               /\ stk[i].pos \in 1..Len(Text[stk[i].text]) + 1
    BY <2>1 DEF Entries, Placed
  <2>3. \A i \in 1..Len(frames) : frames[i].k \in {"main", "exec", "arg", "text", "cmd"}
    <3>1. frames \in Seq(Frames) BY DEF IInv, FramesOK, CallsOK
    <3>2. \A i \in 1..Len(frames) : frames[i] \in Frames BY <3>1
    <3> QED BY <3>2 DEF Frames
  <2>4. cmd \in Tokens \cup {None} /\ cmd.k \in Commands \cup {"none"} BY DEF IInv, CmdOK
  <2>5. /\ pc \in {"head", "next", "got", "aborted"}
        /\ halt \in BOOLEAN /\ rtnd \in BOOLEAN /\ ret \in BOOLEAN
        /\ sel \in BOOLEAN /\ lit \in BOOLEAN
        /\ args \in 0..MaxArgs /\ keys \in 0..MaxKeys
    BY DEF IInv, FlagsOK
  <2> QED BY <2>1, <2>2, <2>3, <2>4, <2>5 DEF TypeOK
<1> QED BY <1>1, Inductive, PTL

LEMMA BalancedIsSafe == IInv => MainNeverReturns
<1> SUFFICES ASSUME IInv PROVE MainNeverReturns OBVIOUS
<1>1. FramesOK /\ StackOK /\ Balanced BY DEF IInv
<1>2. NumBreaks(stk) \in Nat /\ NumExecs(frames) \in Nat
  BY <1>1, BreaksCount, ExecsCount DEF StackOK, FramesOK, CallsOK
<1>3. NumBreaks(stk) + 1 <= NumExecs(frames) \/ (~rtnd /\ NumBreaks(stk) + 0 <= NumExecs(frames))
  BY <1>1 DEF Balanced
<1>4. NumBreaks(stk) <= NumExecs(frames) BY <1>2, <1>3
<1>5. Breaks = BreaksIn(stk) /\ Execs = ExecsIn(frames)
  BY DEF Breaks, BreaksIn, Execs, ExecsIn
<1>6. Cardinality(Breaks) <= Cardinality(Execs) BY <1>4, <1>5 DEF NumBreaks, NumExecs
<1>7. frames # <<>> BY <1>1 DEF FramesOK, CallsOK
<1>8. ASSUME Len(frames) = 1 PROVE ~rtnd
  <2>1. NumExecs(frames) = 0 BY <1>1, <1>8, OnlyMain
  <2> QED BY <1>2, <1>3, <2>1
<1> QED BY <1>6, <1>7, <1>8 DEF MainNeverReturns

\* The command loop of main() never returns, whatever texts end early, prompt
\* or overflow (FetchAndExecuteCMDs, PopUntilBreak, fExecute).
THEOREM MainStays == Spec => []MainNeverReturns
BY Inductive, BalancedIsSafe, PTL

\* Only main's loop clears a halt, and it has left no text to read on then
\* (CleanupExecutionHaltRequests, CleanupPendingMacroStream).
THEOREM HaltLeavesNothing == Spec => HaltEmptiesStack
<1>1. IInv /\ [Next]_vars => [(halt /\ ~halt') => (stk' = <<>> /\ Len(frames') = 1 /\ ~rtnd')]_vars
  <2> SUFFICES ASSUME IInv, Next, halt, ~halt'
               PROVE  stk' = <<>> /\ Len(frames') = 1 /\ ~rtnd'
    OBVIOUS
  <2>1. FramesOK /\ StackOK /\ FlagsOK BY DEF IInv
  <2>2. CleanupHalt
    <3>1. \A f, c, l : Run(f, c, l) => halt'
      <4> SUFFICES ASSUME NEW f, NEW c, NEW l, Run(f, c, l) PROVE halt' OBVIOUS
      <4> QED BY DEF Run, StartArg, LastSelect, LastText, MoveCursor, RunPlain, RunScript, BadArgument
    <3>2. ~ReadKey /\ ~StopReading BY DEF ReadKey, StopReading, ReadOnly
    <3>3. ~ReadMacro
      BY DEF ReadMacro, PopMacro, HaltWhileReading
    <3>4. ~LoopEnds /\ ~LoopFetches /\ ~CommandReturns /\ ~FExecute
      BY DEF LoopEnds, LoopFetches, CommandReturns, FExecute
    <3>5. ~LoopExecutes /\ ~ArgReads /\ ~TextReads
      BY <3>1 DEF LoopExecutes, ArgReads, TextReads
    <3> QED BY <3>2, <3>3, <3>4, <3>5 DEF Next, Step
  <2>3. /\ Catches /\ stk' = AfterBreak /\ UNCHANGED frames
        /\ rtnd' = (Interpreting /\ BrokeOut)
    BY <2>2 DEF CleanupHalt
  <2>4. Len(frames) = 1 BY <2>1, <2>3, OnlyMain DEF Catches
  <2>5. NumBreaks(stk) = 0
    <3>1. NumExecs(frames) = 0 BY <2>1, <2>4, OnlyMain
    <3>2. NumBreaks(stk) <= NumExecs(frames) BY BalancedIsSafe DEF MainNeverReturns, NumBreaks, NumExecs, BreaksIn, ExecsIn, Breaks, Execs
    <3>3. NumBreaks(stk) \in Nat BY <2>1, BreaksCount DEF StackOK
    <3> QED BY <3>1, <3>2, <3>3
  <2>6. ~BrokeOut BY <2>1, <2>5, AfterBreakCounts DEF StackOK
  <2>7. stk' = <<>> BY <2>3, <2>6 DEF AfterBreak
  <2> QED BY <2>3, <2>4, <2>6, <2>7
<1> QED BY <1>1, Inductive, PTL DEF Spec, HaltEmptiesStack
=============================================================================
