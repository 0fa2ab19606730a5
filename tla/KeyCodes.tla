------------------------------ MODULE KeyCodes ------------------------------
(***************************************************************************)
(* The editor's key codes (EdKC) and the two decoders of escape sequences: *)
(* the one for terminals that speak the kitty keyboard protocol            *)
(* (map_csi_sequence) and the one for xterm's relatives                    *)
(* (DecodeEscSeq_xterm).  Pure functions of a sequence of bytes.           *)
(*                                                                         *)
(* A byte is its number.  A key code is a pair of a key and its modifiers: *)
(* EdKC_a_f1 of ed_edkc.h is <<F(1), "a">>.  The key is the number the     *)
(* kitty protocol gives it, which for a key that types something is that   *)
(* character (but the character 127 is not the backspace key).             *)
(***************************************************************************)
EXTENDS Integers, Sequences, SequencesExt, FiniteSetsExt

Bksp == 8
Tab == 9
Enter == 13
Esc == 27
Space == 32
Num(d) == 57399 + d
NumOps == 57410 .. 57414        \* numSlash numStar numMinus numPlus numEnter
NumSlash == 57410
NumStar == 57411
NumMinus == 57412
NumPlus == 57413
Left == 57417
Right == 57418
Up == 57419
Down == 57420
PgUp == 57421
PgDn == 57422
Home == 57423
End == 57424
Ins == 57425
Del == 57426
Center == 57427
F(n) == 57363 + n

Digits == 48 .. 57
LowerCase == 97 .. 122
UpperCase == 65 .. 90
Letters == LowerCase \cup UpperCase
Lower(b) == IF b \in UpperCase THEN b + 32 ELSE b
LeftSq == 91
Semicolon == 59
Colon == 58

NoKey == 0
Nothing == <<NoKey, "">>         \* the decoders' 0 and -1: no key for the editor

Named == {Bksp, Tab, Enter, Esc, Space} \cup {Num(d) : d \in 0 .. 9} \cup NumOps
           \cup Left .. Center \cup {F(n) : n \in 1 .. 12}
\* The punctuation map_ascii_alt and map_ascii_ctrl_shift have a code for, and the
\* one map_ascii_ctrl has: that without the comma, the backtick and the quote.
AltPunct  == {92, 44, 45, 46, 47, 59, 61, 91, 93, 96, 39}
CtrlPunct == {91, 93, 92, 59, 61, 45, 46, 47}

\* Modifiers are a set, and in a key code a name.
ModName(m) == CASE m = {} -> "" [] m = {"s"} -> "s" [] m = {"a"} -> "a" [] m = {"c"} -> "c"
                [] m = {"c", "s"} -> "cs" [] m = {"c", "a"} -> "ca" [] OTHER -> "none"
ModsOf(n) == CHOOSE m \in SUBSET {"s", "a", "c"} : ModName(m) = n

\* The bits of a modifier field, which is one more than their sum.
ModBits(field) ==
  LET n == IF field > 0 THEN field - 1 ELSE 0
  IN  {x \in {"s", "a", "c"} :
         (n \div (CASE x = "s" -> 1 [] x = "a" -> 2 [] x = "c" -> 4)) % 2 = 1}
-----------------------------------------------------------------------------
\* Parsing of a sequence's parameters.
IndexOf(s, b) == SelectInSeq(s, LAMBDA x : x = b)
UpTo(s, b) == IF IndexOf(s, b) = 0 THEN s ELSE SubSeq(s, 1, IndexOf(s, b) - 1)
Past(s, b) == IF IndexOf(s, b) = 0 THEN <<>> ELSE SubSeq(s, IndexOf(s, b) + 1, Len(s))

parse_int(s, dflt) ==
  LET n == Max({k \in 0 .. Len(s) : \A i \in 1 .. k : s[i] \in Digits})
  IN  IF s = <<>> THEN dflt ELSE FoldLeft(LAMBDA v, b : 10 * v + (b - 48), 0, SubSeq(s, 1, n))

KeyField(params) == parse_int(UpTo(params, Semicolon), 0)
ModField(params) == parse_int(UpTo(UpTo(Past(params, Semicolon), Semicolon), Colon), 1)
-----------------------------------------------------------------------------
\* The kitty protocol.  Where a key has no code for all the modifiers, the
\* code of fewer is taken, in the order apply_variants tries them.
Variants(key) == CASE key = Esc   -> {"s", "a", "c"}
                   [] key = Space -> {"a", "c", "cs"}
                   [] key \in {F(n) : n \in 1 .. 12} -> {"s", "a", "c", "cs", "ca"}
                   [] OTHER -> {"s", "a", "c", "cs"}

TryOrderWithoutPairs(m) == SelectSeq(<<"c", "a", "s">>, LAMBDA v : v \in m)
TryOrder(m) ==
  (IF {"c", "a"} \subseteq m THEN <<"ca", "c", "a">> ELSE <<>>)
    \o (IF {"c", "s"} \subseteq m THEN <<"cs", "c">> ELSE <<>>)
    \o (IF "c" \in m THEN <<"c">> ELSE <<>>)
    \o (IF {"a", "s"} \subseteq m THEN <<"a", "s">> ELSE <<>>)
    \o (IF "a" \in m THEN <<"a">> ELSE <<>>)
    \o (IF "s" \in m THEN <<"s">> ELSE <<>>)

apply_variants(key, m) ==
  LET has == SelectSeq(TryOrder(m), LAMBDA v : v \in Variants(key))
  IN  <<key, IF has = <<>> THEN "" ELSE has[1]>>

map_ascii_from_csi(b, m) ==
  CASE {"c", "s"} \subseteq m /\ b \in Digits \cup Letters \cup AltPunct -> <<Lower(b), "cs">>
    [] "c" \in m /\ b \in Digits \cup Letters \cup CtrlPunct -> <<Lower(b), "c">>
    [] "a" \in m /\ b \in Digits \cup Letters \cup AltPunct -> <<Lower(b), "a">>
    [] "s" \in m /\ b \in LowerCase -> <<b - 32, "">>
    [] OTHER -> <<b, "">>

\* A key pressed alone that only modifies, or locks, is nothing.
IsModifierKey(code) == code \in 57441 .. 57452 \cup 57358 .. 57360

map_csiu_key(code, m) ==
  CASE IsModifierKey(code) -> Nothing
    [] code = 127   -> apply_variants(Bksp, m)
    [] code = 57409 -> map_ascii_from_csi(46, m)
    [] code = 57415 -> map_ascii_from_csi(61, m)
    [] code = 57416 -> map_ascii_from_csi(44, m)
    [] code \in {Tab, Enter, Esc, Space} \cup Num(0) .. Num(9) \cup NumOps \cup Left .. Center
                    -> apply_variants(code, m)
    [] code \in 33 .. 126 -> map_ascii_from_csi(code, m)
    [] OTHER -> Nothing

TildeKey(n) ==
  CASE n = 2 -> Ins  [] n = 3 -> Del  [] n = 5 -> PgUp  [] n = 6 -> PgDn
    [] n = 7 -> Home [] n = 8 -> End
    [] n \in 11 .. 15 -> F(n - 10)
    [] n \in 17 .. 21 -> F(n - 11)
    [] n \in 23 .. 24 -> F(n - 12)
    [] n = Center -> Center
    [] OTHER -> NoKey

LetterKey(b) ==
  CASE b = 65 -> Up   [] b = 66 -> Down   [] b = 67 -> Right [] b = 68 -> Left
    [] b = 69 -> Center [] b = 70 -> End  [] b = 72 -> Home  [] b = 77 -> Enter
    [] b \in 80 .. 83 -> F(b - 79)
    [] OTHER -> NoKey

MapKey(key, m) == IF key = NoKey THEN Nothing ELSE apply_variants(key, m)

map_csi_sequence(params, final) ==
  LET m == ModBits(ModField(params))
  IN  CASE final = 117 -> map_csiu_key(KeyField(params), m)
        [] final = 126 -> MapKey(TildeKey(KeyField(params)), m)
        [] OTHER       -> MapKey(LetterKey(final), m)

\* A byte that is no part of a sequence, and one after a lone escape.
KittyMapPlainChar(b) ==
  CASE b \in {10, 13} -> <<Enter, "">>
    [] b = 9  -> <<Tab, "">>
    [] b = 0  -> Nothing
    [] b \in 28 .. 31 -> <<52 + (b - 28), "c">>
    [] b \in 1 .. 8 \cup 11 .. 12 \cup 14 .. 26 -> <<96 + b, "c">>
    [] OTHER  -> <<b, "">>

\* map_7bit_alt_sequence: its case for the carriage return breaks out of the
\* switch and gives nothing.
map_7bit_alt_sequence(b) ==
  CASE b = 127 -> <<Bksp, "a">>
    [] b = 10  -> <<Enter, "a">>
    [] b = 9   -> <<Tab, "a">>
    [] b \in Digits \cup Letters \cup AltPunct -> <<Lower(b), "a">>
    [] OTHER -> Nothing
-----------------------------------------------------------------------------
\* xterm.  A combination of modifiers without a code is nothing.
CAS5(key, m) ==
  IF key # NoKey /\ m \in {{}, {"c"}, {"a"}, {"s"}, {"c", "s"}} THEN <<key, ModName(m)>>
                                                            ELSE Nothing

decode_modch(b) == IF b \in 50 .. 56 THEN ModBits(b - 48) ELSE {}

XtermLetterKey(b) ==
  CASE b = 71  -> Center  [] b = 106 -> NumStar  [] b = 107 -> NumPlus
    [] b = 109 -> NumMinus [] b = 111 -> NumSlash
    [] OTHER -> LetterKey(b)

XtermTildeKey(b) ==
  CASE b \in {49, 55} -> Home [] b \in {52, 56} -> End
    [] b = 50 -> Ins [] b = 51 -> Del [] b = 53 -> PgUp [] b = 54 -> PgDn
    [] OTHER -> NoKey

\* What follows "[" or "O": an optional number n, an optional ";" and modifier,
\* a last character.  A number that "~" or "$" does not follow is a modifier.
XtermTail(t, alt) ==
  LET At(i)  == IF i <= Len(t) THEN t[i] ELSE -1
      n      == IF At(1) \in 49 .. 56 THEN At(1) ELSE 0
      e      == IF n = 0 THEN 1 ELSE 2
      semi   == At(e) = Semicolon
      endch  == IF semi THEN At(e + 2) ELSE At(e)
      isMod  == ~semi /\ n # 0 /\ At(e) \notin {126, 36}
      modch  == IF semi THEN At(e + 1) ELSE IF isMod THEN n ELSE 0
      m      == decode_modch(modch) \cup IF alt THEN {"a"} ELSE {}
      Shifted(key) == <<key, IF "c" \in m THEN "cs" ELSE "s">>
  IN  CASE endch = 97  -> Shifted(Up)
        [] endch = 98  -> Shifted(Down)
        [] endch = 99  -> Shifted(Right)
        [] endch = 100 -> Shifted(Left)
        [] endch = 126 -> CAS5(XtermTildeKey(IF isMod THEN 0 ELSE n), m)
        [] endch = 36  -> CAS5(XtermTildeKey(IF isMod THEN 0 ELSE n), m \cup {"s"})
        [] OTHER -> CAS5(XtermLetterKey(endch), m)

\* s is everything read since the escape, the escape first.
DecodeEscSeq_xterm(s) ==
  LET alt == s[2] = Esc
      t   == SubSeq(s, IF alt THEN 3 ELSE 2, Len(s))
  IN  CASE t = <<>> \/ t[1] \notin {LeftSq, 79} -> Nothing
        [] Len(t) = 1 -> <<IF t[1] = LeftSq THEN LeftSq ELSE 111, "a">>
        [] OTHER -> XtermTail(Tail(t), alt)

\* ConGetEvent, after the escape: alone it is the key, and with one more byte
\* an alt key.
DecodeSlurped(s) ==
  CASE Len(s) = 1 -> <<Esc, "">>
    [] Len(s) = 2 -> IF s[2] = 13 THEN <<Enter, "a">> ELSE map_7bit_alt_sequence(s[2])
    [] OTHER -> DecodeEscSeq_xterm(s)
=============================================================================
