-------------------------------- MODULE ConIn --------------------------------
(***************************************************************************)
(* Reading a key (ConIn::EdKC_Ascii_FromNextKey) by either of the two      *)
(* Linux backends, kitty_conin.cpp and ncurses_conin.cpp.  The terminal    *)
(* sends a sequence of bytes per key pressed, which may arrive in pieces;  *)
(* the window may be resized in between, of which ncurses tells by a       *)
(* KEY_RESIZE from getch; and the editor may throw away what is typed      *)
(* ahead (flushinp).  kitty's backend blocks within a sequence, ncurses'   *)
(* takes everything that arrives before a timeout of 10 ms.                *)
(*                                                                         *)
(* Every byte carries the number of the key press it comes from and its    *)
(* place in that key's sequence: <<byte, press, place>>.  No decision of   *)
(* the editor looks at the latter two.                                     *)
(***************************************************************************)
EXTENDS KeyCodes, FiniteSets

CONSTANTS
  Backends,    \* of "kitty", "ncurses": the backends the start may choose
  Presses,     \* the keys that may be pressed: pairs of a key and its modifiers
  Fkt,         \* the presses terminfo has a capability for, to their function key tokens
  Locks,       \* what the lock keys may add to a kitty modifier field
  MaxPresses,  \* bound: keys pressed
  MaxResizes,  \* bound: changes of the window's size
  MaxFlushes   \* bound: flushes of the typeahead

KEY_RESIZE == 410
BufferSize == 32           \* ELEMENTS(chin)

ASSUME TerminalAssumption ==
  /\ Backends \subseteq {"kitty", "ncurses"}
  /\ DOMAIN Fkt \subseteq Presses
  /\ \A p \in DOMAIN Fkt : Fkt[p] > KEY_RESIZE
  /\ \A p, q \in DOMAIN Fkt : Fkt[p] = Fkt[q] => p = q

VARIABLES
  backend,  \* the active backend
  wire,     \* bytes the terminal has sent and getch cannot see yet
  tty,      \* bytes getch can return
  winch,    \* a resize getch has not told of
  st,       \* "busy", the editor is not reading; or where a read is: "ground", "esc", "csi", "slurp"
  got,      \* the bytes of the sequence being read
  pressed,  \* the keys pressed
  heard,    \* the key codes the editor was given, each with its press
  spoiled,  \* presses whose bytes something came between
  flushes, resizes   \* flushes and changes of size so far

vars == <<backend, wire, tty, winch, st, got, pressed, heard, spoiled, flushes, resizes>>
terminal == <<backend, wire, winch, pressed, flushes, resizes>>

Byte(x)  == x[1]
Press(x) == x[2]
Bytes(s) == [i \in 1 .. Len(s) |-> Byte(s[i])]
PressesIn(s) == {Press(s[i]) : i \in 1 .. Len(s)}
-----------------------------------------------------------------------------
\* The terminal.
FieldOf(m) == (IF "s" \in m THEN 1 ELSE 0) + (IF "a" \in m THEN 2 ELSE 0)
                + (IF "c" \in m THEN 4 ELSE 0) + 1

Decimal(n) ==
  LET digits == [k \in 1 .. 5 |-> 48 + ((n \div 10 ^ (5 - k)) % 10)]
      first  == Min({k \in 1 .. 5 : digits[k] # 48} \cup {5})
  IN  SubSeq(digits, first, 5)

TildeNumber(k) == CHOOSE n \in 2 .. 24 : TildeKey(n) = k
LetterOf(k) == CHOOSE b \in 65 .. 83 : LetterKey(b) = k
ByLetter == {Up, Down, Left, Right, Home, End, F(1), F(2), F(4)}
ByTilde  == {Ins, Del, PgUp, PgDn, F(3)} \cup {F(n) : n \in 5 .. 12}
Types(p) == p[1] \in 32 .. 126 /\ p[2] \subseteq {"s"}

\* What the kitty protocol sends with the flags 1, 8 and 16: a key that types
\* something sends that as a third field, the modifier field being empty where
\* there is none.
KittySends(p, lock) ==
  LET field == FieldOf(p[2]) + lock
      mod   == IF field = 1 THEN <<>> ELSE <<Semicolon>> \o Decimal(field)
      code  == IF p[1] = Bksp THEN 127 ELSE p[1]
  IN  <<Esc, LeftSq>> \o
        (IF p[1] \in ByLetter
           THEN (IF field = 1 THEN <<>> ELSE <<49>> \o mod) \o <<LetterOf(p[1])>>
         ELSE IF p[1] \in ByTilde THEN Decimal(TildeNumber(p[1])) \o mod \o <<126>>
         ELSE Decimal(code) \o mod
                \o (IF Types(p) THEN (IF mod = <<>> THEN <<Semicolon>> ELSE <<>>)
                                       \o <<Semicolon>> \o Decimal(code)
                                ELSE <<>>)
                \o <<117>>)

\* What xterm sends for a key terminfo does not know, and the keys of which it
\* sends something of their own.
XtermTells(p) ==
  \/ p \in DOMAIN Fkt
  \/ p[1] \in ByLetter \cup {Ins, Del, PgUp, PgDn}
  \/ p[1] \in LowerCase /\ p[2] \in {{}, {"s"}, {"a"}, {"c"}}
  \/ p[1] \in Digits \cup AltPunct \cup {Tab, Enter} /\ p[2] \in {{}, {"a"}}
  \/ p[1] \in {Esc, Space} /\ p[2] = {}
XtermRaw(p) ==
  LET k == p[1]
      mod == IF p[2] = {} THEN <<>> ELSE <<Semicolon, 48 + FieldOf(p[2])>>
  IN  CASE k \in ByLetter -> <<Esc, LeftSq>> \o (IF p[2] = {} THEN <<>> ELSE <<49>> \o mod)
                               \o <<LetterOf(k)>>
        [] k \in ByTilde -> <<Esc, LeftSq>> \o Decimal(TildeNumber(k)) \o mod \o <<126>>
        [] k \in LowerCase /\ "c" \in p[2] -> (IF "a" \in p[2] THEN <<Esc>> ELSE <<>>) \o <<k - 96>>
        [] OTHER -> (IF "a" \in p[2] THEN <<Esc>> ELSE <<>>)
                      \o <<IF "s" \in p[2] /\ k \in LowerCase THEN k - 32 ELSE k>>
\* getch gives one token for a sequence terminfo knows, but with the keypad mode
\* off, as within a sequence, the bytes themselves.
XtermSends(p) == IF p \in DOMAIN Fkt THEN <<Fkt[p]>> ELSE XtermRaw(p)
Known(b) == {p \in DOMAIN Fkt : Fkt[p] = b}
KeypadOff(x) ==
  IF Known(Byte(x)) = {} THEN <<x>>
  ELSE LET raw == XtermRaw(CHOOSE p \in Known(Byte(x)) : TRUE)
       IN  [i \in 1 .. Len(raw) |-> <<raw[i], Press(x), i>>]

Send(p, bytes) ==
  /\ Len(pressed) < MaxPresses
  /\ pressed' = Append(pressed, p)
  /\ wire' = wire \o [i \in 1 .. Len(bytes) |-> <<bytes[i], Len(pressed) + 1, i>>]
  /\ UNCHANGED <<backend, tty, winch, st, got, heard, spoiled, flushes, resizes>>

KeyPressed(p) ==
  \/ backend = "kitty" /\ \E lock \in Locks : Send(p, KittySends(p, lock))
  \/ backend = "ncurses" /\ XtermTells(p) /\ Send(p, XtermSends(p))

Arrive ==
  /\ wire # <<>>
  /\ tty' = Append(tty, Head(wire)) /\ wire' = Tail(wire)
  /\ UNCHANGED <<backend, winch, st, got, pressed, heard, spoiled, flushes, resizes>>

WindowResized ==
  /\ resizes < MaxResizes /\ resizes' = resizes + 1
  /\ winch' = TRUE
  /\ UNCHANGED <<backend, wire, tty, st, got, pressed, heard, spoiled, flushes>>
-----------------------------------------------------------------------------
\* getch: a byte; where there is none, a pending resize; and in ncurses'
\* sequences, after 10 ms, nothing.
GetByte == tty # <<>> /\ tty' = Tail(tty) /\ UNCHANGED terminal
GetResize ==
  /\ tty = <<>> /\ winch /\ winch' = FALSE
  /\ UNCHANGED <<backend, wire, tty, pressed, flushes, resizes>>
GetTimeout == tty = <<>> /\ ~winch /\ UNCHANGED <<tty, terminal>>

\* The loop of GetEdKC_Ascii returns a key code and goes on after anything else.
Return(e, n) ==
  /\ got' = <<>>
  /\ IF e = Nothing THEN st' = "ground" /\ heard' = heard
                    ELSE st' = "busy" /\ heard' = Append(heard, <<e, n>>)
Continue(s, bytes) == st' = s /\ got' = bytes /\ heard' = heard

Spoil(ps) == spoiled' = spoiled \cup ps
Clean == UNCHANGED spoiled
\* The sequence being read takes in a byte of another key.
Mixed(n) == IF PressesIn(got) = {n} THEN Clean ELSE Spoil({n} \cup PressesIn(got))

\* The editor asks for the next key.
ReadKey ==
  /\ st = "busy" /\ st' = "ground"
  /\ UNCHANGED <<terminal, tty, got, heard, spoiled>>

\* A dialog, or a command, throws away what was typed ahead.
Flush ==
  /\ st = "busy" /\ flushes < MaxFlushes /\ flushes' = flushes + 1
  /\ tty' = <<>>
  /\ Spoil(PressesIn(tty))
  /\ UNCHANGED <<backend, wire, winch, st, got, pressed, heard, resizes>>

\* ConOut::Resize, which redraws, changes nothing of the input.
Resize ==
  /\ st = "ground" /\ GetResize
  /\ UNCHANGED <<st, got, heard, spoiled>>

FirstByte ==
  /\ st = "ground" /\ GetByte
  /\ LET x == Head(tty)
         b == Byte(x)
         Token(p) == <<p[1], ModName(p[2])>>
     IN  CASE b = Esc /\ backend = "kitty"   -> Continue("esc", <<x>>)
           [] b = Esc /\ backend = "ncurses" -> Continue("slurp", <<x>>)
           [] b = 155 /\ backend = "kitty"   -> Continue("csi", <<x>>)
           [] backend = "ncurses" /\ Known(b) # {} -> Return(Token(CHOOSE p \in Known(b) : TRUE), Press(x))
           [] OTHER -> Return(KittyMapPlainChar(b), Press(x))
  /\ Clean
-----------------------------------------------------------------------------
\* KittyGetEvent after an escape, and KittyDecodeCSI.  They take a KEY_RESIZE
\* for a byte: the one its number, the other the number's low byte.
SecondByte ==
  /\ st = "esc" /\ GetByte
  /\ LET x == Head(tty)
         b == Byte(x)
     IN  /\ CASE b = LeftSq -> Continue("csi", got)
              [] b = Esc    -> Return(<<Esc, "">>, Press(x))
              [] OTHER      -> Return(IF map_7bit_alt_sequence(b) # Nothing
                                        THEN map_7bit_alt_sequence(b) ELSE KittyMapPlainChar(b),
                                      Press(x))
         /\ Mixed(Press(x))

SecondByteIsResize ==
  /\ st = "esc" /\ GetResize
  /\ Return(KittyMapPlainChar(KEY_RESIZE), Press(got[1]))
  /\ Spoil({Press(got[1])})

IsFinalLower(b) == b \in 96 .. 126
IsFinalLetter(b) == b \in Letters
IsFinal(b) == b \in 64 .. 126
CsiByte ==
  /\ st = "csi" /\ GetByte
  /\ LET x == Head(tty)
     IN  /\ IF IsFinal(Byte(x))
              THEN Return(map_csi_sequence(Bytes(Tail(got)), Byte(x)), Press(x))
              ELSE Continue("csi", Append(got, x))
         /\ Mixed(Press(x))

CsiResize ==
  /\ st = "csi" /\ GetResize
  /\ Continue("csi", Append(got, <<KEY_RESIZE % 256, Press(got[1]), 0>>))
  /\ Spoil({Press(got[1])})
-----------------------------------------------------------------------------
\* ConGetEvent after an escape.
SlurpByte ==
  /\ st = "slurp" /\ GetByte
  /\ LET x == Head(tty)
         all == got \o KeypadOff(x)
     IN  /\ Continue("slurp", SubSeq(all, 1, Min({Len(all), BufferSize})))
         /\ Mixed(Press(x))

SlurpResize ==
  /\ st = "slurp" /\ GetResize
  /\ UNCHANGED <<st, got, heard, spoiled>>

SlurpEnds ==
  /\ st = "slurp" /\ GetTimeout
  /\ Return(DecodeSlurped(Bytes(got)), Press(got[1]))
  /\ Spoil(PressesIn(got) \cap PressesIn(wire))
-----------------------------------------------------------------------------
Init ==
  /\ backend \in Backends
  /\ wire = <<>> /\ tty = <<>> /\ winch = FALSE
  /\ st = "ground" /\ got = <<>>
  /\ pressed = <<>> /\ heard = <<>> /\ spoiled = {}
  /\ flushes = 0 /\ resizes = 0

Next ==
  \/ \E p \in Presses : KeyPressed(p)
  \/ Arrive \/ WindowResized \/ ReadKey \/ Flush
  \/ Resize \/ FirstByte
  \/ SecondByte \/ SecondByteIsResize \/ CsiByte \/ CsiResize
  \/ SlurpByte \/ SlurpResize \/ SlurpEnds

Spec == Init /\ [][Next]_vars
-----------------------------------------------------------------------------
\* ed_edkc.h: the combinations of a key and modifiers that have a code, a key that
\* types something alone, or a letter with shift, having its character's.
HasCode(k, m) ==
  CASE k \in Letters -> m \in {{}, {"s"}, {"a"}, {"c"}, {"c", "s"}}
    [] k \in Digits \cup AltPunct -> m \in {{}, {"a"}, {"c"}, {"c", "s"}}
    [] k \in Named -> \/ m \in {{}, {"s"}, {"a"}, {"c"}}
                      \/ m = {"c", "s"} /\ k # Esc
                      \/ m = {"c", "a"} /\ k \in {F(n) : n \in 1 .. 12}
    [] OTHER -> FALSE

\* Those of which kitty's decoder gives the character of the key alone:
\* map_ascii_ctrl lacks three that ed_edkc.h has (EdKC_c_COMMA, EdKC_c_TICK,
\* EdKC_c_BACKTICK), and space_variants has a space for EdKC_s_space.
TypedAsText == {<<44, {"c"}>>, <<39, {"c"}>>, <<96, {"c"}>>, <<Space, {"s"}>>}

\* The code stands for the key pressed with no modifier that was not, and for
\* exactly the modifiers pressed where there is such a code, but for TypedAsText.
StandsFor(e, p) ==
  IF p \in TypedAsText THEN e = <<p[1], "">>
  ELSE \/ e[1] = p[1] /\ ModsOf(e[2]) \subseteq p[2] /\ (HasCode(p[1], p[2]) => ModsOf(e[2]) = p[2])
       \/ p[1] \in LowerCase /\ p[2] = {"s"} /\ e = <<p[1] - 32, "">>

HeardOf(n) == {i \in DOMAIN heard : heard[i][2] = n}
AllRead(n) == n \notin PressesIn(wire) \cup PressesIn(tty) \cup PressesIn(got)

\* Whatever was typed, flushed or resized before and after it, a key whose bytes
\* were read with nothing in between is given to the editor once, as the code of
\* the key pressed, or not at all if it has none (map_csi_sequence,
\* DecodeEscSeq_xterm, ConGetEvent, KittyGetEvent).  The four of TypedAsText are
\* heard as a plain character; the xterm decoder gives none of the EdKC_ca.
KeysAreHeard ==
  \A n \in DOMAIN pressed \ spoiled :
    AllRead(n) =>
      /\ Cardinality(HeardOf(n)) <= 1
      /\ HeardOf(n) = {} => \/ ~HasCode(pressed[n][1], pressed[n][2])
                            \/ backend = "ncurses" /\ pressed[n][2] = {"c", "a"}
      /\ \A i \in HeardOf(n) : StandsFor(heard[i][1], pressed[n])

\* In the kitty protocol a resize spoils no key but the one being read, and
\* nothing else but a flush spoils any (KittyDecodeCSI ends at a final byte).
DamageIsLocal ==
  backend = "kitty" /\ flushes = 0 => Cardinality(spoiled) <= resizes - (IF winch THEN 1 ELSE 0)

\* The blocking reads inside a sequence never wait for a byte the terminal does
\* not send: a key does not have to be followed by another to be heard.
NoReadHangs ==
  backend = "kitty" /\ wire = <<>> /\ tty = <<>> => st \in {"ground", "busy"}
=============================================================================
