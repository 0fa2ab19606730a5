----------------------------- MODULE MCCmdLoop ------------------------------
(* Texts, commands and keys for TLC: a macro that branches over a quoted     *)
(* argument, one that calls itself, ones that fExecute texts which end in    *)
(* the middle of an argument, of a string or of nothing at all.              *)
EXTENDS CmdLoop

Arg == Tok("arg", "")
Cursor == Tok("cursor", "")
Last == Tok("last", "")
LastSel == Tok("lastsel", "")
Unknown == Tok("unknown", "nosuch")
P(c) == Tok("plain", c)
M(m) == Tok("macro", m)
X(c) == Tok("script", c)

MCText ==
  [ find    |-> <<P("ask"), Br("+", "f"), Arg, Quote, Char, Quote, P("use"), Br("=", ""), Tok("label", "f"), P("use")>>,
    rec     |-> <<M("rec"), P("use")>>,
    bad     |-> <<Unknown, P("use")>>,
    openarg |-> <<Arg, Cursor>>,
    openstr |-> <<Arg, Quote, Char, Quote>>,
    nested  |-> <<X("one"), P("use")>>,
    ends    |-> <<X("one")>>,
    whole   |-> <<Arg, Quote, Char, Quote, P("use")>> ]

MCScript == [ one |-> <<"openstr">>, two |-> <<"nested", "find">>, out |-> <<"ends">>, sel |-> <<"openarg">>,
              fail |-> <<"bad", "whole">>, deep |-> <<"rec">> ]

MCOutcome == [ ask |-> {"true", "false"}, use |-> {"true", "error", "refused"}, c |-> {"true", "refused"} ]

SafeKeys == {Char, Arg, Cursor, Last, LastSel, P("use"), M("find"), M("nested"), M("rec"), X("one"), X("two"),
             X("out"), X("fail"), X("sel"), X("deep")}
=============================================================================
