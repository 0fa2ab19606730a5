----------------------------- MODULE MCRegions -----------------------------
(***************************************************************************)
(* Texts whose tabs are wide and narrow, alone and beside blanks, with     *)
(* quoted and escaped blanks, lines without a character and lines beyond   *)
(* the end; points within a tab, at its ends, at the end of a line and     *)
(* past it.  Any command, then a paste elsewhere.                          *)
(***************************************************************************)
EXTENDS Regions

MCTexts ==
  { << <<"tab", "a", "tab", "b">>, <<" ", "c", "d">>, <<>>, <<"e">> >>,
    << <<"a", " ", " ", " ", "b">>, <<"'", " ", " ", "\"", " ", " ", "b">>, <<"tab", "c">> >>,
    << <<>>, <<"a", "b", "c", "d">>, <<" ", "tab", "\\", " ", " ", "e", "tab", " ", "f">>, <<"g">> >> }
MCPoints == << [lin : 0 .. 2, col : {0, 1, 3, 5}] \cup {[lin |-> 4, col |-> 2]},
               {[lin |-> 0, col |-> 2], [lin |-> 1, col |-> 4], [lin |-> 3, col |-> 0]} >>
MCScript == <<{"sdelete", "ldelete", "udelete", "copy", "sinsert", "linsert", "graphic", "surround",
               "cdelete", "emacscdel", "emacsnewl", "paste"}, {"paste"}>>
=============================================================================
