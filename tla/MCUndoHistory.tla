---------------------------- MODULE MCUndoHistory ----------------------------
(* UndoHistory on a small instance: a file of one line, rewritten as an
   empty one by another program. *)
EXTENDS UndoHistory

CONSTANTS a, b

NoDocs   == {}
OneDoc   == {<<a>>}
OtherDoc == {<<Blank>>}
=============================================================================
