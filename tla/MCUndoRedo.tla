----------------------------- MODULE MCUndoRedo -----------------------------
(* UndoRedo on small instances: the values of its constants. *)
EXTENDS UndoRedo

CONSTANTS a, b

\* The file of one line the buffer is read from, and what another program may
\* put in its place.
NoDocs  == {}
OneDoc  == {<<a>>}
=============================================================================
