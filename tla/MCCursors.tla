----------------------------- MODULE MCCursors -----------------------------
EXTENDS Cursors, TLC

\* Lines differ in nothing but identity.
AnyLine == Permutations(Lines)

CONSTANTS v1, w1

\* Side by side, and then with the screen lower and the second window cut off more.
MCLayouts == {v1 :> 4 @@ w1 :> 4, v1 :> 4 @@ w1 :> 3}
=============================================================================
