----------------------------- MODULE MCWindows -----------------------------
EXTENDS Windows

\* Wide and high enough for three windows, and changing in both dimensions.
MCScreens == {[lin |-> 22, col |-> 31], [lin |-> 22, col |-> 43], [lin |-> 32, col |-> 36]}
AllCuts == 10 .. 43
=============================================================================
