------------------------------ MODULE MCViews ------------------------------
EXTENDS Views, TLC

Sym == Permutations(Names)
=============================================================================
