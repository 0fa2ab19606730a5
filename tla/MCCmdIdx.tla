------------------------------ MODULE MCCmdIdx ------------------------------
(* Four names around the two intrinsic functions 2 and 5 (unassigned), so    *)
(* that the tree's first, second and last nodes are each of either kind; two *)
(* keys, sections and scripts that define, bind, shadow and replace.         *)
EXTENDS CmdIdx

Define(n) == [op |-> "define", name |-> n, key |-> NoKey]
Bind(n, k) == [op |-> "bind", name |-> n, key |-> k]
Fxn(n, k) == [name |-> n, key |-> k]

MCRsrcFiles == { <<Define(1), Bind(1, "k1"), Define(3)>>, <<Bind(2, "k1"), Define(2), Bind(3, "k2")>> }
MCLuaFiles == { <<Fxn(2, NoKey)>>, <<Fxn(1, NoKey), Fxn(3, "k2"), Fxn(2, "k1")>> }
=============================================================================
