------------------------------- MODULE MCConIn -------------------------------
(* ConIn on a small instance: keys of every kind of sequence, and of punctuation. *)
EXTENDS ConIn

SmallPresses ==
  {<<Up, m>> : m \in {{}, {"c", "s"}, {"a", "s"}}}
    \cup {<<F(5), m>> : m \in {{"s"}, {"c", "a"}}}
    \cup {<<97, m>> : m \in {{}, {"s"}, {"c"}}}
    \cup {<<Esc, {}>>, <<61, {"a"}>>, <<44, {"c"}>>, <<Space, {"s"}>>}
\* F5 is in terminfo, the arrow with modifiers is not.
FewTokens == [p \in {<<F(5), m>> : m \in SUBSET {"s", "a", "c"}} \cap SmallPresses |->
                512 + FieldOf(p[2])]
=============================================================================
