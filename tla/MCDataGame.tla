----------------------------- MODULE MCDataGame -----------------------------
(***************************************************************************)
(* Games of two environment states, 1 and 2, and two system states, 3 and  *)
(* 4, over Boolean streams.                                                *)
(***************************************************************************)
EXTENDS DataGame

CONSTANTS Shapes, StateColors

EdgeColors == {-1} \union StateColors
Bits == {0, 1}
W == {[i |-> a, o |-> b, o1 |-> c] : a, b, c \in Bits}
Always == W
In(b) == {w \in W : w.i = b}
InSame == {w \in W : w.i = w.o1}
Copy == {w \in W : w.o = w.i}
Flip == {w \in W : w.o # w.i}
Hold == {w \in W : w.o = w.o1}
Toggle == {w \in W : w.o # w.o1}
One == {w \in W : w.o = 1}

E(guard, next) == [guard |-> guard, next |-> next]

\* The edges of the states 1 to 4.
Shape(k) ==
    CASE k = 1 -> <<<<E(In(0), 3), E(In(1), 4)>>, <<E(InSame, 3), E(Always, 4)>>,
                    <<E(Copy, 1), E(Flip, 2)>>, <<E(Hold, 1), E(Toggle, 2)>>>>
      [] k = 2 -> <<<<E(In(0), 3), E(In(1), 4)>>, <<E(In(1), 3)>>,
                    <<E(Copy, 2), E(Toggle, 1)>>, <<E(Hold \intersect Copy, 2)>>>>
      [] k = 3 -> <<<<E(In(0), 3), E(Always, 4)>>, <<E(InSame, 4), E(In(0), 3)>>,
                    <<E(Always, 2)>>, <<E(Toggle, 1), E(One, 2)>>>>
      [] k = 4 -> <<<<E(Always, 3)>>, <<E(Always, 3)>>, <<E(Always, 1)>>, <<E(Always, 2)>>>>
      \* not a game the step shift can read: two moves of the environment in a row
      [] OTHER -> <<<<E(Always, 2)>>, <<E(Always, 3)>>, <<E(Always, 1)>>, <<E(Always, 2)>>>>

Colored(shape, state, edge, uncolored) ==
    [player |-> <<0, 0, 1, 1>>, init |-> 1, uncolored |-> uncolored, color |-> state,
     trans |-> [q \in 1 .. 4 |-> [j \in DOMAIN Shape(shape)[q] |->
                   Shape(shape)[q][j] @@ [color |-> edge[q]]]]]

Plain == <<-1, -1, -1, -1>>

\* <<shape, colours of the states, colours of the edges of a state, uncoloured accepted>>
Ids == (Shapes \X {<<a, 0, b, -1>> : a, b \in StateColors} \X {Plain} \X {FALSE})
    \union ({1} \X {<<1, a, -1, b>> : a, b \in StateColors} \X {Plain} \X {FALSE})
    \union (Shapes \X {Plain} \X {<<-1, -1, a, b>> : a, b \in EdgeColors} \X {FALSE})
    \union ({2} \X {Plain} \X {<<-1, a, b, -1>> : a, b \in EdgeColors} \X {TRUE})
    \union ({4, 5} \X {Plain} \X {Plain} \X {TRUE})

MCGames == {Colored(id[1], id[2], id[3], id[4]) : id \in Ids}

MCModes == {<<"codes", "formulas", "closed">>}
=============================================================================
