----------------------------- MODULE MCRevision -----------------------------
(* Instances of Revision for TLC, with inputs and outputs numbered from 0. *)
EXTENDS Revision

Single(S) == {<<u>> : u \in S}

\* `always` bodies that read the current step only: all of them.
Now(A)     == [lookback |-> 0, frames |-> Letters \X A]
NowBodies  == {Now(A) : A \in SUBSET Letters}

\* Bodies that look back one step: one literal, or two joined, over the
\* input and the output of the step and of the step before.
Back(R)     == [lookback |-> 1, frames |-> R]
Reads(f)    == <<f[1][1], f[1][2], f[2][1], f[2][2]>>
Equal(j, k) == {f \in Frames : Reads(f)[j] = Reads(f)[k]}
Literals    == UNION {{Equal(j, k), Frames \ Equal(j, k)} : j, k \in {1, 2, 4}}
Joined      == {Back(R \cap Q) : R, Q \in Literals}
Either      == {Back(R \cup Q) : R, Q \in Literals}


\* A specification and two updates: the part the first update leaves is judged
\* to imply the second, which its conditional alternative does not obey.
Picked(P(_, _, _, _)) ==
    {f \in Frames : P(f[1][1], f[1][2], f[2][1], f[2][2])}
Loose    == Back(Picked(LAMBDA i, o, j, q :
                (o = 1 /\ q = 1) \/ (i = 0 /\ j = 0 /\ q = 0)))
Strict   == Back(Picked(LAMBDA i, o, j, q :
                (o = 0 /\ q = 0) \/ (i = 0 /\ o = 1 /\ j = q)))
Stricter == Back(Picked(LAMBDA i, o, j, q :
                (o = 0 /\ q = 0) \/ (i = 0 /\ o = 1 /\ j = 1 /\ q = 1)))

MCSpecs   == {Now({c \in Letters : c[2] = 0}), Loose} \cup Joined \cup Either
MCUpdates == Single(NowBodies \cup Joined \cup {Strict, Stricter}) \cup
             {<<Now({}), Now({c \in Letters : c[2] = 1})>>}
=============================================================================
