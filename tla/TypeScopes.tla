----------------------------- MODULE TypeScopes -----------------------------
(***************************************************************************)
(* The scoped resolver of type inference: union_find.h and                 *)
(* type_scoped_resolver.tmpl.h over the unification of ba_types.tmpl.h.    *)
(* The operators take a resolver and return the one the call leaves:       *)
(*   scopes   the ids of the open scopes, outermost first                  *)
(*   current  the id of the scope opened last                              *)
(*   uf       the parent of every element, an element being <<scope, name>> *)
(*   types    the types stored, under the roots                            *)
(*   fault    why a call failed, after which nothing changes any more      *)
(* Names are numbers, in the order the resolver compares them in.          *)
(***************************************************************************)
EXTENDS Integers, Sequences, SequencesExt, FiniteSetsExt, Functions, TLC

CONSTANTS
    Types,  \* the types, "untyped" among them
    Family, \* the name of a type, its parameter aside
    Bare    \* the types whose family takes a parameter they do not have

Untyped == "untyped"
NoType  == "none"

ASSUME TypesAssumption ==
    /\ Untyped \in Types
    /\ NoType \notin Types
    /\ Family \in [Types -> STRING]
    /\ Bare \subseteq Types \ {Untyped}

-----------------------------------------------------------------------------
\* The type that s and t agree on.  The type nat, which agrees with nothing,
\* is left out.
Unify(s, t) ==
    CASE s = Untyped -> t
      [] t = Untyped \/ s = t -> s
      [] Family[s] = Family[t] /\ s \in Bare -> t
      [] Family[s] = Family[t] /\ t \in Bare -> s
      [] OTHER -> NoType

-----------------------------------------------------------------------------
(* The union-find.                                                         *)

\* scoped_less: the scope first, then the name.
Less(a, b) == a[1] < b[1] \/ (a[1] = b[1] /\ a[2] < b[2])

\* The elements a lookup of e passes, its root the last of them.
PathOf(uf, e) ==
    LET Up[a \in DOMAIN uf] == {a} \union (IF uf[a] = a THEN {} ELSE Up[uf[a]])
    IN Up[e]

RootOf(uf, e) == CHOOSE a \in PathOf(uf, e) : uf[a] = a

Compressed(uf, e) ==
    [a \in DOMAIN uf |-> IF a \in PathOf(uf, e) THEN RootOf(uf, e) ELSE uf[a]]

\* The set a of uf, its elements in no order.
ClassOf(uf, a) == {b \in DOMAIN uf : RootOf(uf, b) = RootOf(uf, a)}

\* union_find_by_less::merge: the lesser root stays one.
Joined(uf, a, b) ==
    LET flat == Compressed(Compressed(uf, a), b)
        x == flat[a]
        y == flat[b]
    IN IF x # y /\ Less(x, y) THEN [flat EXCEPT ![y] = x] ELSE [flat EXCEPT ![x] = y]

-----------------------------------------------------------------------------
(* The resolver.                                                           *)

NewResolver == [scopes |-> <<0>>, current |-> 0, uf |-> <<>>, types |-> <<>>,
                fault |-> "none"]

Innermost(r) == Last(r.scopes)

\* mutant: the outermost scope that holds it
ElementOf_Outermost(r, n) ==
    LET holding == {s \in ToSet(r.scopes) : <<s, n>> \in DOMAIN r.uf}
    IN <<IF holding = {} THEN 0 ELSE Min(holding), n>>

\* The element n stands for: that of the innermost open scope that holds
\* it, or of the global scope.
ElementOf(r, n) ==
    LET holding == {s \in ToSet(r.scopes) : <<s, n>> \in DOMAIN r.uf}
    IN <<IF holding = {} THEN 0 ELSE Max(holding), n>>

Failed(r, why) == [r EXCEPT !.fault = why]

Insert(r, n) ==
    LET e == ElementOf(r, n)
    IN [r EXCEPT !.uf = @ @@ (e :> e)]

\* A lookup: n is inserted and its path compressed.
Looked(r, n) ==
    LET in == Insert(r, n)
    IN [in EXCEPT !.uf = Compressed(@, ElementOf(in, n))]

Root(r, n) == RootOf(r.uf, ElementOf(r, n))

\* type_id_of: the resolver it leaves, where TypeIn then finds the type.
TypeAsked(r, n) ==
    LET l == Looked(r, n)
    IN [l EXCEPT !.types = @ @@ (Root(l, n) :> Untyped)]

TypeIn(r, n) == r.types[Root(r, n)]

\* mutant: the type is overwritten
Assign_Overwrites(r, n, t) ==
    LET l == Looked(r, n)
    IN IF r.fault # "none" THEN r ELSE [l EXCEPT !.types = (Root(l, n) :> t) @@ @]

Assign(r, n, t) ==
    LET l    == Looked(r, n)
        root == Root(l, n)
        u    == IF root \in DOMAIN l.types THEN Unify(l.types[root], t) ELSE t
    IN CASE r.fault # "none" -> r
         [] u = NoType       -> Failed(l, "conflict")
         [] OTHER            -> [l EXCEPT !.types = (root :> u) @@ @]

\* mutant: the type stays under the root a had
MergeTwo_OldRoot(r, a, b) ==
    LET asked == TypeAsked(TypeAsked(r, a), b)
        u     == Unify(TypeIn(asked, a), TypeIn(asked, b))
        uf    == Joined(asked.uf, ElementOf(asked, a), ElementOf(asked, b))
    IN CASE r.fault # "none" -> r
         [] u = NoType       -> Failed(asked, "conflict")
         [] OTHER            -> [asked EXCEPT !.uf = uf, !.types = (Root(asked, a) :> u) @@ @]

MergeTwo(r, a, b) ==
    LET asked == TypeAsked(TypeAsked(r, a), b)
        u     == Unify(TypeIn(asked, a), TypeIn(asked, b))
        uf    == Joined(asked.uf, ElementOf(asked, a), ElementOf(asked, b))
        root  == RootOf(uf, ElementOf(asked, a))
    IN CASE r.fault # "none" -> r
         [] u = NoType       -> Failed(asked, "conflict")
         [] OTHER            -> [asked EXCEPT !.uf = uf, !.types = (root :> u) @@ @]

\* Every name of a sequence with the first.
MergeAll(r, names) ==
    IF names = <<>> THEN r
    ELSE FoldLeft(LAMBDA acc, n : MergeTwo(acc, names[1], n), TypeAsked(r, names[1]),
                  Tail(names))

\* A scope that holds the names of m with the types given for them.
Open(r, m) ==
    LET s == r.current + 1
        held == {<<s, n>> : n \in DOMAIN m}
    IN [r EXCEPT !.current = s,
                 !.scopes  = Append(@, s),
                 !.uf      = @ @@ [e \in held |-> e],
                 !.types   = @ @@ [e \in held |-> m[e[2]]]]

\* Closing the global scope does nothing.
Close(r) == IF Len(r.scopes) = 1 THEN r ELSE [r EXCEPT !.scopes = Front(@)]

\* The names the innermost scope holds.
CurrentNames(r) == {e[2] : e \in {x \in DOMAIN r.uf : x[1] = Innermost(r)}}

\* current_types asks for the type of each.
CurrentAsked(r) == FoldSet(LAMBDA n, acc : TypeAsked(acc, n), r, CurrentNames(r))
=============================================================================
