---------------------------- MODULE TypeInference ----------------------------
(***************************************************************************)
(* infer_ba_types (ba_types_inference.tmpl.h) as a walk of a formula:      *)
(* definitions and quantifiers open a scope for their variable, an atom    *)
(* opens one for its constants and makes all its members of one type, and  *)
(* what a scope knows when it is left is written into a copy of its node.  *)
(* The formula is chosen as the walk goes; what a scope holds is a         *)
(* conjunction whose nodes are left together, right before the scope is.   *)
(*                                                                         *)
(* A node is the number of the scope it opens, so those under a node       *)
(* follow it; a leaf is a pair of a node and a name.  Copies are kept, as  *)
(* in the code, by what a node reads and not by where it stands.           *)
(*                                                                         *)
(* Function symbols, casts, terms at the top and the streams the session   *)
(* knows are left out.                                                     *)
(***************************************************************************)
EXTENDS TypeScopes

CONSTANTS
    Vars,        \* the names of variables
    Constant,    \* the name of the constant
    Binders,     \* definitions and quantifiers: [kind, names], a type for a name
    Atoms,       \* the atoms: each a function from its members to the types given
    DefaultType, \* the type of what has none
    MaxScopes    \* bound of the checked runs: scopes opened

ASSUME InferenceAssumption ==
    /\ Vars \subseteq Nat
    /\ Constant \in Nat \ Vars
    /\ \A b \in Binders : b.kind \in {"definition", "quantifier"} /\ DOMAIN b.names \subseteq Vars
    /\ DefaultType \in Types \ {Untyped}
    /\ \A a \in Atoms : DOMAIN a \subseteq Vars \union {Constant} /\ DOMAIN a # {}

VARIABLES
    defaults, \* use_defaults
    resolver,
    nodes,    \* the formula so far: [kind, names, parent] of every node
    at,       \* the node that is walked, 0 at the root
    transformed, \* what a node reads -> the types in its copy, by place and name
    typed,    \* the types of the leaves in the formula returned
    stage,    \* the definitions, the formula after them, or the end of the walk
    facts     \* history: the sets of elements made equal, and the types told of them

vars == <<defaults, resolver, nodes, at, transformed, typed, stage, facts>>

-----------------------------------------------------------------------------
(* What the formula says.                                                  *)

\* The nodes around s, itself and the root included.
Around(s) ==
    LET Up[d \in 0..Len(nodes)] == {d} \union (IF d = 0 THEN {} ELSE Up[nodes[d].parent])
    IN Up[s]

Under(s) == {d \in DOMAIN nodes : s \in Around(d)}

LeavesUnder(s) == {l \in Under(s) \X (Vars \union {Constant}) : l[2] \in DOMAIN nodes[l[1]].names}

\* What node s reads, wherever it stands.
Text(s) ==
    [k \in 0..(Cardinality(Under(s)) - 1) |->
        [nodes[s + k] EXCEPT !.parent = IF k = 0 THEN 0 ELSE @ - s]]

\* The innermost of the nodes ss that binds n, or the root.
BinderOf(n, ss) ==
    Max({0} \union {s \in ss \ {0} : nodes[s].kind # "atom" /\ n \in DOMAIN nodes[s].names})

\* The element a leaf is: its variable where that is bound, or a constant of its atom.
Element(l) == <<IF l[2] \in Vars THEN BinderOf(l[2], Around(l[1])) ELSE l[1], l[2]>>

Fact(els, told) == [els |-> els, told |-> told \ {Untyped}]

\* The facts fs once the elements es are equal and told the types ts.
Equated(fs, es, ts) ==
    LET met == {f \in fs : f.els \intersect es # {}}
    IN (fs \ met) \union
       {Fact(es \union UNION {f.els : f \in met}, ts \union UNION {f.told : f \in met})}

\* The one type all of ts stand for, the reference for Unify.
Join(ts) ==
    LET agreed == {t \in ts : \A s \in ts : s = t \/ (s \in Bare /\ Family[s] = Family[t])}
    IN IF ts = {} THEN Untyped
       ELSE IF agreed = {} THEN NoType ELSE CHOOSE t \in agreed : TRUE

-----------------------------------------------------------------------------
(* What is written when a scope is left.                                   *)

\* mutant: the default is not told to the resolver
Known_NotTold(ns) ==
    LET asked == CurrentAsked(resolver)
        Type(n) == IF TypeIn(asked, n) = Untyped /\ defaults THEN DefaultType
                   ELSE TypeIn(asked, n)
    IN [types     |-> [n \in ns \intersect CurrentNames(resolver) |-> Type(n)],
        resolver  |-> asked,
        defaulted |-> {}]

\* mutant: no default
Known_NoDefault(ns) ==
    LET asked == CurrentAsked(resolver)
    IN [types     |-> [n \in ns \intersect CurrentNames(resolver) |-> TypeIn(asked, n)],
        resolver  |-> asked,
        defaulted |-> {}]

(* update: what a scope that is left knows of the names ns, with the       *)
(* default for what has no type, is told to the resolver again.            *)
Known(ns) ==
    LET asked == CurrentAsked(resolver)
        Type(n) == IF TypeIn(asked, n) = Untyped /\ defaults THEN DefaultType
                   ELSE TypeIn(asked, n)
        types == [n \in ns \intersect CurrentNames(resolver) |-> Type(n)]
    IN [types     |-> types,
        resolver  |-> FoldSet(LAMBDA n, acc : Assign(acc, n, types[n]), asked, DOMAIN types),
        defaulted |-> {<<at, n>> :
                         n \in {m \in DOMAIN types : defaults /\ TypeIn(asked, m) = Untyped}}]

\* update_default: the types in node s built from what was written for nodes
\* that read as those in it or, if there is nothing of that, what was
\* written for a node that reads as s.
Copied(s) ==
    LET Step(d)  == CHOOSE c \in Around(d) : c # 0 /\ nodes[c].parent = s
        Found(a, l) == IF Text(a) \in DOMAIN transformed
                         THEN transformed[Text(a)][<<l[1] - a, l[2]>>] ELSE Untyped
        built == [l \in LeavesUnder(s) |-> IF l[1] = s THEN Untyped ELSE Found(Step(l[1]), l)]
    IN IF s # 0 /\ \A l \in DOMAIN built : built[l] = Untyped
         THEN [l \in DOMAIN built |-> Found(s, l)] ELSE built

\* The names of the leaves of a copy that have no type yet.
Pending(copy) == {l[2] : l \in {x \in DOMAIN copy : copy[x] = Untyped}}

\* A copy once its leaves without a type have been given the one types has
\* for their name.
Written(copy, types) ==
    [l \in DOMAIN copy |-> IF copy[l] = Untyped /\ l[2] \in DOMAIN types
                             THEN types[l[2]] ELSE copy[l]]

\* transformed with a copy of the node that is left, if it has any type.
Kept(copy) ==
    IF \A l \in DOMAIN copy : copy[l] = Untyped THEN transformed
    ELSE LET places == {<<l[1] - at, l[2]>> : l \in DOMAIN copy}
         IN (Text(at) :> [p \in places |-> copy[<<at + p[1], p[2]>>]]) @@ transformed

\* The facts once the elements es have been given the default.
Defaulted(es) ==
    {IF f.els \intersect es # {} /\ Join(f.told) = Untyped
       THEN Fact(f.els, {DefaultType}) ELSE f : f \in facts}

-----------------------------------------------------------------------------
Init ==
    /\ defaults \in BOOLEAN
    /\ resolver = NewResolver
    /\ nodes = <<>>
    /\ at = 0
    /\ transformed = <<>>
    /\ typed = <<>>
    /\ stage = "definitions"
    /\ facts = {}

Walking == stage # "end" /\ resolver.fault = "none"

InAtom == at # 0 /\ nodes[at].kind = "atom"

\* The walk goes down into a node, the first that is not a definition ends them.
Enter(kind, names) ==
    /\ nodes' = Append(nodes, [kind |-> kind, names |-> names, parent |-> at])
    /\ at' = Len(nodes) + 1
    /\ stage' = IF kind = "definition" \/ at # 0 THEN stage ELSE "formula"
    /\ UNCHANGED <<defaults, transformed, typed>>

\* A definition, before the formula, or a quantifier opens a scope for its
\* variable.
EnterBinder(b) ==
    /\ Walking /\ ~InAtom
    /\ b.kind = "definition" => stage = "definitions" /\ at = 0
    /\ resolver.current + 1 < MaxScopes
    /\ Enter(b.kind, b.names)
    /\ resolver' = Open(resolver, b.names)
    /\ facts' = facts \union {Fact({<<at', n>>}, {b.names[n]}) : n \in DOMAIN b.names}

\* An atom: a scope for its constant, its variables where they are, all of
\* one type.  One that names a family only is refused.
EnterAtom(m) ==
    /\ Walking /\ ~InAtom
    /\ resolver.current < MaxScopes
    /\ Enter("atom", m)
    /\ LET free   == DOMAIN m \intersect Vars
           opened == Open(resolver, [n \in DOMAIN m \ Vars |-> m[n]])
           told   == FoldSet(LAMBDA n, acc : Assign(Insert(acc, n), n, m[n]), opened, free)
           merged == MergeAll(told, SetToSortSeq(DOMAIN m, <))
       IN /\ resolver' =
               IF told.fault # "none" THEN told
               ELSE IF merged.fault = "none" /\ TypeIn(merged, Min(DOMAIN m)) \in Bare
                 THEN Failed(merged, "incomplete") ELSE merged
          /\ facts' = Equated(facts,
                              {<<BinderOf(n, Around(at)), n>> : n \in free} \union
                                {<<at', n>> : n \in DOMAIN m \ Vars},
                              {m[n] : n \in DOMAIN m})

\* What is known of its constant is written into the atom as it reads, and
\* the scope closed.
LeaveAtom ==
    /\ Walking /\ InAtom
    /\ LET raw == [l \in LeavesUnder(at) |-> Untyped]
           u   == Known(DOMAIN nodes[at].names \ Vars)
       IN /\ resolver' = IF u.resolver.fault = "none" THEN Close(u.resolver) ELSE u.resolver
          /\ transformed' = Kept(Written(raw, u.types))
          /\ facts' = Defaulted(u.defaulted)
    /\ at' = nodes[at].parent
    /\ UNCHANGED <<defaults, nodes, typed, stage>>

\* A definition or a quantifier is left, something being in it: what is known
\* of the variables its copy has without a type is written.  Without the
\* defaults a quantifier's own variable becomes of the default type after
\* that, its leaves staying as they are.
LeaveBinder ==
    /\ Walking /\ at # 0 /\ ~InAtom /\ Len(nodes) > at
    /\ LET copy == Copied(at)
           u    == Known(Pending(copy) \intersect Vars)
           lone == {n \in DOMAIN nodes[at].names :
                      /\ nodes[at].kind = "quantifier" /\ ~defaults
                      /\ TypeIn(u.resolver, n) = Untyped}
           told == FoldSet(LAMBDA n, acc : Assign(acc, n, DefaultType), u.resolver, lone)
       IN /\ resolver' = IF told.fault = "none" THEN Close(told) ELSE told
          /\ transformed' = Kept(Written(copy, u.types))
          /\ facts' = Defaulted(u.defaulted \union {<<at, n>> : n \in lone})
    /\ at' = nodes[at].parent
    /\ UNCHANGED <<defaults, nodes, typed, stage>>

\* The root is left: the variables of the global scope are written.
LeaveRoot ==
    /\ Walking /\ at = 0 /\ nodes # <<>>
    /\ LET copy == Copied(0)
           u    == Known(Pending(copy) \intersect Vars)
       IN /\ resolver' = u.resolver
          /\ typed' = Written(copy, u.types)
          /\ facts' = Defaulted(u.defaulted)
    /\ stage' = "end"
    /\ UNCHANGED <<defaults, nodes, at, transformed>>

Next ==
    \/ \E b \in Binders : EnterBinder(b)
    \/ \E m \in Atoms : EnterAtom(m)
    \/ LeaveAtom
    \/ LeaveBinder
    \/ LeaveRoot

Spec == Init /\ [][Next]_vars

-----------------------------------------------------------------------------
(* Properties.                                                             *)

\* The sets of the resolver are what the formula equates, for the elements
\* of closed scopes too: a variable bound in a scope is never taken for the
\* one of the same name around it.
SetsAreTheEquations ==
    resolver.fault = "none" =>
        {ClassOf(resolver.uf, e) : e \in DOMAIN resolver.uf} = {f.els : f \in facts}

\* The type of every set is the one all that was said of its members comes
\* to, wherever a merge moved the root the type is stored under.
TypesAreTheJoin ==
    resolver.fault = "none" =>
        \A f \in facts : \A e \in f.els :
            resolver.types[RootOf(resolver.uf, e)] = Join(f.told)

\* The walk is refused for a conflict exactly when some set has been told
\* types that do not agree, and for a missing parameter only if it has none.
RefusedWithReason ==
    /\ (resolver.fault = "conflict") <=> (\E f \in facts : Join(f.told) = NoType)
    /\ resolver.fault = "incomplete" => \E f \in facts : Join(f.told) \in Bare

TypeOf(l) == resolver.types[RootOf(resolver.uf, Element(l))]

\* The leaves at the place of l in the nodes that read as the one whose scope
\* l is of; l alone if that is the global scope.
ReadAs(l) ==
    LET s == Element(l)[1]
    IN {l} \union {<<b + (l[1] - s), l[2]>> : b \in {d \in DOMAIN nodes : s # 0 /\ Text(d) = Text(s)}}

\* A type written when a scope is left is not contradicted by what is learned
\* after, and only a leaf whose whole scope reads the same is ever taken for
\* another: every leaf of the formula returned has the type its own set has
\* in the end, or that of a leaf at its place in a node that reads as its
\* scope's (update_default finds nodes by content).  Left out are, without
\* the defaults, the leaves of a bound variable that had no type when its scope
\* was left: they stay as they are, for an outer variable of that name to
\* give them one, while the variable becomes of the default type (quantified)
\* or stays without (in a definition).
WrittenTypesHold ==
    stage = "end" /\ resolver.fault = "none" =>
        \A l \in DOMAIN typed :
            \/ typed[l] \in {Untyped} \union {TypeOf(d) : d \in ReadAs(l)}
            \/ ~defaults /\ TypeOf(l) \in {Untyped, DefaultType}

\* With the defaults, no leaf is left without a type, be its node written in
\* its own scope or taken from one that reads the same.
EveryLeafTyped ==
    stage = "end" /\ resolver.fault = "none" /\ defaults =>
        \A l \in DOMAIN typed : typed[l] # Untyped

\* An atom's "scope merges every member into one type"
\* (ba_types_inference.tmpl.h:267): with the defaults, all leaves that the
\* formula equates end with one type.
EquatedLeavesAgree ==
    stage = "end" /\ resolver.fault = "none" /\ defaults =>
        \A f \in facts : \A a, b \in {l \in DOMAIN typed : Element(l) \in f.els} :
            typed[a] = typed[b]
=============================================================================
