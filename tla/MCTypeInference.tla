-------------------------- MODULE MCTypeInference ---------------------------
(***************************************************************************)
(* Two variables and a constant, over a type with a parameter, its bare    *)
(* family, one without parameters, and the default.                        *)
(***************************************************************************)
EXTENDS TypeInference

MCFamily == [t \in Types |-> IF t = "bv8" THEN "bv" ELSE t]

\* The first variable is bound without a type, by a definition too, or of
\* the bare family; the second without a type or of that without parameters.
MCBinders ==
    {[kind |-> "definition", names |-> Min(Vars) :> Untyped],
     [kind |-> "quantifier", names |-> Min(Vars) :> Untyped],
     [kind |-> "quantifier", names |-> Min(Vars) :> "bv"],
     [kind |-> "quantifier", names |-> Max(Vars) :> Untyped],
     [kind |-> "quantifier", names |-> Max(Vars) :> "sbf"]}

\* Two variables, or a variable and the constant, with a type for the latter
\* in one of them.
MCAtoms ==
    {[n \in Vars |-> Untyped], (Min(Vars) :> Untyped) @@ (Constant :> "bv8")} \union
    {(v :> Untyped) @@ (Constant :> Untyped) : v \in Vars}

=============================================================================
