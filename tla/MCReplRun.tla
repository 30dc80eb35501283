------------------------------ MODULE MCReplRun -----------------------------
(***************************************************************************)
(* Instances of ReplRun over console streams c1, c2 and files f, g.        *)
(* read() takes g before the console streams and f after them.             *)
(***************************************************************************)
EXTENDS ReplRun, TLC

CONSTANTS c1, c2, f, g

Order == (g :> 0) @@ (c1 :> 1) @@ (c2 :> 2) @@ (f :> 3)

\* Rank and Rows of the instances, by the streams they have
FileLast  == [s \in {c1, c2, f} |-> Order[s]]
FileFirst == [s \in {c1, g} |-> Order[s]]
EnoughG   == [s \in {g} |-> 4]
TwoRows   == [s \in {f} |-> 2]
=============================================================================
