---------------------------- MODULE MCGameStep ----------------------------
(***************************************************************************)
(* Runs of one strategy over one of the outputs, and of two parts.               *)
(***************************************************************************)
EXTENDS GameStep

MCInitialParts ==
    {<<[outs |-> {"x"}, depth |-> 1]>>,
     <<[outs |-> {"x"}, depth |-> 2], [outs |-> {"y"}, depth |-> 1]>>}
=============================================================================
