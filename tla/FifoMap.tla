------------------------------ MODULE FifoMap -------------------------------
(***************************************************************************)
(* What the class comment of bounded_cache promises: a std::map in which   *)
(* an insertion past a non-zero limit first drops the oldest entries, and  *)
(* nothing else is dropped.  There is no queue here: age is the ordinal of *)
(* an entry's insertion.                                                   *)
(***************************************************************************)
EXTENDS Integers, FiniteSets

CONSTANTS Key, Value, Bounds, Default

VARIABLES held, age, clock, limit

absVars == <<held, age, clock, limit>>

FifoInit ==
    /\ held = [k \in {} |-> Default]
    /\ age = [k \in {} |-> 0]
    /\ clock = 0

(* S is the result of dropping the oldest members of a set of keys with     *)
(* ages a until the limit holds.                                            *)
Youngest(S, all, a) ==
    /\ S \subseteq all
    /\ \A k \in S, gone \in all \ S : a[gone] < a[k]
    /\ Cardinality(S) = IF limit = 0 \/ Cardinality(all) <= limit
                        THEN Cardinality(all) ELSE limit

(* A new entry: it always survives, being the youngest. *)
Put(k, v) ==
    /\ k \notin DOMAIN held
    /\ clock' = clock + 1
    /\ LET all == DOMAIN held \cup {k}
           a   == [x \in all |-> IF x = k THEN clock ELSE age[x]]
       IN  \E S \in SUBSET all :
               /\ k \in S
               /\ Youngest(S, all, a)
               /\ held' = [x \in S |-> IF x = k THEN v ELSE held[x]]
               /\ age' = [x \in S |-> a[x]]
    /\ UNCHANGED limit

Overwrite(k, v) ==
    /\ k \in DOMAIN held
    /\ held' = [held EXCEPT ![k] = v]
    /\ UNCHANGED <<age, clock, limit>>

Remove(S) ==
    /\ held' = [k \in DOMAIN held \ S |-> held[k]]
    /\ age' = [k \in DOMAIN held \ S |-> age[k]]
    /\ UNCHANGED <<clock, limit>>

Relimit(b) ==
    /\ limit' = b
    /\ UNCHANGED <<held, age, clock>>

FifoNext ==
    \/ \E k \in Key, v \in Value : Put(k, v) \/ Overwrite(k, v)
    \/ \E S \in SUBSET DOMAIN held : Remove(S)
    \/ \E b \in Bounds : Relimit(b)

Spec == FifoInit /\ [][FifoNext]_absVars
=============================================================================
