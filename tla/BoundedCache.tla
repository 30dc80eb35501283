---------------------------- MODULE BoundedCache ----------------------------
(***************************************************************************)
(* bounded_cache<K, V, Cmp, Max> of src/src/bounded_cache.h: a std::map    *)
(* with an eviction queue.  The queue is a std::list of map iterators; an  *)
(* iterator is the key of the entry it points to, so an iterator that      *)
(* outlives its entry is a queue element outside DOMAIN map.               *)
(***************************************************************************)
EXTENDS Integers, Sequences, FiniteSets

CONSTANTS
    Key, Value,
    Default,      \* the value V{} that operator[] inserts
    Runtime,      \* TRUE: constructed with a pointer to a runtime bound
    Max_,         \* the template parameter Max
    Bounds,       \* the values the runtime pointee is ever given
    MaxInserts    \* model bound: number of entries ever created

ASSUME ValueAssumption == Default \in Value
ASSUME ModeAssumption  == Runtime \in BOOLEAN /\ Max_ \in Nat
ASSUME BoundAssumption == Bounds \subseteq Nat /\ Bounds # {} /\ MaxInserts \in Nat

VARIABLES
    map,          \* map_: the entries
    order,        \* order_: the FIFO queue, oldest first
    cache_bound,  \* the pointee of runtime_bound_
    evictions,    \* evictions_
    born,         \* history: for a held key, the ordinal of its insertion
    inserted      \* history: entries created so far

vars    == <<map, order, cache_bound, evictions, born, inserted>>
history == <<born, inserted>>

Held == DOMAIN map

(* tracked(): whether the queue is maintained at all. *)
tracked == Max_ # 0 \/ Runtime

(* bound(): the bound in effect, 0 for unbounded. *)
bound == IF Runtime THEN cache_bound ELSE Max_

Without(f, S) == [k \in DOMAIN f \ S |-> f[k]]

(* Faulty variant: the entry is erased from the map only. *)
Unqueue_MapOnly(q, k) == q

(* The scan of erase(): order_.erase() of the first element that points to  *)
(* k, if there is one.                                                      *)
Unqueue(q, k) ==
    IF \A i \in 1..Len(q) : q[i] # k THEN q
    ELSE LET p == CHOOSE i \in 1..Len(q) :
                      q[i] = k /\ \A j \in 1..(i - 1) : q[j] # k
         IN  [i \in 1..(Len(q) - 1) |-> IF i < p THEN q[i] ELSE q[i + 1]]

Init ==
    /\ map = [k \in {} |-> Default]
    /\ order = << >>
    /\ cache_bound \in Bounds
    /\ evictions = 0
    /\ born = [k \in {} |-> 0]
    /\ inserted = 0

-----------------------------------------------------------------------------
(* Faulty variant: `if` for `while`. *)
Excess_One(n, len) ==
    IF ~tracked \/ bound = 0 \/ n <= bound THEN 0 ELSE 1

(* How many entries the loop of on_insert() evicts from a map of size n     *)
(* (the new entry included) whose queue has length len.                     *)
Excess(n, len) ==
    IF ~tracked \/ bound = 0 \/ n <= bound THEN 0
    ELSE IF n - bound <= len THEN n - bound ELSE len

(* Faulty variant: the newest entry is queued for eviction first. *)
Queue_Front(k) == IF tracked THEN <<k>> \o order ELSE order

(* order_.push_back(it) of on_insert(). *)
Queue(k) == IF tracked THEN Append(order, k) ELSE order

(* map_.emplace(k, v) of a new key followed by on_insert(). *)
Create(k, v) ==
    LET grown   == [x \in Held \cup {k} |-> IF x = k THEN v ELSE map[x]]
        queue   == Queue(k)
        n       == Excess(Cardinality(Held \cup {k}), Len(queue))
        victims == {queue[i] : i \in 1..n}
    IN  /\ inserted < MaxInserts
        /\ map' = Without(grown, victims)
        /\ order' = SubSeq(queue, n + 1, Len(queue))
        /\ evictions' = evictions + n
        /\ inserted' = inserted + 1
        /\ born' = Without([x \in Held \cup {k} |->
                              IF x = k THEN inserted ELSE born[x]], victims)
        /\ UNCHANGED cache_bound

(* emplace() and both insert() overloads: a held key is left alone. *)
Emplace(k, v) ==
    IF k \in Held THEN UNCHANGED vars ELSE Create(k, v)

(* `cache[k] = v` by way of operator[] on a held key. *)
Assign(k, v) ==
    /\ k \in Held
    /\ map' = [map EXCEPT ![k] = v]
    /\ UNCHANGED <<order, cache_bound, evictions, history>>

(* operator[] on a new key: an entry with the value V{}. *)
Index(k) ==
    /\ k \notin Held
    /\ Create(k, Default)

(* erase(key) and erase(iterator) of a held entry. *)
Erase(k) ==
    /\ k \in Held
    /\ order' = IF tracked THEN Unqueue(order, k) ELSE order
    /\ map' = Without(map, {k})
    /\ born' = Without(born, {k})
    /\ UNCHANGED <<cache_bound, evictions, inserted>>

(* clear(): every entry, and the queue when it is maintained. *)
Clear ==
    /\ map' = Without(map, Held)
    /\ order' = IF tracked THEN << >> ELSE order
    /\ born' = Without(born, Held)
    /\ UNCHANGED <<cache_bound, evictions, inserted>>

(* `set cache-bound N`: the pointee changes, the cache is not touched. *)
SetBound(b) ==
    /\ Runtime
    /\ cache_bound' = b
    /\ UNCHANGED <<map, order, evictions, history>>

Next ==
    \/ \E k \in Key, v \in Value : Emplace(k, v)
    \/ \E k \in Key, v \in Value : Assign(k, v)
    \/ \E k \in Key : Index(k)
    \/ \E k \in Key : Erase(k)
    \/ Clear
    \/ \E b \in Bounds : SetBound(b)

Spec == Init /\ [][Next]_vars

-----------------------------------------------------------------------------
(* Type invariant: the map, the queue and the counters keep their types. *)
TypeOK ==
    /\ Held \subseteq Key
    /\ IsFiniteSet(Held)
    /\ map \in [Held -> Value]
    /\ order \in Seq(Key)
    /\ cache_bound \in Bounds
    /\ evictions \in Nat
    /\ born \in [Held -> Nat]
    /\ inserted \in 0..MaxInserts

(* Every queue element points to a held entry and no two to the same one,  *)
(* and every held entry is queued: eviction (bounded_cache.h:228) never     *)
(* dereferences an iterator whose entry is gone and can always reach the    *)
(* bound.                                                                   *)
QueueMirrorsMap ==
    /\ \A i, j \in 1..Len(order) : order[i] = order[j] => i = j
    /\ {order[i] : i \in 1..Len(order)} = IF tracked THEN Held ELSE {}

(* The queue is in the order of insertion, also across erase() of entries   *)
(* in its middle and across an interval in which the bound was 0.           *)
QueueInInsertionOrder ==
    \A i, j \in 1..Len(order) : i < j => born[order[i]] < born[order[j]]

(* The abstract cache this implements: a set of entries with ages, where    *)
(* a bounded insertion keeps the youngest.                                  *)
Abstract == INSTANCE FifoMap WITH
    held  <- map,
    age   <- born,
    clock <- inserted,
    limit <- IF tracked THEN bound ELSE 0

(* The cache is a map that keeps its youngest entries: evicting through the  *)
(* queue of iterators implements FifoMap (bounded_cache.h:77, the class      *)
(* comment).                                                                 *)
ImplementsFifoMap == Abstract!Spec
=============================================================================
