------------------------- MODULE BoundedCacheProofs -------------------------
(***************************************************************************)
(* The eviction queue of BoundedCache is, for every key set, bound and     *)
(* mode, a duplicate-free list of exactly the held entries, oldest first;   *)
(* so the cache implements the abstract FIFO map.                           *)
(***************************************************************************)
EXTENDS BoundedCache, SequenceTheorems, FunctionTheorems, FiniteSetTheorems, TLAPS

(* The elements of a queue, and that no element is queued twice. *)
Elems(q) == {q[i] : i \in 1..Len(q)}
Distinct(q) == \A i, j \in 1..Len(q) : q[i] = q[j] => i = j

(* Every held entry is older than the next one to be created. *)
BornBefore == \A k \in Held : born[k] < inserted

(* The inductive invariant. *)
IInv ==
    /\ TypeOK
    /\ QueueMirrorsMap
    /\ QueueInInsertionOrder
    /\ BornBefore

-----------------------------------------------------------------------------
(* A queue without elements is empty. *)
LEMMA NoElems ==
    ASSUME NEW q \in Seq(Key), Elems(q) = {}
    PROVE  Len(q) = 0
<1>1. Len(q) \in Nat
  OBVIOUS
<1>2. ASSUME Len(q) # 0 PROVE FALSE
  <2>1. 1 \in 1..Len(q)
    BY <1>1, <1>2
  <2>2. q[1] \in Elems(q)
    BY <2>1 DEF Elems
  <2> QED BY <2>2
<1> QED BY <1>2

(* What erase() does to the queue: at most one element goes, the others     *)
(* keep their order.                                                        *)
LEMMA UnqueueSkips ==
    ASSUME NEW q \in Seq(Key), NEW k \in Key, Distinct(q)
    PROVE  /\ Unqueue(q, k) \in Seq(Key)
           /\ Elems(Unqueue(q, k)) = Elems(q) \ {k}
           /\ \E p \in Nat : \A i \in 1..Len(Unqueue(q, k)) :
                 LET j == IF i < p THEN i ELSE i + 1
                 IN  j \in 1..Len(q) /\ Unqueue(q, k)[i] = q[j]
<1> DEFINE r == Unqueue(q, k)
<1>1. CASE \A i \in 1..Len(q) : q[i] # k
  <2>1. r = q
    BY <1>1 DEF Unqueue
  <2>2. \A i \in 1..Len(r) :
           LET j == IF i < Len(q) + 1 THEN i ELSE i + 1
           IN  j \in 1..Len(q) /\ r[i] = q[j]
    BY <2>1
  <2>3. Elems(r) = Elems(q) \ {k}
    BY <1>1, <2>1 DEF Elems
  <2>4. Len(q) + 1 \in Nat
    OBVIOUS
  <2> QED BY <2>1, <2>2, <2>3, <2>4
<1>2. CASE \E i \in 1..Len(q) : q[i] = k
  <2> DEFINE First(i) == q[i] = k /\ \A j \in 1..(i - 1) : q[j] # k
             p == CHOOSE i \in 1..Len(q) : First(i)
             n == Len(q) - 1
             g == [i \in 1..n |-> IF i < p THEN q[i] ELSE q[i + 1]]
  <2>1. PICK a \in 1..Len(q) : q[a] = k
    BY <1>2
  <2>2. First(a)
    BY <2>1 DEF Distinct
  <2>3. p \in 1..Len(q) /\ q[p] = k
    BY <2>2
  <2>4. r = g
    BY <1>2 DEF Unqueue
  <2> HIDE DEF p
  <2>5. g \in Seq(Key) /\ Len(g) = n
    BY <2>3
  <2>6. \A i \in 1..n : LET j == IF i < p THEN i ELSE i + 1
                        IN  j \in 1..Len(q) /\ g[i] = q[j]
    BY <2>3
  <2>7. Elems(g) \subseteq Elems(q) \ {k}
    <3> SUFFICES ASSUME NEW i \in 1..n PROVE g[i] \in Elems(q) \ {k}
      BY <2>5 DEF Elems
    <3>1. PICK j \in 1..Len(q) : j # p /\ g[i] = q[j]
      BY <2>3
    <3> QED BY <2>3, <3>1 DEF Elems, Distinct
  <2>8. Elems(q) \ {k} \subseteq Elems(g)
    <3> SUFFICES ASSUME NEW j \in 1..Len(q), q[j] # k PROVE q[j] \in Elems(g)
      BY DEF Elems
    <3> DEFINE i == IF j < p THEN j ELSE j - 1
    <3>1. i \in 1..n /\ g[i] = q[j]
      BY <2>3
    <3> QED BY <2>5, <3>1 DEF Elems
  <2> QED
    <3>1. p \in Nat
      BY <2>3
    <3> QED BY <2>4, <2>5, <2>6, <2>7, <2>8, <3>1
<1> QED BY <1>1, <1>2

(* The same for the pops of on_insert(): the first n elements go. *)
LEMMA PopSkips ==
    ASSUME NEW q \in Seq(Key), NEW n \in 0..Len(q), Distinct(q)
    PROVE  LET r == SubSeq(q, n + 1, Len(q))
           IN  /\ r \in Seq(Key)
               /\ Len(r) = Len(q) - n
               /\ \A i \in 1..Len(r) : r[i] = q[i + n]
               /\ Elems(r) = Elems(q) \ {q[i] : i \in 1..n}
<1> DEFINE r == SubSeq(q, n + 1, Len(q))
<1>1. /\ r \in Seq(Key)
      /\ Len(r) = Len(q) - n
      /\ \A i \in 1..Len(r) : r[i] = q[i + n]
  OBVIOUS
<1>2. ASSUME NEW i \in 1..Len(r)
      PROVE  r[i] \in Elems(q) \ {q[j] : j \in 1..n}
  BY <1>1 DEF Elems, Distinct
<1>3. ASSUME NEW j \in 1..Len(q), q[j] \notin {q[i] : i \in 1..n}
      PROVE  q[j] \in Elems(r)
  <2>1. j - n \in 1..Len(r) /\ r[j - n] = q[j]
    BY <1>1, <1>3
  <2> QED BY <2>1 DEF Elems
<1>4. Elems(r) = Elems(q) \ {q[i] : i \in 1..n}
  <2>1. Elems(r) \subseteq Elems(q) \ {q[i] : i \in 1..n}
    BY <1>2 DEF Elems
  <2>2. Elems(q) \ {q[i] : i \in 1..n} \subseteq Elems(r)
    BY <1>3 DEF Elems
  <2> QED BY <2>1, <2>2
<1> QED BY <1>1, <1>4
-----------------------------------------------------------------------------
(* Excess is a number of queued entries, at most the length of the queue. *)
LEMMA ExcessBounded ==
    ASSUME TypeOK, NEW n \in Nat, NEW len \in Nat
    PROVE  Excess(n, len) \in 0..len
<1>1. bound \in Nat
  BY ModeAssumption, BoundAssumption DEF TypeOK, bound
<1> QED BY <1>1 DEF Excess

(* The queue of on_insert() before it evicts: the entries in the order of   *)
(* their insertion, the new one last.                                       *)
LEMMA QueueGrows ==
    ASSUME IInv, NEW k \in Key \ Held
    PROVE  LET queue == Queue(k)
               age   == [x \in Held \cup {k} |-> IF x = k THEN inserted ELSE born[x]]
           IN  /\ queue \in Seq(Key) /\ Len(queue) \in Nat
               /\ Distinct(queue)
               /\ Elems(queue) = IF tracked THEN Held \cup {k} ELSE {}
               /\ \A i, j \in 1..Len(queue) : i < j => age[queue[i]] < age[queue[j]]
<1> DEFINE queue == Queue(k)
           age   == [x \in Held \cup {k} |-> IF x = k THEN inserted ELSE born[x]]
<1> USE DEF Held
<1> SUFFICES /\ queue \in Seq(Key) /\ Len(queue) \in Nat
             /\ Distinct(queue)
             /\ Elems(queue) = IF tracked THEN Held \cup {k} ELSE {}
             /\ \A i, j \in 1..Len(queue) : i < j => age[queue[i]] < age[queue[j]]
  OBVIOUS
<1>1. CASE tracked
  <2>1. queue = Append(order, k)
    BY <1>1 DEF Queue
  <2>2. /\ queue \in Seq(Key) /\ Len(queue) = Len(order) + 1
        /\ queue[Len(order) + 1] = k
        /\ \A i \in 1..Len(order) : queue[i] = order[i]
    BY <2>1 DEF IInv, TypeOK
  <2>3. \A i \in 1..Len(order) : order[i] \in Held
    BY <1>1 DEF IInv, QueueMirrorsMap
  <2>4. Distinct(queue)
    BY <2>2, <2>3 DEF IInv, TypeOK, QueueMirrorsMap, Distinct
  <2>5. Elems(queue) = Held \cup {k}
    <3>1. Elems(order) = Held
      BY <1>1 DEF IInv, QueueMirrorsMap, Elems
    <3>2. ASSUME NEW x \in Held PROVE x \in Elems(queue)
      <4>1. PICK i \in 1..Len(order) : order[i] = x
        BY <3>1 DEF Elems
      <4>2. i \in 1..Len(queue) /\ queue[i] = x
        BY <2>2, <4>1 DEF IInv, TypeOK
      <4> QED BY <4>2 DEF Elems
    <3>3. k \in Elems(queue)
      <4>1. Len(order) + 1 \in 1..Len(queue)
        BY <2>2 DEF IInv, TypeOK
      <4> QED BY <2>2, <4>1 DEF Elems
    <3>4. ASSUME NEW i \in 1..Len(queue) PROVE queue[i] \in Held \cup {k}
      BY <2>2, <2>3 DEF IInv, TypeOK
    <3> QED BY <3>2, <3>3, <3>4 DEF Elems
  <2>6. \A i \in 1..Len(order) : age[queue[i]] = born[order[i]]
    BY <2>2, <2>3
  <2>7. age[queue[Len(order) + 1]] = inserted
    BY <2>2
  <2>8. Len(queue) \in Nat /\ Len(order) \in Nat
    BY <2>2 DEF IInv, TypeOK
  <2>9. ASSUME NEW i \in 1..Len(queue), NEW j \in 1..Len(queue), i < j
        PROVE  age[queue[i]] < age[queue[j]]
    <3> HIDE DEF queue, age
    <3>1. i \in 1..Len(order) /\ age[queue[i]] = born[order[i]]
      <4>1. i \in 1..Len(order)
        BY <2>2, <2>9, <2>8
      <4> QED BY <2>6, <4>1
    <3>2. CASE j = Len(order) + 1
      <4>1. born[order[i]] < inserted
        BY <2>3, <3>1 DEF IInv, BornBefore
      <4> QED BY <2>7, <3>1, <3>2, <4>1
    <3>3. CASE j \in 1..Len(order)
      <4>1. born[order[i]] < born[order[j]]
        BY <2>9, <3>1, <3>3 DEF IInv, QueueInInsertionOrder
      <4> QED BY <2>6, <3>1, <3>3, <4>1
    <3> QED BY <2>2, <2>8, <3>2, <3>3
  <2> HIDE DEF queue, age
  <2> QED BY <1>1, <2>2, <2>4, <2>5, <2>9, <2>8
<1>2. CASE ~tracked
  <2>1. queue = order /\ Elems(order) = {}
    BY <1>2 DEF Queue, IInv, QueueMirrorsMap, Elems
  <2>2. Len(order) = 0
    BY <2>1, NoElems DEF IInv, TypeOK
  <2> QED BY <1>2, <2>1, <2>2 DEF IInv, TypeOK, Distinct
<1> QED BY <1>1, <1>2

(* An insertion, with whatever it evicts, keeps the inductive invariant. *)
LEMMA CreateInv ==
    ASSUME IInv, NEW k \in Key \ Held, NEW v \in Value, Create(k, v)
    PROVE  IInv'
<1> DEFINE grown   == [x \in Held \cup {k} |-> IF x = k THEN v ELSE map[x]]
           queue   == Queue(k)
           n       == Excess(Cardinality(Held \cup {k}), Len(queue))
           victims == {queue[i] : i \in 1..n}
           kept    == (Held \cup {k}) \ victims
           age     == [x \in Held \cup {k} |-> IF x = k THEN inserted ELSE born[x]]
<1> USE DEF Without, Held
<1>1. /\ queue \in Seq(Key) /\ Len(queue) \in Nat
      /\ Distinct(queue)
      /\ Elems(queue) = IF tracked THEN Held \cup {k} ELSE {}
      /\ \A i, j \in 1..Len(queue) : i < j => age[queue[i]] < age[queue[j]]
  BY QueueGrows
<1>2. IsFiniteSet(Held \cup {k})
  BY FS_AddElement DEF IInv, TypeOK
<1>3. n \in 0..Len(queue)
  BY <1>1, <1>2, FS_CardinalityType, ExcessBounded DEF IInv
<1>4. /\ map' = [x \in kept |-> grown[x]]
      /\ born' = [x \in kept |-> age[x]]
      /\ order' = SubSeq(queue, n + 1, Len(queue))
      /\ evictions' = evictions + n
      /\ inserted < MaxInserts /\ inserted' = inserted + 1
      /\ UNCHANGED cache_bound
  BY DEF Create
<1> HIDE DEF queue, n
<1>5. /\ order' \in Seq(Key)
      /\ Len(order') = Len(queue) - n
      /\ \A i \in 1..Len(order') : order'[i] = queue[i + n]
      /\ Elems(order') = Elems(queue) \ victims
  BY <1>1, <1>3, <1>4, PopSkips
<1>6. TypeOK'
  <2>1. IsFiniteSet(kept)
    BY <1>2, FS_Subset
  <2>2. DOMAIN map' = kept /\ kept \subseteq Key
    BY <1>4 DEF IInv, TypeOK
  <2>3. map' \in [kept -> Value]
    <3>1. \A x \in Held \cup {k} : grown[x] \in Value
      BY DEF IInv, TypeOK
    <3> HIDE DEF grown
    <3> QED BY <1>4, <3>1
  <2>4. born' \in [kept -> Nat]
    <3>1. \A x \in Held \cup {k} : age[x] \in Nat
      BY BoundAssumption DEF IInv, TypeOK
    <3> HIDE DEF age
    <3> QED BY <1>4, <3>1
  <2>5. n \in Nat /\ evictions' \in Nat
    <3>1. n \in Nat
      BY <1>1, <1>3
    <3> QED BY <1>4, <3>1 DEF IInv, TypeOK
  <2>6. inserted' \in 0..MaxInserts
    BY <1>4, BoundAssumption DEF IInv, TypeOK
  <2>7. cache_bound' \in Bounds
    BY <1>4 DEF IInv, TypeOK
  <2>8. Held' = kept
    BY <2>2 DEF Held
  <2> HIDE DEF kept
  <2> QED BY <1>5, <2>1, <2>2, <2>3, <2>4, <2>5, <2>6, <2>7, <2>8 DEF TypeOK
<1>7. QueueMirrorsMap'
  <2>1. Distinct(order')
    <3> SUFFICES ASSUME NEW i \in 1..Len(order'), NEW j \in 1..Len(order'),
                        order'[i] = order'[j]
                 PROVE  i = j
      BY DEF Distinct
    <3>1. n \in Nat /\ Len(queue) \in Nat /\ n <= Len(queue)
      BY <1>1, <1>3
    <3>2. i + n \in 1..Len(queue) /\ j + n \in 1..Len(queue)
      BY <3>1, <1>5
    <3>3. queue[i + n] = queue[j + n]
      BY <1>5
    <3>4. i + n = j + n
      BY <1>1, <3>2, <3>3 DEF Distinct
    <3> QED BY <3>1, <3>4
  <2>2. Elems(order') = IF tracked THEN kept ELSE {}
    BY <1>1, <1>5
  <2>3. DOMAIN map' = kept
    BY <1>4
  <2>4. tracked' = tracked
    BY DEF tracked
  <2> QED BY <2>1, <2>2, <2>3, <2>4 DEF QueueMirrorsMap, Distinct, Elems
<1>8. QueueInInsertionOrder'
  <2> SUFFICES ASSUME NEW i \in 1..Len(order'), NEW j \in 1..Len(order'), i < j
               PROVE  born'[order'[i]] < born'[order'[j]]
    BY DEF QueueInInsertionOrder
  <2>1. order'[i] \in kept /\ order'[j] \in kept
    <3>1. order'[i] \in Elems(order') /\ order'[j] \in Elems(order')
      BY DEF Elems
    <3>2. Elems(queue) \subseteq Held \cup {k}
      BY <1>1
    <3> HIDE DEF victims
    <3> QED BY <1>5, <3>1, <3>2
  <2>a. n \in Nat /\ Len(queue) \in Nat /\ n <= Len(queue)
    BY <1>1, <1>3
  <2>b. i \in 1..(Len(queue) - n) /\ j \in 1..(Len(queue) - n)
    BY <1>5
  <2>2. i + n \in 1..Len(queue) /\ j + n \in 1..Len(queue) /\ i + n < j + n
    BY <2>a, <2>b
  <2>3. age[queue[i + n]] < age[queue[j + n]]
    <3> HIDE DEF age
    <3> QED BY <1>1, <2>2
  <2> QED BY <1>4, <1>5, <2>1, <2>3
<1>9. BornBefore'
  BY <1>4 DEF IInv, TypeOK, BornBefore
<1> QED BY <1>6, <1>7, <1>8, <1>9 DEF IInv

(* erase() keeps the inductive invariant. *)
LEMMA EraseInv ==
    ASSUME IInv, NEW k \in Key, Erase(k)
    PROVE  IInv'
<1> USE DEF Without, Held
<1>1. /\ map' = [x \in Held \ {k} |-> map[x]]
      /\ order' = IF tracked THEN Unqueue(order, k) ELSE order
      /\ born' = [x \in Held \ {k} |-> born[x]]
      /\ UNCHANGED <<cache_bound, evictions, inserted>>
  BY DEF Erase, IInv, TypeOK
<1>2. order \in Seq(Key) /\ Distinct(order)
  BY DEF IInv, TypeOK, QueueMirrorsMap, Distinct
<1>3. PICK p \in Nat :
          /\ order' \in Seq(Key)
          /\ Elems(order') = IF tracked THEN Held \ {k} ELSE {}
          /\ \A i \in 1..Len(order') :
                 LET j == IF i < p THEN i ELSE i + 1
                 IN  j \in 1..Len(order) /\ order'[i] = order[j]
  <2>1. CASE tracked
    <3>1. order' = Unqueue(order, k) /\ Elems(order) = Held
      BY <1>1, <2>1 DEF IInv, QueueMirrorsMap, Elems
    <3> DEFINE u == Unqueue(order, k)
    <3>2. /\ u \in Seq(Key)
          /\ Elems(u) = Elems(order) \ {k}
          /\ \E p \in Nat : \A i \in 1..Len(u) :
                LET j == IF i < p THEN i ELSE i + 1
                IN  j \in 1..Len(order) /\ u[i] = order[j]
      BY <1>2, UnqueueSkips
    <3> HIDE DEF u
    <3>3. order' = u
      BY <3>1 DEF u
    <3> QED BY <2>1, <3>1, <3>2, <3>3
  <2>2. CASE ~tracked
    <3>1. order' = order /\ Elems(order) = {}
      BY <1>1, <2>2 DEF IInv, QueueMirrorsMap, Elems
    <3>2. Len(order) = 0
      BY <1>2, <3>1, NoElems
    <3> QED BY <1>2, <2>2, <3>1, <3>2
  <2> QED BY <2>1, <2>2
<1>4. TypeOK'
  <2>1. IsFiniteSet(Held \ {k})
    BY FS_Subset DEF IInv, TypeOK
  <2> QED BY <1>1, <1>3, <2>1 DEF IInv, TypeOK
<1>5. QueueMirrorsMap'
  <2>1. Distinct(order')
    BY <1>2, <1>3 DEF Distinct
  <2>2. DOMAIN map' = Held \ {k}
    BY <1>1
  <2>3. tracked' = tracked
    BY DEF tracked
  <2> QED BY <1>3, <2>1, <2>2, <2>3 DEF QueueMirrorsMap, Distinct, Elems
<1>6. QueueInInsertionOrder'
  <2> SUFFICES ASSUME NEW i \in 1..Len(order'), NEW j \in 1..Len(order'), i < j
               PROVE  born'[order'[i]] < born'[order'[j]]
    BY DEF QueueInInsertionOrder
  <2>1. order'[i] \in Held \ {k} /\ order'[j] \in Held \ {k}
    BY <1>3 DEF Elems
  <2>2. born[order'[i]] < born[order'[j]]
    BY <1>2, <1>3 DEF IInv, QueueInInsertionOrder
  <2> QED BY <1>1, <2>1, <2>2
<1>7. BornBefore'
  BY <1>1 DEF IInv, BornBefore
<1> QED BY <1>4, <1>5, <1>6, <1>7 DEF IInv

(* clear() keeps the inductive invariant. *)
LEMMA ClearInv ==
    ASSUME IInv, Clear
    PROVE  IInv'
<1> USE DEF Without, Held
<1>1. /\ map' = [x \in {} |-> map[x]]
      /\ born' = [x \in {} |-> born[x]]
      /\ UNCHANGED <<cache_bound, evictions, inserted>>
  BY DEF Clear, IInv, TypeOK
<1>2. order' \in Seq(Key) /\ Len(order') = 0
  <2>1. CASE tracked
    BY <2>1 DEF Clear
  <2>2. CASE ~tracked
    <3>1. order' = order /\ Elems(order) = {}
      BY <2>2 DEF Clear, IInv, QueueMirrorsMap, Elems
    <3> QED BY <3>1, NoElems DEF IInv, TypeOK
  <2> QED BY <2>1, <2>2
<1>3. DOMAIN map' = {} /\ DOMAIN born' = {}
  BY <1>1
<1>4. TypeOK'
  BY <1>1, <1>2, <1>3, FS_EmptySet, FS_CardinalityType DEF IInv, TypeOK
<1> QED BY <1>2, <1>3, <1>4
        DEF IInv, QueueMirrorsMap, QueueInInsertionOrder, BornBefore

(* Every operation keeps the inductive invariant, which holds at first. *)
LEMMA InitIInv == Init => IInv
BY FS_EmptySet, BoundAssumption
   DEF Init, Held, IInv, TypeOK, QueueMirrorsMap, QueueInInsertionOrder, BornBefore

LEMMA NextIInv == IInv /\ [Next]_vars => IInv'
<1> USE DEF Held
<1> SUFFICES ASSUME IInv, [Next]_vars PROVE IInv'
  OBVIOUS
<1>1. ASSUME UNCHANGED vars PROVE IInv'
  BY <1>1 DEF vars, history, IInv, TypeOK, QueueMirrorsMap,
              QueueInInsertionOrder, BornBefore, tracked
<1>2. ASSUME NEW k \in Key, NEW v \in Value, Emplace(k, v) PROVE IInv'
  BY <1>1, <1>2, CreateInv DEF Emplace
<1>3. ASSUME NEW k \in Key, NEW v \in Value, Assign(k, v) PROVE IInv'
  <2>1. /\ map' = [map EXCEPT ![k] = v]
        /\ UNCHANGED <<order, cache_bound, evictions, born, inserted>>
    BY <1>3 DEF Assign, history
  <2>2. DOMAIN map' = Held
    BY <2>1
  <2>3. TypeOK'
    BY <2>1, <2>2 DEF IInv, TypeOK
  <2> QED BY <2>1, <2>2, <2>3 DEF IInv, QueueMirrorsMap,
                QueueInInsertionOrder, BornBefore, tracked
<1>4. ASSUME NEW k \in Key, Index(k) PROVE IInv'
  BY <1>4, CreateInv, ValueAssumption DEF Index
<1>5. ASSUME NEW k \in Key, Erase(k) PROVE IInv'
  BY <1>5, EraseInv
<1>6. ASSUME Clear PROVE IInv'
  BY <1>6, ClearInv
<1>7. ASSUME NEW b \in Bounds, SetBound(b) PROVE IInv'
  BY <1>7 DEF SetBound, history, IInv, TypeOK, QueueMirrorsMap,
              QueueInInsertionOrder, BornBefore, tracked
<1> QED BY <1>1, <1>2, <1>3, <1>4, <1>5, <1>6, <1>7 DEF Next

(* The inductive invariant holds of every cache: map_, order_ and the       *)
(* counters keep their types, and eviction follows the insertion order.     *)
THEOREM Invariance == Spec => []IInv
BY InitIInv, NextIInv, PTL DEF Spec

(* No iterator in order_ dangles, none is duplicated and none is missing    *)
(* (bounded_cache.h:223-233), however the bound changes between insertions. *)
THEOREM NoDanglingIterator == Spec => []QueueMirrorsMap
<1>1. IInv => QueueMirrorsMap
  BY DEF IInv
<1> QED BY <1>1, Invariance, PTL

(* The queue evicts in insertion order (FIFO). *)
THEOREM EvictionIsFifo == Spec => []QueueInInsertionOrder
<1>1. IInv => QueueInInsertionOrder
  BY DEF IInv
<1> QED BY <1>1, Invariance, PTL

(* The cache's members keep their types (bounded_cache.h:235-246). *)
THEOREM TypeCorrect == Spec => []TypeOK
<1>1. IInv => TypeOK
  BY DEF IInv
<1> QED BY <1>1, Invariance, PTL

-----------------------------------------------------------------------------
(* A queue without duplicates is as long as the set it holds.               *)
LEMMA DistinctCount ==
    ASSUME NEW q \in Seq(Key), Distinct(q)
    PROVE  IsFiniteSet(Elems(q)) /\ Cardinality(Elems(q)) = Len(q)
<1> DEFINE I == 1..Len(q)
           e == [i \in I |-> q[i]]
<1>1. Len(q) \in Nat /\ IsFiniteSet(I) /\ Cardinality(I) = Len(q)
  <2>1. Len(q) \in Nat
    OBVIOUS
  <2>2. IsFiniteSet(I) /\ Cardinality(I) = IF 1 > Len(q) THEN 0 ELSE Len(q) - 1 + 1
    BY <2>1, FS_Interval
  <2> HIDE DEF I
  <2> QED BY <2>1, <2>2
<1>2. e \in Bijection(I, Elems(q))
  <2>1. e \in [I -> Elems(q)]
    BY DEF Elems
  <2>2. IsInjective(e)
    BY DEF IsInjective, Distinct
  <2>3. \A x \in Elems(q) : \E i \in I : e[i] = x
    BY DEF Elems
  <2> HIDE DEF e, I
  <2> QED BY <2>1, <2>2, <2>3 DEF Bijection, Injection, Surjection
<1>3. ExistsBijection(I, Elems(q))
  BY <1>2 DEF ExistsBijection
<1> HIDE DEF I
<1> QED BY <1>1, <1>3, FS_Bijection

(* FifoMap counts as BoundedCache does.                                     *)
LEMMA SameCount == ASSUME NEW S PROVE Abstract!Cardinality(S) = Cardinality(S)
BY DEF Abstract!Cardinality, Cardinality

(* The first entries of the queue are those that go: what is kept is as     *)
(* many of the youngest as the limit allows, the new one with them.         *)
LEMMA CreateIsPut ==
    ASSUME IInv, NEW k \in Key \ Held, NEW v \in Value, Create(k, v)
    PROVE  Abstract!Put(k, v)
<1> DEFINE all     == Held \cup {k}
           grown   == [x \in all |-> IF x = k THEN v ELSE map[x]]
           queue   == Queue(k)
           n       == Excess(Cardinality(all), Len(queue))
           victims == {queue[i] : i \in 1..n}
           kept    == all \ victims
           age     == [x \in all |-> IF x = k THEN inserted ELSE born[x]]
           limit   == IF tracked THEN bound ELSE 0
<1>1. /\ queue \in Seq(Key) /\ Len(queue) \in Nat
      /\ Distinct(queue)
      /\ Elems(queue) = IF tracked THEN all ELSE {}
      /\ \A i, j \in 1..Len(queue) : i < j => age[queue[i]] < age[queue[j]]
  BY QueueGrows
<1>2. IsFiniteSet(all) /\ Cardinality(all) \in Nat /\ IsFiniteSet(kept)
  <2>1. IsFiniteSet(Held)
    BY DEF IInv, TypeOK
  <2>2. IsFiniteSet(all)
    BY <2>1, FS_AddElement
  <2>3. kept \subseteq all
    OBVIOUS
  <2> HIDE DEF all, kept
  <2> QED BY <2>2, <2>3, FS_CardinalityType, FS_Subset
<1>3. n \in 0..Len(queue) /\ bound \in Nat
  <2>1. bound \in Nat
    BY ModeAssumption, BoundAssumption DEF IInv, TypeOK, bound
  <2>2. TypeOK /\ Cardinality(all) \in Nat /\ Len(queue) \in Nat
    BY <1>1, <1>2 DEF IInv
  <2>3. n \in 0..Len(queue)
    BY <2>2, ExcessBounded, Zenon
  <2> QED BY <2>1, <2>3
<1>4. /\ map' = [x \in kept |-> grown[x]]
      /\ born' = [x \in kept |-> age[x]]
      /\ order' = SubSeq(queue, n + 1, Len(queue))
      /\ inserted' = inserted + 1
      /\ UNCHANGED cache_bound
  BY DEF Create, Without
<1>5. tracked => Cardinality(all) = Len(queue)
  BY <1>1, DistinctCount
<1>6. kept \subseteq all /\ all \ kept \subseteq victims
  OBVIOUS
<1>7. Cardinality(kept) = IF limit = 0 \/ Cardinality(all) <= limit
                          THEN Cardinality(all) ELSE limit
  <2>1. CASE n = 0
    <3>1. kept = all
      BY <2>1
    <3>2. ~tracked \/ bound = 0 \/ Cardinality(all) <= bound
      BY <1>1, <1>2, <1>3, <1>5, <2>1 DEF Excess
    <3> QED BY <3>1, <3>2
  <2>2. CASE n # 0
    <3>1. tracked /\ bound # 0 /\ ~(Cardinality(all) <= bound)
      BY <2>2 DEF Excess
    <3>2. n = Cardinality(all) - bound
      BY <1>1, <1>2, <1>3, <1>5, <3>1 DEF Excess
    <3> HIDE DEF n, queue
    <3>3. /\ order' \in Seq(Key) /\ Len(order') = Len(queue) - n
          /\ Elems(order') = kept
      BY <1>1, <1>3, <1>4, <3>1, PopSkips
    <3>4. Distinct(order')
      BY CreateInv DEF IInv, QueueMirrorsMap, Distinct
    <3>5. Cardinality(kept) = Len(queue) - n
      BY <3>3, <3>4, DistinctCount
    <3> HIDE DEF kept, all
    <3> QED BY <1>1, <1>2, <1>3, <1>5, <3>1, <3>2, <3>5
  <2> QED BY <2>1, <2>2
<1>8. ASSUME NEW x \in kept, NEW gone \in all \ kept
      PROVE  age[gone] < age[x]
  <2>1. PICK i \in 1..n : gone = queue[i]
    OBVIOUS
  <2>2. i \in 1..Len(queue) /\ n \in Nat
    BY <1>1, <1>3
  <2>3. tracked
    BY <2>1 DEF Excess
  <2>4. PICK j \in 1..Len(queue) : x = queue[j]
    BY <1>1, <2>3 DEF Elems
  <2>5. ~(j \in 1..n)
    BY <2>4
  <2>6. i < j
    BY <1>1, <2>2, <2>5
  <2> HIDE DEF age, queue
  <2> QED BY <1>1, <2>1, <2>2, <2>4, <2>6
<1>9. k \in kept
  <2> SUFFICES ASSUME NEW i \in 1..n, queue[i] = k PROVE FALSE
    OBVIOUS
  <2>1. tracked /\ bound # 0 /\ n = Cardinality(all) - bound
    BY <1>1, <1>2, <1>3, <1>5 DEF Excess
  <2>2. queue = Append(order, k) /\ order \in Seq(Key)
    BY <2>1 DEF Queue, IInv, TypeOK
  <2>3. i \in 1..Len(order)
    BY <1>2, <1>3, <1>5, <2>1, <2>2
  <2>4. order[i] = k
    BY <2>2, <2>3
  <2>5. order[i] \in Held
    BY <2>1, <2>3 DEF IInv, QueueMirrorsMap
  <2> QED BY <2>4, <2>5
<1> QED
  <2>1. map' = [x \in kept |-> IF x = k THEN v ELSE map[x]]
    BY <1>4
  <2>2. UNCHANGED limit
    BY <1>4 DEF bound, tracked
  <2>3. all = DOMAIN map \cup {k} /\ k \notin DOMAIN map
    BY DEF Held
  <2> HIDE DEF kept
  <2>4. Abstract!Youngest(kept, all, age)
    <3> HIDE DEF all, age
    <3> QED BY <1>6, <1>7, <1>8, SameCount DEF Abstract!Youngest
  <2> QED
    BY <1>4, <1>6, <1>9, <2>1, <2>2, <2>3, <2>4 DEF Abstract!Put

(* Every operation of the cache is one of the map that keeps its youngest.  *)
LEMMA StepRefines == IInv /\ [Next]_vars => [Abstract!FifoNext]_Abstract!absVars
<1> SUFFICES ASSUME IInv, [Next]_vars
             PROVE  [Abstract!FifoNext]_Abstract!absVars
  OBVIOUS
<1>1. ASSUME UNCHANGED vars PROVE UNCHANGED Abstract!absVars
  BY <1>1 DEF vars, history, Abstract!absVars, bound, tracked
<1>2. ASSUME NEW k \in Key, NEW v \in Value, Emplace(k, v)
      PROVE  [Abstract!FifoNext]_Abstract!absVars
  BY <1>1, <1>2, CreateIsPut DEF Emplace, Abstract!FifoNext
<1>3. ASSUME NEW k \in Key, NEW v \in Value, Assign(k, v)
      PROVE  Abstract!FifoNext
  <2>1. Abstract!Overwrite(k, v)
    BY <1>3 DEF Assign, history, Held, Abstract!Overwrite, bound, tracked
  <2> QED BY <2>1 DEF Abstract!FifoNext
<1>4. ASSUME NEW k \in Key, Index(k)
      PROVE  Abstract!FifoNext
  BY <1>4, CreateIsPut, ValueAssumption DEF Index, Abstract!FifoNext
<1>5. ASSUME NEW S \in SUBSET Held, map' = Without(map, S), born' = Without(born, S),
             UNCHANGED <<cache_bound, inserted>>
      PROVE  Abstract!FifoNext
  <2>1. Abstract!Remove(S)
    BY <1>5 DEF Without, IInv, TypeOK, Held, Abstract!Remove, bound, tracked
  <2> QED BY <2>1 DEF Held, Abstract!FifoNext
<1>6. ASSUME NEW k \in Key, Erase(k) PROVE Abstract!FifoNext
  BY <1>5, <1>6 DEF Erase
<1>7. ASSUME Clear PROVE Abstract!FifoNext
  BY <1>5, <1>7 DEF Clear
<1>8. ASSUME NEW b \in Bounds, SetBound(b) PROVE Abstract!FifoNext
  <2>1. Abstract!Relimit(b)
    BY <1>8 DEF SetBound, history, Abstract!Relimit, bound, tracked
  <2> QED BY <2>1 DEF Abstract!FifoNext
<1> QED BY <1>1, <1>2, <1>3, <1>4, <1>6, <1>7, <1>8 DEF Next

(* The cache is a map that drops its oldest entries past the bound, and     *)
(* nothing else (bounded_cache.h:77): the queue of iterators implements     *)
(* FifoMap, whatever is erased in between and however the bound changes.    *)
THEOREM Refinement == Spec => ImplementsFifoMap
<1>1. Init => Abstract!FifoInit
  BY DEF Init, Abstract!FifoInit
<1> QED BY <1>1, StepRefines, Invariance, PTL DEF Spec, ImplementsFifoMap, Abstract!Spec
=============================================================================
