-------------------------- MODULE OpenHashMapProofs --------------------------
(***************************************************************************)
(* Proofs about the open-addressing table, for any keys, values, hash      *)
(* function and initial capacity.                                          *)
(***************************************************************************)
EXTENDS OpenHashMap, FiniteSetTheorems, SequenceTheorems, WellFoundedInduction, TLAPS

\* A table of c slots that holds the first n of the entries ents: each of
\* them once, at the end of a probe that meets no empty slot.
Reaches(t, c, k, e) ==
  \E i \in 0..(c - 1) :
    /\ t[Probe(k, c, i)] = e
    /\ \A j \in 0..(i - 1) : t[Probe(k, c, j)] # Empty

Holds(t, c, n, ents) ==
  /\ t \in [0..(c - 1) -> {Empty} \union 1..n]
  /\ \A p, q \in 0..(c - 1) : t[p] = t[q] /\ t[p] # Empty => p = q
  /\ \A e \in 1..n : Reaches(t, c, ents[e].key, e)

Distinct(ents) ==
  \A e, f \in 1..Len(ents) : ents[e].key = ents[f].key => e = f

\* The inductive invariant of Spec, of the table: without remove there are no
\* tombstones, the table is never full, and it holds every entry.
TableInv ==
  /\ capacity \in Nat /\ capacity >= 4
  /\ tombstones = 0
  /\ entries \in Seq(Entry)
  /\ count = Len(entries)
  /\ count < capacity
  /\ Distinct(entries)
  /\ Holds(slots, capacity, Len(entries), entries)
  /\ place \in 0..Len(entries)
  /\ answer \in [found: BOOLEAN, value: Values \union {NoValue}]

\* And of an insertion that grows it: the table being filled holds the entries
\* placed so far, and the grown table has room for the pending one.
GrowInv ==
  /\ phase \in {"idle", "placing", "grown"}
  /\ pending \in [key: Keys \union {NoKey}, value: Values \union {NoValue}]
  /\ phase # "idle" => pending \in [key: Keys, value: Values]
  /\ phase = "placing" => /\ placed \in 0..Len(entries)
                          /\ Holds(newSlots, 2 * capacity, placed, entries)
  /\ phase = "grown" => count + 1 < capacity

IInv == TableInv /\ GrowInv

-----------------------------------------------------------------------------
(* Probing *)

\* Every probe position is a slot of the table.
LEMMA ProbeRange ==
  ASSUME NEW k \in Keys, NEW c \in Nat, c > 0, NEW i \in 0..(c - 1)
  PROVE  /\ (Hash[k] % c) \in 0..(c - 1)
         /\ Probe(k, c, i) \in 0..(c - 1)
<1>1. Hash[k] \in Nat
  BY KeysAssumption
<1>2. (Hash[k] % c) \in 0..(c - 1)
  BY <1>1
<1> QED
  BY <1>2 DEF Probe

\* Every slot is met by the probe for every key.
LEMMA ProbeMeetsAll ==
  ASSUME NEW k \in Keys, NEW c \in Nat, c > 0, NEW p \in 0..(c - 1)
  PROVE  \E i \in 0..(c - 1) : Probe(k, c, i) = p
<1> DEFINE h == Hash[k] % c
<1>1. h \in 0..(c - 1)
  BY ProbeRange, 0 \in 0..(c - 1)
<1>2. CASE p >= h
  <2>1. p - h \in 0..(c - 1) /\ Probe(k, c, p - h) = p
    BY <1>1, <1>2 DEF Probe
  <2> QED
    BY <2>1
<1>3. CASE p < h
  <2>1. (p + c) - h \in 0..(c - 1) /\ Probe(k, c, (p + c) - h) = p
    BY <1>1, <1>3 DEF Probe
  <2> QED
    BY <2>1
<1> QED
  BY <1>1, <1>2, <1>3

\* A set of numbers that is not empty has a first one.
LEMMA FirstNumber ==
  ASSUME NEW S \in SUBSET Nat, S # {}
  PROVE  \E m \in S : \A j \in 0..(m - 1) : j \notin S
<1>1. PICK m \in S : \A y \in S : ~ (<<y, m>> \in OpToRel(<, Nat))
  BY NatLessThanWellFounded, WFMin
<1>2. \A y \in S : ~ (y < m)
  BY <1>1 DEF OpToRel
<1> QED
  BY <1>2

\* A table with more slots than entries has an empty one (pigeonhole).
LEMMA EmptySlot ==
  ASSUME NEW c \in Nat, c > 0, NEW n \in Nat, n < c, NEW ents, NEW t, Holds(t, c, n, ents)
  PROVE  \E p \in 0..(c - 1) : t[p] = Empty
<1> SUFFICES ASSUME \A p \in 0..(c - 1) : t[p] # Empty PROVE FALSE
  OBVIOUS
<1>1. t \in [0..(c - 1) -> 1..n]
  BY DEF Holds
<1>2. IsFiniteSet(0..(c - 1)) /\ Cardinality(0..(c - 1)) = c
  <2>1. 0 \in Int /\ c - 1 \in Int
    OBVIOUS
  <2>2. /\ IsFiniteSet(0..(c - 1))
        /\ Cardinality(0..(c - 1)) = IF 0 > c - 1 THEN 0 ELSE (c - 1) - 0 + 1
    BY ONLY <2>1, FS_Interval, Zenon
  <2> QED
    BY <2>2
<1>3. IsFiniteSet(1..n) /\ Cardinality(1..n) = n
  <2>1. 1 \in Int /\ n \in Int
    OBVIOUS
  <2> QED
    BY <2>1, FS_Interval
<1>4. \E p, q \in 0..(c - 1) : p # q /\ t[p] = t[q]
  BY <1>1, <1>2, <1>3, FS_PigeonHole
<1> QED
  BY <1>4 DEF Holds

\* The probe for a key meets an empty slot, so there is a first step at which
\* it meets one or satisfies whatever else ends it.
LEMMA FirstStep ==
  ASSUME NEW k \in Keys, NEW c \in Nat, c > 0, NEW n \in Nat, n < c, NEW ents, NEW t,
         Holds(t, c, n, ents), NEW S \in SUBSET (0..(c - 1)),
         \A i \in 0..(c - 1) : t[Probe(k, c, i)] = Empty => i \in S
  PROVE  \E i \in S : \A j \in 0..(i - 1) : j \notin S
<1>1. PICK p \in 0..(c - 1) : t[p] = Empty
  BY EmptySlot
<1>2. PICK i \in 0..(c - 1) : Probe(k, c, i) = p
  BY ProbeMeetsAll
<1>3. i \in S /\ S \in SUBSET Nat
  BY <1>1, <1>2
<1> QED
  BY <1>3, FirstNumber

\* Storing the next entry in the first empty slot its probe meets.
LEMMA StoreEntry ==
  ASSUME NEW c \in Nat, c > 0, NEW n \in Nat, NEW ents, NEW more, NEW t,
         Holds(t, c, n, ents),
         \A e \in 1..n : more[e].key = ents[e].key /\ more[e].key \in Keys,
         more[n + 1].key \in Keys,
         NEW i \in 0..(c - 1),
         t[Probe(more[n + 1].key, c, i)] = Empty,
         \A j \in 0..(i - 1) : t[Probe(more[n + 1].key, c, j)] # Empty
  PROVE  Holds([t EXCEPT ![Probe(more[n + 1].key, c, i)] = n + 1], c, n + 1, more)
<1> DEFINE k == more[n + 1].key
           p == Probe(k, c, i)
           u == [t EXCEPT ![p] = n + 1]
<1>1. p \in 0..(c - 1)
  BY ProbeRange
<1>2. t \in [0..(c - 1) -> {Empty} \union 1..n]
  BY DEF Holds
<1>3. u \in [0..(c - 1) -> {Empty} \union 1..(n + 1)]
  BY <1>1, <1>2
<1>4. \A q \in 0..(c - 1) : u[q] = IF q = p THEN n + 1 ELSE t[q]
  BY <1>1, <1>2
<1>5. ASSUME NEW q \in 0..(c - 1), NEW r \in 0..(c - 1), u[q] = u[r], u[q] # Empty PROVE q = r
  <2>1. \A s \in 0..(c - 1) : t[s] # n + 1
    BY <1>2 DEF Empty
  <2> QED
    BY <1>4, <1>5, <2>1 DEF Holds
<1>6. \A q \in 0..(c - 1) : t[q] # Empty => u[q] = t[q]
  BY <1>1, <1>4
<1>7. \A q \in 0..(c - 1) : t[q] # Empty => u[q] # Empty
  BY <1>6
<1>8. ASSUME NEW e \in 1..n PROVE Reaches(u, c, more[e].key, e)
  <2>1. PICK h \in 0..(c - 1) :
          /\ t[Probe(more[e].key, c, h)] = e
          /\ \A j \in 0..(h - 1) : t[Probe(more[e].key, c, j)] # Empty
    <3>1. Reaches(t, c, ents[e].key, e) /\ more[e].key = ents[e].key
      BY DEF Holds
    <3>2. Reaches(t, c, more[e].key, e)
      BY <3>1
    <3> QED BY <3>2 DEF Reaches
  <2>2. \A j \in 0..h : j \in 0..(c - 1) /\ Probe(more[e].key, c, j) \in 0..(c - 1)
    BY ProbeRange
  <2>3. u[Probe(more[e].key, c, h)] = e
    BY <1>6, <2>1, <2>2 DEF Empty
  <2>4. \A j \in 0..(h - 1) : u[Probe(more[e].key, c, j)] # Empty
    BY <1>7, <2>1, <2>2
  <2> QED
    BY <2>3, <2>4 DEF Reaches
<1>9. Reaches(u, c, k, n + 1)
  <2>1. \A j \in 0..(i - 1) : j \in 0..(c - 1) /\ Probe(k, c, j) \in 0..(c - 1)
    BY ProbeRange
  <2>2. \A j \in 0..(i - 1) : u[Probe(k, c, j)] # Empty
    BY <1>7, <2>1
  <2>3. u[Probe(k, c, i)] = n + 1
    BY <1>1, <1>4
  <2> QED
    BY <2>2, <2>3 DEF Reaches
<1>10. ASSUME NEW e \in 1..(n + 1) PROVE Reaches(u, c, more[e].key, e)
  <2>1. CASE e \in 1..n
    BY <1>8, <2>1
  <2>2. CASE e = n + 1
    BY <1>9, <2>2
  <2> QED
    BY <2>1, <2>2
<1> QED
  BY <1>3, <1>5, <1>10 DEF Holds

\* A fresh table holds nothing.
LEMMA FreshHolds ==
  ASSUME NEW c \in Nat, NEW ents
  PROVE  Holds(Fresh(c), c, 0, ents)
BY DEF Holds, Fresh

-----------------------------------------------------------------------------
(* Steps *)

\* Where a probe stops: at the entry of the key, or at an empty slot that is
\* the first one it meets, and then the key has no entry.
LEMMA StopMeans ==
  ASSUME TableInv, NEW k \in Keys, NEW i \in StopSteps(k)
  PROVE  /\ i \in 0..(capacity - 1)
         /\ Probe(k, capacity, i) \in 0..(capacity - 1)
         /\ slots[Probe(k, capacity, i)] = Empty =>
              /\ \A e \in 1..Len(entries) : entries[e].key # k
              /\ \A j \in 0..(i - 1) : slots[Probe(k, capacity, j)] # Empty
         /\ slots[Probe(k, capacity, i)] # Empty =>
              /\ slots[Probe(k, capacity, i)] \in 1..Len(entries)
              /\ entries[slots[Probe(k, capacity, i)]].key = k
<1> DEFINE s == slots[Probe(k, capacity, i)]
<1>1. i \in 0..(capacity - 1) /\ StopsAt(k, i) /\ \A j \in 0..(i - 1) : ~StopsAt(k, j)
  BY DEF StopSteps
<1>2. capacity \in Nat /\ capacity > 0 /\ Len(entries) \in Nat
  BY LenProperties DEF TableInv
<1>3. Probe(k, capacity, i) \in 0..(capacity - 1)
  BY <1>1, <1>2, ProbeRange
<1>4. slots \in [0..(capacity - 1) -> {Empty} \union 1..Len(entries)]
  BY DEF TableInv, Holds
<1>5. ASSUME s # Empty PROVE s \in 1..Len(entries) /\ entries[s].key = k
  BY <1>1, <1>3, <1>4, <1>5 DEF StopsAt
<1>6. ASSUME s = Empty, NEW j \in 0..(i - 1) PROVE slots[Probe(k, capacity, j)] # Empty
  BY <1>1, <1>6 DEF StopsAt
<1>7. ASSUME s = Empty, NEW e \in 1..Len(entries), entries[e].key = k PROVE FALSE
  <2>1. PICK h \in 0..(capacity - 1) :
          /\ slots[Probe(k, capacity, h)] = e
          /\ \A j \in 0..(h - 1) : slots[Probe(k, capacity, j)] # Empty
    <3>1. Reaches(slots, capacity, entries[e].key, e)
      BY DEF TableInv, Holds
    <3>2. Reaches(slots, capacity, k, e)
      BY <1>7, <3>1
    <3> QED
      BY <3>2 DEF Reaches
  <2>2. StopsAt(k, h)
    BY <1>2, <1>7, <2>1 DEF StopsAt, Tombstone
  <2>3. ~(h \in 0..(i - 1))
    BY <1>1, <2>2
  <2>4. ~(i \in 0..(h - 1))
    BY <1>7, <2>1
  <2>5. h = i
    BY <1>1, <1>2, <2>3, <2>4
  <2> QED
    BY <1>2, <1>7, <2>1, <2>5 DEF Empty
<1> QED
  BY <1>1, <1>3, <1>5, <1>6, <1>7

\* An insertion into a table with room, right away or after it has grown.
LEMMA InsertStep ==
  ASSUME TableInv, count + 1 < capacity, NEW k \in Keys, NEW v \in Values,
         ProbeAndInsert(k, v)
  PROVE  TableInv'
<1>1. PICK i \in StopSteps(k) :
        /\ answer' = Answer(slots[Probe(k, capacity, i)])
        /\ AddEntry(k, v, i) \/ FindEntry(k, i)
  BY DEF ProbeAndInsert
<1> DEFINE p == Probe(k, capacity, i)
<1>2. /\ i \in 0..(capacity - 1) /\ p \in 0..(capacity - 1)
      /\ slots[p] = Empty => /\ \A e \in 1..Len(entries) : entries[e].key # k
                             /\ \A j \in 0..(i - 1) : slots[Probe(k, capacity, j)] # Empty
      /\ slots[p] # Empty => slots[p] \in 1..Len(entries) /\ entries[slots[p]].key = k
  BY StopMeans
<1>3. Len(entries) \in Nat /\ \A e \in 1..Len(entries) : entries[e] \in Entry
  BY LenProperties DEF TableInv
<1>4. answer' \in [found: BOOLEAN, value: Values \union {NoValue}]
  BY <1>1, <1>2, <1>3 DEF Answer, Entry
<1>5. CASE FindEntry(k, i)
  <2>1. UNCHANGED tableVars /\ place' \in 0..Len(entries)
    BY <1>2, <1>3, <1>5 DEF FindEntry
  <2> QED
    BY <1>4, <2>1 DEF TableInv, tableVars
<1>6. CASE AddEntry(k, v, i)
  <2> DEFINE n == Len(entries)
             new == [key |-> k, value |-> v]
  <2>1. slots[p] = Empty
    BY <1>6 DEF AddEntry
  <2>2. slots \in [0..(capacity - 1) -> {Empty} \union 1..n]
    BY DEF TableInv, Holds
  <2>3. ASSUME NEW j \in FreeSteps(k, i) PROVE j = i
    <3>1. j \in 0..i /\ slots[Probe(k, capacity, j)] \in {Empty, Tombstone}
      BY DEF FreeSteps
    <3>2. CASE j \in 0..(i - 1)
      <4>1. j \in 0..(capacity - 1) /\ capacity \in Nat /\ capacity > 0
        BY <1>2, <3>2 DEF TableInv
      <4>2. Probe(k, capacity, j) \in 0..(capacity - 1)
        BY <4>1, ProbeRange
      <4>3. slots[Probe(k, capacity, j)] # Empty
        BY <1>2, <2>1, <3>2
      <4> QED
        BY <1>3, <2>2, <3>1, <4>2, <4>3 DEF Tombstone
    <3> QED
      BY <1>2, <3>1, <3>2
  <2>4. /\ slots' = [slots EXCEPT ![p] = n + 1]
        /\ tombstones' = tombstones
    <3>1. PICK j \in FreeSteps(k, i) :
            /\ slots' = [slots EXCEPT ![Probe(k, capacity, j)] = n + 1]
            /\ tombstones' = IF slots[Probe(k, capacity, j)] = Tombstone
                             THEN tombstones - 1 ELSE tombstones
      BY <1>6 DEF AddEntry
    <3>2. j = i
      BY <2>3
    <3> QED
      BY <2>1, <3>1, <3>2 DEF Empty, Tombstone
  <2>5. /\ entries' = Append(entries, new)
        /\ count' = count + 1
        /\ place' = n + 1
        /\ capacity' = capacity
    BY <1>6 DEF AddEntry
  <2>6. new \in Entry
    BY DEF Entry
  <2>7. /\ entries' \in Seq(Entry)
        /\ Len(entries') = n + 1
        /\ \A e \in 1..n : entries'[e] = entries[e]
        /\ entries'[n + 1] = new
    BY <2>5, <2>6, AppendProperties DEF TableInv
  <2>8. Holds(slots', capacity, n + 1, entries')
    <3>1. \A e \in 1..n : entries'[e].key = entries[e].key /\ entries'[e].key \in Keys
      BY <1>3, <2>7 DEF Entry
    <3>2. entries'[n + 1].key = k
      BY <2>7
    <3>3. Holds(slots, capacity, n, entries) /\ capacity \in Nat /\ capacity > 0
      BY DEF TableInv
    <3>4. /\ slots[Probe(entries'[n + 1].key, capacity, i)] = Empty
          /\ \A j \in 0..(i - 1) : slots[Probe(entries'[n + 1].key, capacity, j)] # Empty
      BY <1>2, <2>1, <3>2
    <3> HIDE DEF n
    <3>5. Holds([slots EXCEPT ![Probe(entries'[n + 1].key, capacity, i)] = n + 1],
                capacity, n + 1, entries')
      BY <1>2, <1>3, <3>1, <3>2, <3>3, <3>4, StoreEntry DEF n
    <3> QED
      BY <2>4, <3>2, <3>5
  <2>9. Distinct(entries')
    <3>1. \A e \in 1..n : entries'[e].key # k
      BY <1>2, <2>1, <2>7
    <3>2. \A e, f \in 1..n : entries'[e].key = entries'[f].key => e = f
      BY <2>7 DEF TableInv, Distinct
    <3> QED
      BY <1>3, <2>7, <3>1, <3>2 DEF Distinct
  <2> QED
    BY <1>3, <1>4, <2>4, <2>5, <2>7, <2>8, <2>9 DEF TableInv
<1> QED
  BY <1>1, <1>5, <1>6

\* An entry placed by rehash.
LEMMA PlaceStep ==
  ASSUME TableInv, GrowInv, PlaceEntry
  PROVE  GrowInv'
<1> DEFINE k == entries[placed + 1].key
<1>1. /\ phase = "placing" /\ placed \in 0..Len(entries) /\ placed < Len(entries)
      /\ Holds(newSlots, 2 * capacity, placed, entries)
      /\ capacity \in Nat /\ capacity > 0 /\ Len(entries) \in Nat
  BY LenProperties DEF PlaceEntry, GrowInv, TableInv
<1>2. PICK i \in PlaceSteps(k) : newSlots' = [newSlots EXCEPT ![Probe(k, 2 * capacity, i)] = placed + 1]
  BY DEF PlaceEntry, PlacingCapacity
<1>3. /\ i \in 0..((2 * capacity) - 1)
      /\ newSlots[Probe(k, 2 * capacity, i)] = Empty
      /\ \A j \in 0..(i - 1) : newSlots[Probe(k, 2 * capacity, j)] # Empty
  BY DEF PlaceSteps, PlacingCapacity
<1>4. \A e \in 1..Len(entries) : entries[e].key \in Keys
  <2>1. \A e \in 1..Len(entries) : entries[e] \in Entry
    BY LenProperties DEF TableInv
  <2> QED
    BY <2>1 DEF Entry
<1>5. k \in Keys /\ \A e \in 1..placed : entries[e].key \in Keys
  BY <1>1, <1>4
<1>6. 2 * capacity \in Nat /\ 2 * capacity > 0 /\ placed \in Nat
  BY <1>1
<1> DEFINE c == 2 * capacity
<1> HIDE DEF c
<1>7. Holds([newSlots EXCEPT ![Probe(k, c, i)] = placed + 1], c, placed + 1, entries)
  BY <1>1, <1>3, <1>5, <1>6, StoreEntry DEF c
<1>8. placed' = placed + 1 /\ UNCHANGED <<tableVars, phase, pending>>
  BY DEF PlaceEntry
<1>9. placed' \in 0..Len(entries)
  BY <1>1, <1>8
<1> QED
  BY <1>1, <1>2, <1>7, <1>8, <1>9 DEF GrowInv, tableVars, c

\* The inductive invariant holds at the start and is kept by every step.
LEMMA Inductive ==
  /\ Init => IInv
  /\ IInv /\ [Next]_vars => IInv'
<1>1. Init => IInv
  <2> SUFFICES ASSUME Init PROVE IInv
    OBVIOUS
  <2>1. entries = <<>> /\ entries \in Seq(Entry) /\ Len(entries) = 0
    BY DEF Init
  <2>2. Holds(slots, capacity, 0, entries)
    BY FreshHolds, CapacityAssumption DEF Init
  <2> QED
    BY <2>1, <2>2, CapacityAssumption DEF Init, IInv, TableInv, GrowInv, Distinct
<1>2. ASSUME IInv, [Next]_vars PROVE IInv'
  <2> USE <1>2 DEF IInv
  <2>1. capacity \in Nat /\ capacity >= 4 /\ Len(entries) \in Nat /\ count = Len(entries)
    BY LenProperties DEF TableInv
  <2>2. ASSUME NEW k \in Keys, Find(k) PROVE IInv'
    <3>1. PICK i \in StopSteps(k) : answer' = Answer(slots[Probe(k, capacity, i)])
      BY <2>2 DEF Find
    <3>2. /\ slots[Probe(k, capacity, i)] # Empty => slots[Probe(k, capacity, i)] \in 1..Len(entries)
          /\ \A e \in 1..Len(entries) : entries[e] \in Entry
      BY StopMeans, LenProperties DEF TableInv
    <3>3. answer' \in [found: BOOLEAN, value: Values \union {NoValue}]
      BY <3>1, <3>2 DEF Answer, Entry
    <3> QED
      BY <2>2, <3>3 DEF Find, TableInv, GrowInv, tableVars, growVars
  <2>3. ASSUME NEW k \in Keys, NEW v \in Values, FindOrInsert(k, v) PROVE IInv'
    <3>1. count + 1 < capacity
      BY <2>1, <2>3 DEF FindOrInsert, MustGrow, TableInv
    <3>2. TableInv'
      BY <2>3, <3>1, InsertStep DEF FindOrInsert
    <3> QED
      BY <2>3, <3>2 DEF FindOrInsert, GrowInv, growVars
  <2>4. ASSUME NEW k \in Keys, NEW v \in Values, StartGrowth(k, v) PROVE IInv'
    <3>1. Holds(Fresh(2 * capacity), 2 * capacity, 0, entries)
      BY <2>1, FreshHolds
    <3> QED
      BY <2>1, <2>4, <3>1 DEF StartGrowth, TableInv, GrowInv, tableVars
  <2>5. ASSUME PlaceEntry PROVE IInv'
    <3>1. GrowInv'
      BY <2>5, PlaceStep
    <3> QED
      BY <2>5, <3>1 DEF PlaceEntry, TableInv, tableVars
  <2>6. ASSUME EndGrowth PROVE IInv'
    <3>1. Holds(newSlots, 2 * capacity, Len(entries), entries)
      BY <2>6 DEF EndGrowth, GrowInv
    <3>2. /\ capacity' = 2 * capacity /\ capacity' \in Nat /\ capacity' >= 4
          /\ count' + 1 < capacity'
      BY <2>1, <2>6 DEF EndGrowth, TableInv
    <3>3. TableInv'
      BY <2>1, <2>6, <3>1, <3>2 DEF EndGrowth, TableInv
    <3> QED
      BY <2>6, <3>2, <3>3 DEF EndGrowth, GrowInv
  <2>7. ASSUME InsertAfterGrowth PROVE IInv'
    <3>1. pending.key \in Keys /\ pending.value \in Values /\ count + 1 < capacity
      BY <2>7 DEF InsertAfterGrowth, GrowInv
    <3>2. TableInv'
      BY <2>7, <3>1, InsertStep DEF InsertAfterGrowth
    <3> QED
      BY <2>7, <3>2 DEF InsertAfterGrowth, GrowInv
  <2>8. ASSUME NEW v \in Values, Assign(v) PROVE IInv'
    <3>1. place \in 1..Len(entries)
      BY <2>1, <2>8 DEF Assign, TableInv
    <3>2. entries[place] \in Entry /\ [entries[place] EXCEPT !.value = v] \in Entry
      <4>1. entries[place] \in Entry
        BY <3>1, LenProperties DEF TableInv
      <4> QED
        BY <4>1 DEF Entry
    <3>3. /\ entries' \in Seq(Entry)
          /\ Len(entries') = Len(entries)
          /\ \A e \in 1..Len(entries) : entries'[e].key = entries[e].key
      <4>1. entries' = [entries EXCEPT ![place] = [entries[place] EXCEPT !.value = v]]
        BY <2>8 DEF Assign
      <4> QED
        BY <3>1, <3>2, <4>1, ExceptSeq DEF TableInv, Entry
    <3>4. Holds(slots, capacity, Len(entries), entries')
      BY <3>3 DEF TableInv, Holds
    <3>5. Distinct(entries')
      BY <3>3 DEF TableInv, Distinct
    <3> QED
      BY <2>8, <3>3, <3>4, <3>5 DEF Assign, TableInv, GrowInv, growVars
  <2>9. ASSUME Clear PROVE IInv'
    <3>1. entries' = <<>> /\ entries' \in Seq(Entry) /\ Len(entries') = 0
      BY <2>9 DEF Clear
    <3>2. Holds(Fresh(capacity), capacity, 0, entries')
      BY <2>1, FreshHolds
    <3> QED
      BY <2>1, <2>9, <3>1, <3>2 DEF Clear, TableInv, GrowInv, Distinct, growVars
  <2>10. CASE UNCHANGED vars
    BY <2>10 DEF vars, TableInv, GrowInv
  <2> QED
    BY <2>2, <2>3, <2>4, <2>5, <2>6, <2>7, <2>8, <2>9, <2>10 DEF Next
<1> QED
  BY <1>1, <1>2

\* What is kept by every operation holds at every point.
LEMMA Invariant == Spec => []IInv
BY Inductive, PTL DEF Spec

-----------------------------------------------------------------------------
(* What the invariant gives *)

\* Type correctness: the slots hold indices, the counters count, and the table
\* being filled has twice the capacity.
THEOREM TypeCorrect == Spec => []TypeOK
<1>1. IInv => TypeOK
  <2> SUFFICES ASSUME IInv PROVE TypeOK
    OBVIOUS
  <2>1. Len(entries) \in Nat
    BY LenProperties DEF IInv, TableInv
  <2>2. slots \in [0..(capacity - 1) -> Nat \union {Empty, Tombstone}]
    BY <2>1 DEF IInv, TableInv, Holds
  <2>3. phase = "placing" =>
          /\ newSlots \in [0..(2 * capacity - 1) -> Nat \union {Empty}]
          /\ placed \in 0..Len(entries)
    BY <2>1 DEF IInv, GrowInv, Holds
  <2> QED
    BY <2>1, <2>2, <2>3 DEF IInv, TableInv, GrowInv, TypeOK, PlacingCapacity
<1> QED
  BY <1>1, Invariant, PTL

\* No probe of find, findOrInsert or rehash runs for ever: the table always
\* keeps an empty slot, and every probe meets every slot.
THEOREM ProbingAlwaysStops == Spec => []ProbingStops
<1>1. IInv => ProbingStops
  <2> SUFFICES ASSUME IInv PROVE ProbingStops
    OBVIOUS
  <2>1. /\ capacity \in Nat /\ capacity > 0 /\ Len(entries) \in Nat /\ Len(entries) < capacity
        /\ Holds(slots, capacity, Len(entries), entries)
    BY LenProperties DEF IInv, TableInv
  <2>2. ASSUME NEW k \in Keys PROVE StopSteps(k) # {}
    <3> DEFINE S == {i \in 0..(capacity - 1) : StopsAt(k, i)}
    <3>1. \A i \in 0..(capacity - 1) : slots[Probe(k, capacity, i)] = Empty => i \in S
      BY DEF StopsAt
    <3>2. S \in SUBSET (0..(capacity - 1))
      OBVIOUS
    <3> HIDE DEF S
    <3>3. PICK i \in S : \A j \in 0..(i - 1) : j \notin S
      BY <2>1, <3>1, <3>2, FirstStep
    <3>4. /\ i \in 0..(capacity - 1) /\ StopsAt(k, i)
          /\ \A j \in 0..(i - 1) : ~StopsAt(k, j)
      BY <2>1, <3>3 DEF S
    <3> QED
      BY <3>4 DEF StopSteps
  <2>3. ASSUME phase = "placing", placed < Len(entries)
        PROVE  PlaceSteps(entries[placed + 1].key) # {}
    <3> DEFINE k == entries[placed + 1].key
               c == 2 * capacity
               S == {i \in 0..(c - 1) : newSlots[Probe(k, c, i)] = Empty}
    <3>1. placed \in 0..Len(entries) /\ Holds(newSlots, c, placed, entries)
      BY <2>3 DEF IInv, GrowInv
    <3>2. c \in Nat /\ c > 0 /\ placed \in Nat /\ placed < c
      BY <2>1, <2>3, <3>1
    <3>3. k \in Keys
      <4>1. entries[placed + 1] \in Entry
        BY <2>1, <2>3, <3>1, LenProperties DEF IInv, TableInv
      <4> QED
        BY <4>1 DEF Entry
    <3>4. /\ \A i \in 0..(c - 1) : newSlots[Probe(k, c, i)] = Empty => i \in S
          /\ S \in SUBSET (0..(c - 1))
      OBVIOUS
    <3> HIDE DEF S, k, c
    <3>5. PICK i \in S : \A j \in 0..(i - 1) : j \notin S
      BY <3>1, <3>2, <3>3, <3>4, FirstStep
    <3>6. /\ i \in 0..(c - 1) /\ newSlots[Probe(k, c, i)] = Empty
          /\ \A j \in 0..(i - 1) : newSlots[Probe(k, c, j)] # Empty
      BY <3>2, <3>5 DEF S
    <3> QED
      BY <3>6 DEF PlaceSteps, PlacingCapacity, k, c
  <2> QED
    BY <2>2, <2>3 DEF ProbingStops
<1> QED
  BY <1>1, Invariant, PTL

\* Every entry is in a slot.
LEMMA AllVisible ==
  ASSUME TableInv
  PROVE  Visible = 1..Len(entries)
<1>1. ASSUME NEW e \in 1..Len(entries) PROVE \E p \in DOMAIN slots : slots[p] = e
  <2>1. Reaches(slots, capacity, entries[e].key, e)
    BY DEF TableInv, Holds
  <2>2. PICK i \in 0..(capacity - 1) : slots[Probe(entries[e].key, capacity, i)] = e
    BY <2>1 DEF Reaches
  <2>3. entries[e].key \in Keys
    <3>1. entries[e] \in Entry
      BY LenProperties DEF TableInv
    <3> QED
      BY <3>1 DEF Entry
  <2>4. Probe(entries[e].key, capacity, i) \in 0..(capacity - 1)
    <3>1. capacity \in Nat /\ capacity > 0
      BY DEF TableInv
    <3> QED
      BY <2>3, <3>1, ProbeRange
  <2>5. DOMAIN slots = 0..(capacity - 1)
    BY DEF TableInv, Holds
  <2> QED
    BY <2>2, <2>4, <2>5
<1> QED
  BY <1>1 DEF Visible

\* size() and forEach agree with what lookups find.
THEOREM SizesExact == Spec => []SizeExact
<1>1. IInv => SizeExact
  <2> SUFFICES ASSUME IInv PROVE SizeExact
    OBVIOUS
  <2>1. Visible = 1..Len(entries)
    BY AllVisible DEF IInv
  <2>2. 1 \in Int /\ Len(entries) \in Int /\ Len(entries) \in Nat
    BY LenProperties DEF IInv, TableInv
  <2>3. Cardinality(1..Len(entries)) = IF 1 > Len(entries) THEN 0 ELSE Len(entries) - 1 + 1
    BY ONLY <2>2, FS_Interval, Zenon
  <2>4. Cardinality(1..Len(entries)) = Len(entries)
    BY <2>2, <2>3
  <2> QED
    BY <2>1, <2>4 DEF IInv, TableInv, SizeExact, Distinct
<1> QED
  BY <1>1, Invariant, PTL

-----------------------------------------------------------------------------
(* The table implements the store *)

\* The map that a list of entries with distinct keys stands for.
MapOf(ents) ==
  [k \in {ents[e].key : e \in 1..Len(ents)} |->
     ents[CHOOSE e \in 1..Len(ents) : ents[e].key = k].value]

\* Under a key the map has the value of the entry with that key.
LEMMA MapOfValue ==
  ASSUME NEW ents, Distinct(ents), NEW e \in 1..Len(ents)
  PROVE  ents[e].key \in DOMAIN MapOf(ents) /\ MapOf(ents)[ents[e].key] = ents[e].value
<1>1. (CHOOSE f \in 1..Len(ents) : ents[f].key = ents[e].key) = e
  BY DEF Distinct
<1> QED
  BY <1>1 DEF MapOf

\* What lookups see is the map of the entries.
LEMMA ContentsAreEntries ==
  ASSUME TableInv
  PROVE  /\ Contents = MapOf(entries)
         /\ DOMAIN Contents = {entries[e].key : e \in 1..Len(entries)}
         /\ \A e \in 1..Len(entries) : Contents[entries[e].key] = entries[e].value
<1>1. Contents = MapOf(entries)
  BY AllVisible DEF Contents, MapOf
<1>2. DOMAIN MapOf(entries) = {entries[e].key : e \in 1..Len(entries)}
  BY DEF MapOf
<1>3. \A e \in 1..Len(entries) : MapOf(entries)[entries[e].key] = entries[e].value
  BY MapOfValue DEF TableInv
<1> QED
  BY <1>1, <1>2, <1>3

\* The answer of a probe is that of the store.
LEMMA AnswerRight ==
  ASSUME TableInv, NEW k \in Keys, NEW i \in StopSteps(k)
  PROVE  Answer(slots[Probe(k, capacity, i)]) = Store!Answer(k)
<1> DEFINE s == slots[Probe(k, capacity, i)]
<1>1. CASE s = Empty
  <2>1. k \notin DOMAIN Contents
    BY <1>1, StopMeans, ContentsAreEntries
  <2> QED
    BY <1>1, <2>1 DEF Answer, Store!Answer
<1>2. CASE s # Empty
  <2>1. s \in 1..Len(entries) /\ entries[s].key = k
    BY <1>2, StopMeans
  <2>2. k \in DOMAIN Contents /\ Contents[k] = entries[s].value
    BY <2>1, ContentsAreEntries
  <2> QED
    BY <1>2, <2>2 DEF Answer, Store!Answer
<1> QED
  BY <1>1, <1>2

\* An insertion is one of the store.
LEMMA InsertImplements ==
  ASSUME TableInv, TableInv', Contents' = MapOf(entries'), NEW k \in Keys, NEW v \in Values, ProbeAndInsert(k, v)
  PROVE  Store!Insert(k, v)
<1>1. PICK i \in StopSteps(k) :
        /\ answer' = Answer(slots[Probe(k, capacity, i)])
        /\ AddEntry(k, v, i) \/ FindEntry(k, i)
  BY DEF ProbeAndInsert
<1> DEFINE s == slots[Probe(k, capacity, i)]
           n == Len(entries)
<1>2. answer' = Store!Answer(k)
  BY <1>1, AnswerRight
<1>3. n \in Nat
  BY LenProperties DEF TableInv
<1>4. CASE FindEntry(k, i)
  <2>1. s \in 1..n /\ entries[s].key = k
    BY <1>4, StopMeans DEF FindEntry
  <2>2. place' = s /\ entries' = entries
    BY <1>4 DEF FindEntry, tableVars
  <2>3. k \in DOMAIN Contents
    BY <2>1, ContentsAreEntries
  <2>4. Contents' = Contents
    <3>1. Contents = MapOf(entries)
      BY ContentsAreEntries
    <3> QED
      BY <2>2, <3>1
  <2>5. Cursor' = k
    BY <1>3, <2>1, <2>2 DEF Cursor
  <2> QED
    BY <1>2, <2>3, <2>4, <2>5 DEF Store!Insert
<1>5. CASE AddEntry(k, v, i)
  <2> DEFINE new == [key |-> k, value |-> v]
  <2>1. s = Empty /\ entries' = Append(entries, new) /\ place' = n + 1
    BY <1>5 DEF AddEntry
  <2>2. new \in Entry
    BY DEF Entry
  <2>3. /\ Len(entries') = n + 1
        /\ \A e \in 1..n : entries'[e] = entries[e]
        /\ entries'[n + 1] = new
    BY <2>1, <2>2, AppendProperties DEF TableInv
  <2>4. k \notin DOMAIN Contents
    BY <2>1, StopMeans, ContentsAreEntries
  <2>5. Contents' = MapOf(entries') /\ Distinct(entries')
    BY DEF TableInv
  <2> DEFINE more == [j \in DOMAIN Contents \union {k} |-> IF j = k THEN v ELSE Contents[j]]
  <2>6. DOMAIN MapOf(entries') = DOMAIN more
    <3>1. DOMAIN MapOf(entries') = {entries'[e].key : e \in 1..(n + 1)}
      BY <2>3 DEF MapOf
    <3>2. DOMAIN more = {entries[e].key : e \in 1..n} \union {k}
      BY ContentsAreEntries
    <3>3. \A e \in 1..(n + 1) : entries'[e].key \in DOMAIN more
      BY <1>3, <2>3, <3>2
    <3>4. \A e \in 1..n : entries[e].key \in DOMAIN MapOf(entries')
      BY <1>3, <2>3, <3>1
    <3>5. k \in DOMAIN MapOf(entries')
      BY <1>3, <2>3, <3>1
    <3> QED
      BY <3>1, <3>2, <3>3, <3>4, <3>5, SMTT(30)
  <2>7. ASSUME NEW j \in DOMAIN more PROVE MapOf(entries')[j] = more[j]
    <3>1. PICK e \in 1..(n + 1) : entries'[e].key = j
      BY <2>3, <2>6, <2>7 DEF MapOf
    <3>2. MapOf(entries')[j] = entries'[e].value
      BY <2>3, <2>5, <3>1, MapOfValue
    <3>3. CASE e = n + 1
      BY <2>3, <3>1, <3>2, <3>3
    <3>4. CASE e \in 1..n
      <4>1. entries[e].key = j /\ MapOf(entries')[j] = entries[e].value
        BY <2>3, <3>1, <3>2, <3>4
      <4>2. j \in DOMAIN Contents /\ Contents[j] = entries[e].value
        BY <3>4, <4>1, ContentsAreEntries
      <4> QED
        BY <2>4, <4>1, <4>2
    <3> QED
      BY <1>3, <3>3, <3>4
  <2>8. MapOf(entries') = [j \in DOMAIN MapOf(entries') |-> MapOf(entries')[j]]
    BY DEF MapOf
  <2>9. Contents' = more
    BY <2>5, <2>6, <2>7, <2>8
  <2>10. Cursor' = k
    BY <1>3, <2>1, <2>3 DEF Cursor
  <2> QED
    BY <1>2, <2>4, <2>9, <2>10 DEF Store!Insert
<1> QED
  BY <1>1, <1>4, <1>5

\* The open-addressing table implements the store: whatever collides, whenever
\* it grows, every answer is that of a map.
THEOREM Implementation == Spec => ImplementsStore
<1> DEFINE Seen == Contents = MapOf(entries)
<1>1. IInv => Seen
  BY ContentsAreEntries DEF IInv
<1>2. ASSUME Init PROVE Store!Init
  <2>1. IInv /\ entries = <<>> /\ Len(entries) = 0
    BY <1>2, Inductive DEF Init
  <2>2. Contents = MapOf(entries)
    BY <2>1, <1>1
  <2>3. MapOf(entries) = [k \in {} |-> NoValue]
    BY <2>1 DEF MapOf
  <2> QED
    BY <1>2, <2>2, <2>3 DEF Init, Store!Init, Cursor
<1>3. ASSUME IInv, IInv', Seen, Seen', [Next]_vars PROVE [Store!Next]_(Store!vars)
  <2>1. TableInv /\ TableInv' /\ GrowInv /\ Contents = MapOf(entries) /\ Contents' = MapOf(entries')
    BY <1>3 DEF IInv
  <2>2. ASSUME NEW k \in Keys, Find(k) PROVE Store!Lookup(k)
    <3>1. answer' = Store!Answer(k)
      BY <2>1, <2>2, AnswerRight DEF Find
    <3>2. UNCHANGED <<entries, place>>
      BY <2>2 DEF Find, tableVars
    <3> QED
      BY <2>1, <3>1, <3>2 DEF Store!Lookup, Cursor
  <2>3. ASSUME NEW k \in Keys, NEW v \in Values, FindOrInsert(k, v) PROVE Store!Insert(k, v)
    BY <2>1, <2>3, InsertImplements DEF FindOrInsert
  <2>4. ASSUME NEW k \in Keys, NEW v \in Values, StartGrowth(k, v) PROVE Store!Release
    <3>1. UNCHANGED <<entries, answer>> /\ place' = 0
      BY <2>4 DEF StartGrowth, tableVars
    <3> QED
      BY <2>1, <3>1 DEF Store!Release, Cursor
  <2>5. ASSUME PlaceEntry \/ EndGrowth \/ UNCHANGED vars PROVE UNCHANGED Store!vars
    <3>1. UNCHANGED <<entries, answer, place>>
      BY <2>5 DEF PlaceEntry, EndGrowth, tableVars, vars
    <3> QED
      BY <2>1, <3>1 DEF Store!vars, Cursor
  <2>6. ASSUME InsertAfterGrowth PROVE \E k \in Keys, v \in Values : Store!Insert(k, v)
    <3>1. pending.key \in Keys /\ pending.value \in Values /\ ProbeAndInsert(pending.key, pending.value)
      BY <2>1, <2>6 DEF InsertAfterGrowth, GrowInv
    <3> QED
      BY <2>1, <3>1, InsertImplements
  <2>7. ASSUME NEW v \in Values, Assign(v) PROVE Store!Assign(v)
    <3> DEFINE n == Len(entries)
    <3>1. place \in 1..n /\ n \in Nat
      BY <2>1, <2>7, LenProperties DEF Assign, TableInv
    <3>2. entries[place] \in Entry /\ [entries[place] EXCEPT !.value = v] \in Entry
      <4>1. entries[place] \in Entry
        BY <2>1, <3>1, LenProperties DEF TableInv
      <4> QED
        BY <4>1 DEF Entry
    <3>3. /\ Len(entries') = n
          /\ \A e \in 1..n : entries'[e] = IF e = place THEN [entries[place] EXCEPT !.value = v]
                                                       ELSE entries[e]
      <4>1. entries' = [entries EXCEPT ![place] = [entries[place] EXCEPT !.value = v]]
        BY <2>7 DEF Assign
      <4> QED
        BY <2>1, <3>1, <3>2, <4>1, ExceptSeq DEF TableInv
    <3>4. \A e \in 1..n : /\ entries'[e].key = entries[e].key
                          /\ entries'[e].value = IF e = place THEN v ELSE entries[e].value
      BY <3>2, <3>3 DEF Entry
    <3>5. Cursor = entries[place].key /\ Cursor' = entries'[place].key /\ UNCHANGED <<place, answer>>
      BY <2>7, <3>1 DEF Assign, Cursor
    <3>6. Cursor' = Cursor /\ Cursor \in DOMAIN Contents
      BY <2>1, <3>1, <3>4, <3>5, ContentsAreEntries
    <3>7. DOMAIN MapOf(entries') = DOMAIN Contents
      BY <2>1, <3>3, <3>4 DEF MapOf
    <3>8. ASSUME NEW j \in DOMAIN Contents
          PROVE  MapOf(entries')[j] = IF j = Cursor THEN v ELSE Contents[j]
      <4>1. PICK e \in 1..n : entries[e].key = j
        BY <2>1, ContentsAreEntries
      <4>2. Distinct(entries') /\ Distinct(entries)
        BY <2>1 DEF TableInv
      <4>3. MapOf(entries')[j] = entries'[e].value
        BY <3>3, <3>4, <4>1, <4>2, MapOfValue
      <4>4. Contents[j] = entries[e].value
        BY <2>1, <4>1, ContentsAreEntries
      <4>5. j = Cursor <=> e = place
        BY <3>1, <3>5, <4>1, <4>2 DEF Distinct
      <4> QED
        BY <3>4, <4>3, <4>4, <4>5
    <3>9. MapOf(entries') = [j \in DOMAIN MapOf(entries') |-> MapOf(entries')[j]]
      BY DEF MapOf
    <3>10. Contents = [j \in DOMAIN Contents |-> Contents[j]]
      BY <2>1 DEF MapOf
    <3>11. Contents' = [Contents EXCEPT ![Cursor] = v]
      BY <2>1, <3>6, <3>7, <3>8, <3>9, <3>10
    <3> QED
      BY <3>5, <3>6, <3>11 DEF Store!Assign
  <2>8. ASSUME Clear PROVE Store!Clear
    <3>1. entries' = <<>> /\ Len(entries') = 0 /\ place' = 0 /\ answer' = answer
      BY <2>8 DEF Clear
    <3>2. MapOf(entries') = [k \in {} |-> NoValue]
      BY <3>1 DEF MapOf
    <3> QED
      BY <2>1, <3>1, <3>2 DEF Store!Clear, Cursor
  <2> QED
    BY <1>3, <2>2, <2>3, <2>4, <2>5, <2>6, <2>7, <2>8 DEF Next, Store!Next
<1>4. IInv /\ IInv' /\ [Next]_vars => [Store!Next]_(Store!vars)
  <2>1. IInv' => Seen'
    BY <1>1, PTL
  <2> QED
    BY <1>1, <1>3, <2>1
<1> QED
  BY <1>2, <1>4, Invariant, PTL DEF Spec, Store!Spec, ImplementsStore
=============================================================================
