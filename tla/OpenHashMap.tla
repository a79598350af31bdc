----------------------------- MODULE OpenHashMap -----------------------------
(***************************************************************************)
(* The open-addressing table of compiler/include/mlk/core/hash_map.h:      *)
(* entries are kept in insertion order, and slots, probed linearly from    *)
(* the hash of a key, hold their indices. The capacity doubles when seven  *)
(* tenths of the slots are in use, by placing every entry again.           *)
(*                                                                         *)
(* Lookups and insertions that need no growth are one step; growing places *)
(* one entry a step. Spec has the calls that the program makes, and        *)
(* SpecWithRemove the one that only the tests make.                        *)
(***************************************************************************)
EXTENDS Integers, Sequences, FiniteSets

CONSTANTS
  Keys, Values,      \* what the map is used with
  Hash,              \* the hash of each key
  NoKey, NoValue,    \* absent
  InitialCapacity    \* 16 in the code

ASSUME KeysAssumption ==
  /\ Hash \in [Keys -> Nat]
  /\ NoKey \notin Keys
  /\ NoValue \notin Values
ASSUME CapacityAssumption ==
  /\ InitialCapacity \in Nat /\ InitialCapacity >= 4

Empty == -1
Tombstone == -2

VARIABLES
  slots,        \* index of an entry, Empty or Tombstone
  capacity,     \* slots_.size()
  entries,      \* keys and values in the order of their insertion
  count,
  tombstones,
  place,        \* the entry whose address the caller holds, or 0
  answer,       \* what the last find or findOrInsert returned
  phase,        \* "idle", "placing" (rehash), "grown" (rehash has returned)
  pending,      \* the key and the default value of the insertion that grows
  newSlots,     \* the table rehash is filling
  placed        \* how many entries it has placed

tableVars == <<slots, capacity, entries, count, tombstones>>
growVars == <<phase, pending, newSlots, placed>>
vars == <<slots, capacity, entries, count, tombstones, place, answer,
          phase, pending, newSlots, placed>>

Entry == [key: Keys, value: Values]
Fresh(c) == [p \in 0..(c - 1) |-> Empty]

\* The i-th position probed for k in a table of c slots.
Probe(k, c, i) ==
  LET p == (Hash[k] % c) + i
  IN  IF p < c THEN p ELSE p - c

\* Probing for k stops at step i: nothing there, or k itself.
StopsAt(k, i) ==
  LET s == slots[Probe(k, capacity, i)]
  IN  s = Empty \/ (s # Tombstone /\ entries[s].key = k)

StopSteps(k) ==
  {i \in 0..(capacity - 1) : StopsAt(k, i) /\ \A j \in 0..(i - 1) : ~StopsAt(k, j)}

Answer(s) ==
  IF s = Empty THEN [found |-> FALSE, value |-> NoValue]
               ELSE [found |-> TRUE, value |-> entries[s].value]

Init ==
  /\ slots = Fresh(InitialCapacity)
  /\ capacity = InitialCapacity
  /\ entries = <<>>
  /\ count = 0
  /\ tombstones = 0
  /\ place = 0
  /\ answer = [found |-> FALSE, value |-> NoValue]
  /\ phase = "idle"
  /\ pending = [key |-> NoKey, value |-> NoValue]
  /\ newSlots = Fresh(InitialCapacity)
  /\ placed = 0

Find(k) ==
  /\ phase = "idle"
  /\ \E i \in StopSteps(k) : answer' = Answer(slots[Probe(k, capacity, i)])
  /\ UNCHANGED <<tableVars, place, growVars>>

\* Probing stops at an empty slot: the entry goes to the first tombstone met,
\* or to that slot.
FreeSteps(k, i) ==
  {j \in 0..i : /\ slots[Probe(k, capacity, j)] \in {Empty, Tombstone}
                /\ \A h \in 0..(j - 1) : slots[Probe(k, capacity, h)] \notin {Empty, Tombstone}}

AddEntry(k, v, i) ==
  /\ slots[Probe(k, capacity, i)] = Empty
  /\ \E j \in FreeSteps(k, i) :
       LET p == Probe(k, capacity, j)
       IN  /\ slots' = [slots EXCEPT ![p] = Len(entries) + 1]
           /\ tombstones' = IF slots[p] = Tombstone THEN tombstones - 1 ELSE tombstones
  /\ entries' = Append(entries, [key |-> k, value |-> v])
  /\ count' = count + 1
  /\ place' = Len(entries) + 1
  /\ UNCHANGED capacity

FindEntryCounted(k, i) ==
  /\ slots[Probe(k, capacity, i)] # Empty
  /\ place' = slots[Probe(k, capacity, i)]
  /\ count' = count + 1
  /\ UNCHANGED <<slots, capacity, entries, tombstones>>

FindEntry(k, i) ==
  /\ slots[Probe(k, capacity, i)] # Empty
  /\ place' = slots[Probe(k, capacity, i)]
  /\ UNCHANGED tableVars

ProbeAndInsert(k, v) ==
  \E i \in StopSteps(k) :
    /\ answer' = Answer(slots[Probe(k, capacity, i)])
    /\ AddEntry(k, v, i) \/ FindEntry(k, i)

MustGrowWhenFull == count + tombstones > capacity

\* count_ + tombstones_ against capacity * kMaxLoadFactor, both times ten.
MustGrow == (count + tombstones) * 10 >= capacity * 7

FindOrInsert(k, v) ==
  /\ phase = "idle"
  /\ ~MustGrow
  /\ ProbeAndInsert(k, v)
  /\ UNCHANGED growVars

\* The same call when the table is full enough: rehash(slots_.size() * 2).
StartGrowth(k, v) ==
  /\ phase = "idle"
  /\ MustGrow
  /\ phase' = "placing"
  /\ pending' = [key |-> k, value |-> v]
  /\ newSlots' = Fresh(2 * capacity)
  /\ placed' = 0
  /\ place' = 0
  /\ UNCHANGED <<tableVars, answer>>

\* The mask of the new table, not of the old one.
PlacingCapacityOld == capacity
PlacingCapacity == 2 * capacity

PlaceSteps(k) ==
  {i \in 0..(PlacingCapacity - 1) :
     /\ newSlots[Probe(k, PlacingCapacity, i)] = Empty
     /\ \A j \in 0..(i - 1) : newSlots[Probe(k, PlacingCapacity, j)] # Empty}

PlaceEntry ==
  /\ phase = "placing"
  /\ placed < Len(entries)
  /\ placed' = placed + 1
  /\ \E i \in PlaceSteps(entries[placed + 1].key) :
       newSlots' = [newSlots EXCEPT
                      ![Probe(entries[placed + 1].key, PlacingCapacity, i)] = placed + 1]
  /\ UNCHANGED <<tableVars, place, answer, phase, pending>>

EndGrowthKeepSize ==
  /\ phase = "placing"
  /\ placed = Len(entries)
  /\ phase' = "grown"
  /\ slots' = newSlots
  /\ tombstones' = 0
  /\ UNCHANGED <<capacity, entries, count, place, answer, pending, newSlots, placed>>

EndGrowth ==
  /\ phase = "placing"
  /\ placed = Len(entries)
  /\ phase' = "grown"
  /\ slots' = newSlots
  /\ capacity' = 2 * capacity
  /\ tombstones' = 0
  /\ UNCHANGED <<entries, count, place, answer, pending, newSlots, placed>>

InsertAfterGrowth ==
  /\ phase = "grown"
  /\ phase' = "idle"
  /\ ProbeAndInsert(pending.key, pending.value)
  /\ pending' = [key |-> NoKey, value |-> NoValue]
  /\ UNCHANGED <<newSlots, placed>>

\* The caller writes through the pointer findOrInsert returned.
Assign(v) ==
  /\ phase = "idle"
  /\ place # 0
  /\ entries' = [entries EXCEPT ![place].value = v]
  /\ UNCHANGED <<slots, capacity, count, tombstones, place, answer, growVars>>

Clear ==
  /\ phase = "idle"
  /\ entries' = <<>>
  /\ slots' = Fresh(capacity)
  /\ count' = 0
  /\ tombstones' = 0
  /\ place' = 0
  /\ UNCHANGED <<capacity, answer, growVars>>

\* remove leaves the entry in entries_.
Remove(k) ==
  /\ phase = "idle"
  /\ \E i \in StopSteps(k) :
       LET p == Probe(k, capacity, i)
       IN  /\ slots[p] # Empty
           /\ slots' = [slots EXCEPT ![p] = Tombstone]
  /\ count' = count - 1
  /\ tombstones' = tombstones + 1
  /\ place' = 0
  /\ UNCHANGED <<capacity, entries, answer, growVars>>

Next ==
  \/ \E k \in Keys : Find(k)
  \/ \E k \in Keys, v \in Values : FindOrInsert(k, v) \/ StartGrowth(k, v)
  \/ PlaceEntry
  \/ EndGrowth
  \/ InsertAfterGrowth
  \/ \E v \in Values : Assign(v)
  \/ Clear

Spec == Init /\ [][Next]_vars
SpecWithRemove == Init /\ [][Next \/ \E k \in Keys : Remove(k)]_vars

\* Bound of the runs with removals, after which entries only grows.
FewEntries == Len(entries) <= 9
-----------------------------------------------------------------------------
(* Properties *)

TypeOK ==
  /\ capacity \in Nat
  /\ slots \in [0..(capacity - 1) -> Nat \union {Empty, Tombstone}]
  /\ entries \in Seq(Entry)
  /\ count \in Nat
  /\ tombstones \in Nat
  /\ place \in 0..Len(entries)
  /\ answer \in [found: BOOLEAN, value: Values \union {NoValue}]
  /\ phase \in {"idle", "placing", "grown"}
  /\ pending \in [key: Keys \union {NoKey}, value: Values \union {NoValue}]
  /\ phase = "placing" =>
       /\ newSlots \in [0..(PlacingCapacity - 1) -> Nat \union {Empty}]
       /\ placed \in 0..Len(entries)

\* Every lookup and every insertion ends: probing for any key, there or not,
\* meets the key or an empty slot, and rehash finds an empty slot for every
\* entry. (The loops of find, findOrInsert, remove and rehash have no other
\* exit.)
ProbingStops ==
  /\ \A k \in Keys : StopSteps(k) # {}
  /\ phase = "placing" /\ placed < Len(entries) =>
       PlaceSteps(entries[placed + 1].key) # {}

\* The entries that a probe can reach.
Visible == {e \in 1..Len(entries) : \E p \in DOMAIN slots : slots[p] = e}

\* size() counts the keys that can be found, forEach visits each of them once
\* and nothing else, also while a rehash is on its way.
SizeExact ==
  /\ count = Cardinality(Visible)
  /\ Visible = 1..Len(entries)
  /\ \A e, f \in 1..Len(entries) : entries[e].key = entries[f].key => e = f

\* The map seen through its lookups.
Contents ==
  [k \in {entries[e].key : e \in Visible} |->
     entries[CHOOSE e \in Visible : entries[e].key = k].value]

\* Growing the table changes what it holds for no key. (It does after a
\* removal: rehash places the entries of removed keys again.)
GrowthKeepsKeys == [][EndGrowth => DOMAIN Contents' = DOMAIN Contents]_vars

Cursor == IF place = 0 THEN NoKey ELSE entries[place].key

Store == INSTANCE KeyedStore WITH contents <- Contents, cursor <- Cursor

\* The table is a map: whatever collides, grows or is cleared, a lookup finds
\* exactly the keys inserted since the last clear, with their last values.
ImplementsStore == Store!Spec
=============================================================================
