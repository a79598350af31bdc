----------------------------- MODULE KeyedStore -----------------------------
(***************************************************************************)
(* What the users of a hash map rely on: a finite map from keys to values, *)
(* whose lookups answer exactly whether a key is there and what it holds,  *)
(* and whose insertions give a place through which the value is rewritten. *)
(* Nothing of the table (slots, capacity, growth) is visible.              *)
(***************************************************************************)
EXTENDS Naturals

CONSTANTS Keys, Values, NoKey, NoValue

VARIABLES
  contents,   \* the value of each key that is there
  cursor,     \* the key whose value may be rewritten, or NoKey
  answer      \* what the last lookup or insertion returned

vars == <<contents, cursor, answer>>

Answer(k) ==
  IF k \in DOMAIN contents THEN [found |-> TRUE, value |-> contents[k]]
                           ELSE [found |-> FALSE, value |-> NoValue]

Init ==
  /\ contents = [k \in {} |-> NoValue]
  /\ cursor = NoKey
  /\ answer = [found |-> FALSE, value |-> NoValue]

Lookup(k) ==
  /\ answer' = Answer(k)
  /\ UNCHANGED <<contents, cursor>>

Insert(k, v) ==
  /\ answer' = Answer(k)
  /\ cursor' = k
  /\ contents' = IF k \in DOMAIN contents THEN contents
                 ELSE [j \in DOMAIN contents \union {k} |->
                         IF j = k THEN v ELSE contents[j]]

Assign(v) ==
  /\ cursor \in DOMAIN contents
  /\ contents' = [contents EXCEPT ![cursor] = v]
  /\ UNCHANGED <<cursor, answer>>

\* The place given by an insertion is lost when the table may move.
Release ==
  /\ cursor' = NoKey
  /\ UNCHANGED <<contents, answer>>

Clear ==
  /\ contents' = [k \in {} |-> NoValue]
  /\ cursor' = NoKey
  /\ UNCHANGED answer

Next ==
  \/ \E k \in Keys : Lookup(k)
  \/ \E k \in Keys, v \in Values : Insert(k, v)
  \/ \E v \in Values : Assign(v)
  \/ Release
  \/ Clear

Spec == Init /\ [][Next]_vars
=============================================================================
