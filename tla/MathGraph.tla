------------------------------- MODULE MathGraph -------------------------------
(***************************************************************************)
(* The math graph of compiler/src/ir/math_graph.cpp as operators on a      *)
(* record: values (placeholders, constants, node results), nodes, use-def  *)
(* lists, outputs, the effect chain and the equivalence map. Ids start at  *)
(* 1. A value carries a residue of a prime field in place of a double:     *)
(* the rewrites are exact there, as they claim to be on their doubles.     *)
(***************************************************************************)
EXTENDS Integers, SequencesExt, FiniteSets

CONSTANTS
  Modulus,          \* prime: the values are 0 .. Modulus-1, and -1 is Modulus-1
  EquivalenceDepth  \* kMaxEquivalenceDepth: steps of the representative walk

ASSUME ModulusAssumption == Modulus \in Nat /\ Modulus > 1
ASSUME DepthAssumption   == EquivalenceDepth \in Nat

Residues == 0 .. Modulus - 1
MinusOne == Modulus - 1

\* Which a prime modulus gives.
ASSUME FieldAssumption == \A b \in Residues \ {0} : \E c \in Residues : (b * c) % Modulus = 1

\* The inverse of a nonzero residue.
Inverted(b) == CHOOSE c \in Residues : (b * c) % Modulus = 1

\* a to the power b.
Power(a, b) ==
  LET power[k \in 0 .. b] == IF k = 0 THEN 1 ELSE a * power[k - 1]
  IN power[b]

\* Only the native boundary has an effect (inferNodeEffects).
Effectful(op) == op = "ffi"

Binary(op) == op \in {"add", "sub", "mul", "div", "pow"}

\* evalScalar: a singularity (x / 0) is an event whose value is 0; crossing
\* the native boundary and a lift to a tensor copy the operand. A product of
\* matrices is left without a value, and reads as 0.
EvalScalar(op, a, b) ==
  CASE op = "add" -> (a + b) % Modulus
    [] op = "sub" -> (a - b) % Modulus
    [] op = "mul" -> (a * b) % Modulus
    [] op = "div" -> IF b = 0 THEN 0 ELSE (a * Inverted(b)) % Modulus
    [] op = "pow" -> Power(a, b) % Modulus
    [] op = "neg" -> (-a) % Modulus
    [] op \in {"ffi", "lift"} -> a
    [] op = "matmul" -> 0

-----------------------------------------------------------------------------
(***************************************************************************)
(* Construction.                                                           *)
(***************************************************************************)

EmptyGraph == [values |-> <<>>, nodes |-> <<>>, users |-> <<>>, outputs |-> <<>>,
               chain |-> <<>>, rep |-> <<>>]

Value(kind, payload, producer) == [kind |-> kind, payload |-> payload, producer |-> producer]

AllocateValue(g, v) ==
  [g EXCEPT !.values = Append(@, v), !.users = Append(@, <<>>)]

AddPlaceholder(g, name) == AllocateValue(g, Value("placeholder", name, 0))
AddConstant(g, c)       == AllocateValue(g, Value("constant", c, 0))

\* The operand places of node at which v stands.
Uses(node, v) == {k \in DOMAIN node.inputs : node.inputs[k] = v}

\* One entry per use: mul(x, x) is twice a user of x.
UseEntries(node, v) == [k \in 1 .. Cardinality(Uses(node, v)) |-> node.id]

\* An operand that does not exist is refused (InvalidGraph).
MayAddNode(g, inputs) == \A k \in DOMAIN inputs : inputs[k] \in DOMAIN g.values

\* The result value is the last value allocated.
AddNode(g, op, inputs, attr) ==
  LET n == [id |-> Len(g.nodes) + 1, op |-> op, attr |-> attr, inputs |-> inputs,
            result |-> Len(g.values) + 1, dead |-> FALSE]
      h == AllocateValue(g, Value("result", 0, n.id))
  IN [h EXCEPT !.nodes = Append(@, n),
               !.users = [v \in DOMAIN @ |-> @[v] \o UseEntries(n, v)],
               !.chain = IF Effectful(op) THEN Append(@, n.id) ELSE @]

NewestValue(g) == Len(g.values)

AddOutput(g, v) == [g EXCEPT !.outputs = IF v \in ToSet(@) THEN @ ELSE Append(@, v)]

-----------------------------------------------------------------------------
(***************************************************************************)
(* Rewriting.                                                              *)
(***************************************************************************)

Live(g) == {n \in DOMAIN g.nodes : ~g.nodes[n].dead}

\* The items of s that are in S, in their order.
Within(s, S) == FoldLeft(LAMBDA list, x : IF x \in S THEN Append(list, x) ELSE list, <<>>, s)

RebuildUsers(g) ==
  [g EXCEPT !.users = [v \in DOMAIN g.values |->
     FoldLeft(LAMBDA list, n : IF n.dead THEN list ELSE list \o UseEntries(n, v), <<>>, g.nodes)]]

\* A dead node keeps its operands.
Rewired(node, old, new) ==
  IF node.dead THEN node ELSE [node EXCEPT !.inputs = ReplaceAll(@, old, new)]

\* Mutant: the use-def lists are left as they were.
ReplaceOperandUsesStaleUsers(g, old, new) ==
  IF old = new THEN g
  ELSE [g EXCEPT
         !.nodes = [n \in DOMAIN @ |-> Rewired(@[n], old, new)],
         !.outputs = ReplaceAll(@, old, new)]

\* Every live operand and every output that is old becomes new.
ReplaceOperandUses(g, old, new) ==
  IF old = new THEN g
  ELSE RebuildUsers([g EXCEPT
         !.nodes = [n \in DOMAIN @ |-> Rewired(@[n], old, new)],
         !.outputs = ReplaceAll(@, old, new)])

\* The last recorded representative wins.
RecordEquivalent(g, old, new) ==
  [g EXCEPT !.rep = [v \in DOMAIN @ \union {old} |-> IF v = old THEN new ELSE @[v]]]

\* The use-def lists keep the dead node until they are next rebuilt.
KillNode(g, n) == [g EXCEPT !.nodes[n].dead = TRUE, !.chain = RemoveFirst(@, n)]

\* topoOrder: live nodes in id order, trusted to be a topological order.
TopoOrder(g) == Within([n \in DOMAIN g.nodes |-> n], Live(g))

\* The representative walk stops at EquivalenceDepth steps.
Representative(g, v) ==
  LET walk[k \in 0 .. EquivalenceDepth] ==
        IF k = 0 THEN v
        ELSE LET w == walk[k - 1] IN IF w \in DOMAIN g.rep THEN g.rep[w] ELSE w
  IN walk[EquivalenceDepth]

-----------------------------------------------------------------------------
(***************************************************************************)
(* renumberTopological: Kahn's algorithm over the live nodes, first in,    *)
(* first out; dead nodes trail, and are appended a second time by the loop *)
(* over what is left unplaced, since a dead node is never placed.          *)
(***************************************************************************)

LiveProducer(g, v) == g.values[v].kind = "result" /\ ~g.nodes[g.values[v].producer].dead

PendingDeps(g, n) ==
  IF g.nodes[n].dead THEN 0
  ELSE Cardinality({k \in DOMAIN g.nodes[n].inputs : LiveProducer(g, g.nodes[n].inputs[k])})

\* State of the traversal: nodes that became ready, dependencies still pending.
Release(g, s, user) ==
  IF g.nodes[user].dead \/ s.pending[user] = 0 THEN s
  ELSE [ready   |-> IF s.pending[user] = 1 THEN Append(s.ready, user) ELSE s.ready,
        pending |-> [s.pending EXCEPT ![user] = @ - 1]]

KahnOrder(g) ==
  LET count == Len(g.nodes)
      pending == [n \in DOMAIN g.nodes |-> PendingDeps(g, n)]
      start == [ready   |-> Within(TopoOrder(g), {n \in DOMAIN pending : pending[n] = 0}),
                pending |-> pending]
      placed[k \in 0 .. count] ==
        IF k = 0 THEN start
        ELSE LET s == placed[k - 1]
             IN IF k > Len(s.ready) THEN s
                ELSE FoldLeft(LAMBDA t, user : Release(g, t, user), s,
                              g.users[g.nodes[s.ready[k]].result])
  IN placed[count].ready

\* Mutant: ready nodes are placed in id order, without regard to dependencies.
NewOrderById(g) ==
  LET dead == Within([n \in DOMAIN g.nodes |-> n], DOMAIN g.nodes \ Live(g))
  IN TopoOrder(g) \o dead \o dead

NewOrder(g) ==
  LET ids == [n \in DOMAIN g.nodes |-> n]
      placed == KahnOrder(g)
  IN placed \o Within(ids, DOMAIN g.nodes \ Live(g))
            \o Within(ids, DOMAIN g.nodes \ ToSet(placed))

\* The node's last position in the order.
Remap(order) == [n \in ToSet(order) |->
  CHOOSE p \in DOMAIN order : order[p] = n /\ \A q \in DOMAIN order : order[q] = n => q <= p]

\* The value, once nodes are renamed.
Reproduced(value, to) ==
  IF value.kind = "result" THEN [value EXCEPT !.producer = to[@]] ELSE value

\* Mutant: the effect chain keeps the old ids.
RenumberKeepChain(g) ==
  LET order == NewOrder(g)
      to == Remap(order)
  IN IF \A n \in DOMAIN to : to[n] = n THEN g
     ELSE [g EXCEPT
            !.nodes  = [p \in DOMAIN order |-> [g.nodes[order[p]] EXCEPT !.id = to[order[p]]]],
            !.values = [v \in DOMAIN @ |-> Reproduced(@[v], to)],
            !.users  = [v \in DOMAIN @ |-> [k \in DOMAIN @[v] |-> to[@[v][k]]]]]

RenumberTopological(g) ==
  LET order == NewOrder(g)
      to == Remap(order)
  IN IF \A n \in DOMAIN to : to[n] = n THEN g
     ELSE [g EXCEPT
            !.nodes  = [p \in DOMAIN order |-> [g.nodes[order[p]] EXCEPT !.id = to[order[p]]]],
            !.values = [v \in DOMAIN @ |-> Reproduced(@[v], to)],
            !.users  = [v \in DOMAIN @ |-> [k \in DOMAIN @[v] |-> to[@[v][k]]]],
            !.chain  = [k \in DOMAIN @ |-> to[@[k]]]]

-----------------------------------------------------------------------------
(***************************************************************************)
(* verifyGraph, the checks that a rewrite can make fail, and interpretGraph.*)
(***************************************************************************)

OutputsAlive(g) ==
  \A k \in DOMAIN g.outputs : LET v == g.values[g.outputs[k]]
    IN v.kind = "result" => ~g.nodes[v.producer].dead

ProducersExist(g) ==
  \A v \in DOMAIN g.values : g.values[v].kind = "result" => g.values[v].producer \in DOMAIN g.nodes

ProducedBefore(g) ==
  \A n \in Live(g) : \A k \in DOMAIN g.nodes[n].inputs :
    LET v == g.values[g.nodes[n].inputs[k]] IN v.kind = "result" => v.producer < g.nodes[n].id

ChainContinuous(g) ==
  \A k \in DOMAIN g.chain : LET n == g.chain[k]
    IN n \in DOMAIN g.nodes /\ ~g.nodes[n].dead /\ Effectful(g.nodes[n].op)

VerifyGraph(g) == OutputsAlive(g) /\ ProducersExist(g) /\ ProducedBefore(g) /\ ChainContinuous(g)

\* The k-th placeholder, in the order of the values, takes the k-th input, or 0
\* past the last; constants take their payload; then the live nodes are
\* evaluated in id order. An operand with no value yet reads as 0.
BoundLeaves(g, inputs) ==
  LET Input(v) == LET k == Cardinality({w \in 1 .. v : g.values[w].kind = "placeholder"})
                  IN IF k \in DOMAIN inputs THEN inputs[k] ELSE 0
  IN [v \in {w \in DOMAIN g.values : g.values[w].kind # "result"} |->
        IF g.values[v].kind = "constant" THEN g.values[v].payload ELSE Input(v)]

ReadScalar(g, scalars, v) ==
  LET r == Representative(g, v) IN IF r \in DOMAIN scalars THEN scalars[r] ELSE 0

EvalNode(g, scalars, node) ==
  LET a == ReadScalar(g, scalars, node.inputs[1])
      b == IF Len(node.inputs) > 1 THEN ReadScalar(g, scalars, node.inputs[2]) ELSE 0
  IN [v \in DOMAIN scalars \union {node.result} |->
        IF v = node.result THEN EvalScalar(node.op, a, b) ELSE scalars[v]]

InterpretGraph(g, inputs) ==
  LET scalars == FoldLeft(LAMBDA s, n : EvalNode(g, s, g.nodes[n]), BoundLeaves(g, inputs), TopoOrder(g))
  IN [k \in DOMAIN g.outputs |-> ReadScalar(g, scalars, g.outputs[k])]
=============================================================================
