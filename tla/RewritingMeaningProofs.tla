------------------------- MODULE RewritingMeaningProofs -------------------------
(***************************************************************************)
(* Proof that the passes keep what the graph computes, for any graph a     *)
(* frontend can build, any passes but the e-graph extraction, any bounds,  *)
(* and any stops and recompilations: the interpreter answers for the       *)
(* outputs what it answered for the frontend's graph, the verifier rejects *)
(* only graphs in which a pass was stopped, and the kernel lowered from    *)
(* the graph, with or without fusion, computes what the frontend's graph   *)
(* computed. The parts: the steps of the passes, the frontend's graph, the *)
(* invariant of the answer, the order that renumberTopological finds, and, *)
(* for the kernel: the region that fusion gathers, its order, the          *)
(* expressions emitted for it, what the executor's chain computes from     *)
(* them, and the scalars.                                                  *)
(***************************************************************************)
EXTENDS GraphRewritingProofs

-----------------------------------------------------------------------------
(***************************************************************************)
(* What the steps of the passes keep of a graph.                           *)
(***************************************************************************)

\* A sound graph, in which the placeholders have names of their own and no
\* value is computed from itself.
WellMade(g) == Sound(g) /\ Ranked(g) /\ NamesOnce(g)

\* The outputs of h denote what those of g do.
AnswersAs(g, h) ==
  /\ WellMade(h) /\ Len(h.outputs) = Len(g.outputs)
  /\ \A x, den : Denotes(g, x, den) =>
       \E d : Denotes(h, x, d) /\ \A k \in 1 .. Len(g.outputs) : d[h.outputs[k]] = den[g.outputs[k]]

\* A graph answers as itself.
LEMMA AnswersItself ==
  ASSUME NEW g, WellMade(g)
  PROVE  AnswersAs(g, g)
BY DEF AnswersAs

\* A node replaced by a value that stands for it.
LEMMA ReplacementAnswers ==
  ASSUME NEW g, WellMade(g), NEW n \in 1 .. Len(g.nodes), ~g.nodes[n].dead, Pure(g, n),
         NEW l, NEW v, Justified(g, g.nodes[n].result, l, v), NEW h, h = ReplaceResult(l, n, v)
  PROVE  AnswersAs(g, h) /\ (LiveBelow(g) => LiveBelow(h))
<1>1. PICK r : r = g.nodes[n].result
  OBVIOUS
<1>2. Sound(g) /\ NamesOnce(g) /\ GraphOK(g)
  BY DEF WellMade, Sound
<1>3. /\ Sound(l) /\ GraphOK(l) /\ Grown(g, l) /\ NamesOnce(l) /\ l.outputs = g.outputs
      /\ v \in 1 .. Len(l.values) /\ v # r /\ v \notin DOMAIN l.rep
      /\ LiveBelow(g) => LiveBelow(l) /\ Available(l, v)
      /\ \A x, den : Denotes(l, x, den) => den[v] = den[r]
  BY <1>1, <1>2 DEF Justified, Extends, Sound
<1>4. PICK b, rank : b \in Nat /\ Ranks(l, b, rank) /\ rank[v] <= rank[r]
  BY <1>1 DEF Justified
<1>5. n \in 1 .. Len(l.nodes) /\ l.nodes[n] = g.nodes[n]
  <2>1. Len(g.nodes) \in Nat /\ Len(l.nodes) \in Nat
    BY <1>2, <1>3, SoundTables
  <2> QED BY <1>3, <2>1 DEF Grown
<1>6. Swaps(l, h, n, r, v)
  <2>1. Pure(l, n) /\ ~l.nodes[n].dead /\ r = l.nodes[n].result
    BY <1>1, <1>5 DEF Pure
  <2>2. AfterSwap(l, h, n, r, v) /\ GraphOK(h)
    BY <1>3, <1>5, <2>1, SwappedFields
  <2> QED BY <1>3, <1>5, <2>1, <2>2 DEF Swaps
<1>7. Sound(h) /\ Ranked(h)
  BY <1>4, <1>6, SwapSound, SwapRanks DEF Ranked
<1>8. h.values = l.values /\ Len(h.outputs) = Len(l.outputs)
  BY <1>6 DEF Swaps, AfterSwap
<1>9. NamesOnce(h)
  BY <1>3, <1>8 DEF NamesOnce
<1>10. ASSUME NEW x, NEW den, Denotes(g, x, den)
       PROVE  \E d : Denotes(h, x, d) /\ \A k \in 1 .. Len(g.outputs) : d[h.outputs[k]] = den[g.outputs[k]]
  <2>1. PICK d : Denotes(l, x, d) /\ \A w \in 1 .. Len(g.values) : d[w] = den[w]
    BY <1>10 DEF Justified, Extends
  <2>2. d[v] = d[r]
    BY <1>3, <2>1
  <2>3. Denotes(h, x, d) /\ \A k \in 1 .. Len(l.outputs) : d[h.outputs[k]] = d[l.outputs[k]]
    BY <1>6, <2>1, <2>2, SwapDenotes
  <2>4. \A k \in 1 .. Len(g.outputs) : g.outputs[k] \in 1 .. Len(g.values)
    BY <1>2 DEF GraphOK, OutputsOK
  <2> QED BY <1>3, <2>1, <2>3, <2>4, SMTT(30)
<1>11. LiveBelow(g) => LiveBelow(h)
  BY <1>3, <1>6, SwapLiveBelow
<1> QED BY <1>3, <1>7, <1>8, <1>9, <1>10, <1>11 DEF AnswersAs, WellMade

\* A node killed.
LEMMA KillAnswers ==
  ASSUME NEW g, WellMade(g), NEW h, NEW n, Kills(g, h, n)
  PROVE  AnswersAs(g, h)
<1>1. Sound(h) /\ h.outputs = g.outputs
  BY KillSound DEF Kills
<1>2. Ranked(h) /\ NamesOnce(h) /\ \A x, den : Denotes(g, x, den) => Denotes(h, x, den)
  BY KillKeepsTerms DEF WellMade, Ranked
<1> QED BY <1>1, <1>2 DEF AnswersAs, WellMade

\* The graph renumbered.
LEMMA RenumberAnswers ==
  ASSUME NEW g, WellMade(g), NEW h, h = RenumberTopological(g)
  PROVE  AnswersAs(g, h) /\ (LiveBelow(g) => LiveBelow(h))
<1>1. /\ Sound(h) /\ h.outputs = g.outputs
      /\ \A b, rank : Ranks(g, b, rank) => Ranks(h, b, rank)
      /\ \A x, den : Denotes(g, x, den) => Denotes(h, x, den)
      /\ NamesOnce(h) /\ (LiveBelow(g) => LiveBelow(h))
  BY RenumberSound DEF WellMade
<1>2. Ranked(h)
  BY <1>1 DEF WellMade, Ranked
<1> QED BY <1>1, <1>2 DEF AnswersAs, WellMade

-----------------------------------------------------------------------------
(***************************************************************************)
(* The frontend's graph.                                                   *)
(***************************************************************************)

\* No two leaves of the graph have the same name.
OneInputPerName ==
  \A j, k \in 1 .. Len(Leaves) :
    Leaves[j].kind = "placeholder" /\ Leaves[k].kind = "placeholder"
      /\ Leaves[j].payload = Leaves[k].payload => j = k

LeavesAre(d, g, k) ==
  /\ GraphOK(g) /\ Len(g.nodes) = 0 /\ g.outputs = <<>> /\ g.rep = <<>> /\ Len(g.values) = k
  /\ \A v \in 1 .. k : g.values[v].kind = Leaves[v].kind /\ g.values[v].payload = Leaves[v].payload

LeafTable == INSTANCE InductionRules WITH Step <- LeafStep, Inv <- LeavesAre, Def <- NoDef, P <- NoP

\* The leaves are the inputs and constants of a frontend, with residues as payloads.
LEMMA LeavesHold ==
  ASSUME NEW l, l = Len(Leaves)
  PROVE  /\ l \in Nat
         /\ \A k \in 1 .. l : Leaves[k].kind \in {"placeholder", "constant"} /\ Leaves[k].payload \in Residues
<1>1. PICK S : S = [kind : {"placeholder", "constant"}, payload : Residues]
  OBVIOUS
<1>2. Leaves \in Seq(S)
  BY <1>1, LeavesAssumption
<1>3. l \in Nat /\ \A k \in 1 .. l : Leaves[k] \in S
  BY <1>2
<1>4. \A x \in S : x.kind \in {"placeholder", "constant"} /\ x.payload \in Residues
  BY <1>1
<1> QED BY <1>3, <1>4

\* The graph of the leaves: each value is the leaf at its position.
LEMMA LeafGraphIs ==
  ASSUME NEW l, l = Len(Leaves)
  PROVE  LeavesAre(0, LeafGraph, l)
<1>1. LeafGraph = LeafTable!Folded(0, EmptyGraph, Leaves)
  BY DEF LeafGraph, FoldLeft, MapThenFoldSet, Max, LeafStep, LeafTable!Folded, LeafTable!FoldTable
<1>2. l \in Nat /\ \A k \in 1 .. l : Leaves[k].kind \in {"placeholder", "constant"}
  BY LeavesHold
<1>3. DOMAIN Leaves = 1 .. l
  <2>1. PICK S : Leaves \in Seq(S)
    BY LeavesAssumption
  <2> QED BY <2>1
<1>4. LeavesAre(0, EmptyGraph, 0)
  <2>1. Len(EmptyGraph.nodes) = 0 /\ EmptyGraph.outputs = <<>> /\ EmptyGraph.rep = <<>> /\ Len(EmptyGraph.values) = 0
    BY SMTT(30) DEF EmptyGraph
  <2> QED BY <2>1, EmptyGraphOK DEF LeavesAre
<1>5. ASSUME NEW k \in 1 .. l, NEW g, LeavesAre(0, g, k - 1)
      PROVE  LeavesAre(0, LeafStep(0, g, Leaves[k]), k)
  <2>1. PICK v, h : v = Value(Leaves[k].kind, Leaves[k].payload, 0) /\ h = AllocateValue(g, v)
    OBVIOUS
  <2>2. v = [kind |-> Leaves[k].kind, payload |-> Leaves[k].payload, producer |-> 0]
    BY <2>1 DEF Value
  <2>3. v.kind = Leaves[k].kind /\ v.payload = Leaves[k].payload /\ v.producer = 0
    BY <2>2
  <2>4. ValueForm(v) /\ v.kind # "result"
    BY <1>2, <2>2, <2>3 DEF ValueForm
  <2>5. /\ GraphOK(g) /\ Len(g.nodes) = 0 /\ g.outputs = <<>> /\ g.rep = <<>> /\ Len(g.values) = k - 1
        /\ \A w \in 1 .. k - 1 : g.values[w].kind = Leaves[w].kind /\ g.values[w].payload = Leaves[w].payload
    BY <1>5 DEF LeavesAre
  <2>6. GraphOK(h)
    BY <2>1, <2>4, <2>5, LeafAdded
  <2>7. TablesOK(g) /\ IsSequence(g.values)
    BY <2>5 DEF GraphOK, TablesOK
  <2>8. h = [values |-> Append(g.values, v), nodes |-> g.nodes, users |-> Append(g.users, <<>>),
             outputs |-> g.outputs, chain |-> g.chain, rep |-> g.rep]
    BY <2>1, <2>7, Allocated, ZenonT(40)
  <2>9. h.nodes = g.nodes /\ h.outputs = g.outputs /\ h.rep = g.rep /\ h.values = Append(g.values, v)
    BY <2>8
  <2>10. PICK s, t : s = g.values /\ t = h.values
    OBVIOUS
  <2>11. /\ Len(t) = (k - 1) + 1 /\ t[(k - 1) + 1] = v
         /\ \A w \in 1 .. k - 1 : t[w] = s[w]
    BY <2>5, <2>7, <2>9, <2>10, SequenceAppend
  <2>12. (k - 1) + 1 = k /\ \A w \in 1 .. k : w \in 1 .. k - 1 \/ w = k
    BY <1>2
  <2>13. \A w \in 1 .. k : t[w].kind = Leaves[w].kind /\ t[w].payload = Leaves[w].payload
    BY <2>3, <2>5, <2>10, <2>11, <2>12
  <2> QED BY <2>1, <2>5, <2>6, <2>9, <2>10, <2>11, <2>12, <2>13 DEF LeavesAre, LeafStep
<1>6. LeavesAre(0, LeafTable!Folded(0, EmptyGraph, Leaves), l)
  BY <1>2, <1>3, <1>4, <1>5, LeafTable!FoldLeftInduction
<1> QED BY <1>1, <1>6

\* Inputs are values.
LEMMA InputIsResidue ==
  ASSUME NEW g, NEW x \in TestInputs, NEW v
  PROVE  BoundInput(g, x, v) \in Residues
<1>1. 0 \in Residues
  BY ModulusAssumption DEF Residues
<1>2. x \in Seq(Residues)
  BY TestInputsAssumption
<1>3. \A k \in DOMAIN x : x[k] \in Residues
  <2> HIDE DEF Residues
  <2> QED BY <1>2
<1> QED BY <1>1, <1>3 DEF BoundInput

\* What the frontend begins with.
LEMMA LeavesMean ==
  ASSUME OneInputPerName, NEW g, g = LeafGraph
  PROVE  /\ WellMade(g) /\ LiveBelow(g) /\ Len(g.nodes) = 0 /\ DOMAIN g.rep = {} /\ Len(g.outputs) = 0
         /\ \A x \in TestInputs : \E den : Denotes(g, x, den)
<1>1. PICK l : l = Len(Leaves)
  OBVIOUS
<1>2. /\ GraphOK(g) /\ Len(g.nodes) = 0 /\ g.outputs = <<>> /\ g.rep = <<>> /\ Len(g.values) = l
      /\ \A v \in 1 .. l : g.values[v].kind = Leaves[v].kind /\ g.values[v].payload = Leaves[v].payload
  BY <1>1, LeafGraphIs DEF LeavesAre
<1>3. l \in Nat /\ \A v \in 1 .. l : g.values[v].kind \in {"placeholder", "constant"} /\ g.values[v].payload \in Residues
  BY <1>1, <1>2, LeavesHold
<1>4. \A v \in 1 .. l : ~IsResult(g, v)
  BY <1>3 DEF IsResult
<1>5. DOMAIN g.rep = {} /\ Len(g.outputs) = 0
  BY <1>2
<1>6. LinksOK(g)
  BY <1>2, <1>3, <1>4 DEF LinksOK
<1>7. RepOK(g) /\ LiveBelow(g)
  BY <1>2, <1>5 DEF RepOK, LiveBelow
<1>8. Ranked(g)
  <2>1. PICK rank : rank = [v \in 1 .. l |-> 0]
    OBVIOUS
  <2>2. Ranks(g, 0, rank)
    BY <1>2, <1>4, <2>1 DEF Ranks
  <2> QED BY <2>2 DEF Ranked
<1>9. NamesOnce(g)
  BY <1>1, <1>2 DEF OneInputPerName, NamesOnce, InputNames
<1>10. ASSUME NEW x \in TestInputs PROVE \E den : Denotes(g, x, den)
  <2>1. PICK den : den = [v \in 1 .. l |-> IF IsConstant(g, v) THEN g.values[v].payload ELSE BoundInput(g, x, v)]
    OBVIOUS
  <2>2. \A v \in 1 .. l : BoundInput(g, x, v) \in Residues
    BY InputIsResidue
  <2>3. den \in [1 .. l -> Residues]
    <3> HIDE DEF Residues
    <3> QED BY <1>3, <2>1, <2>2
  <2>4. Denotes(g, x, den)
    BY <1>2, <1>4, <2>1, <2>3 DEF Denotes, IsConstant
  <2> QED BY <2>4
<1> QED BY <1>2, <1>5, <1>6, <1>7, <1>8, <1>9, <1>10 DEF WellMade, Sound

\* The frontend's graph: nothing has died or been replaced.
Fresh(g) ==
  /\ WellMade(g) /\ LiveBelow(g) /\ DOMAIN g.rep = {}
  /\ \A n \in 1 .. Len(g.nodes) : ~g.nodes[n].dead

\* In a graph being built every value can be read.
LEMMA FreshAvailable ==
  ASSUME NEW g, Fresh(g), NEW v \in 1 .. Len(g.values)
  PROVE  Available(g, v)
<1>1. GraphOK(g) /\ \A n \in 1 .. Len(g.nodes) : ~g.nodes[n].dead
  BY DEF Fresh, WellMade, Sound
<1>2. IsResult(g, v) => g.values[v].producer \in 1 .. Len(g.nodes)
  BY <1>1, SoundTables
<1> QED BY <1>1, <1>2 DEF Available, ProducerOf

\* addNode by the frontend.
LEMMA NodeBuilt ==
  ASSUME NEW g, Fresh(g), NEW op \in Operations, NEW inputs \in Operands(g, op), MayAddNode(g, inputs),
         NEW h, h = AddNode(g, op, inputs, 0)
  PROVE  /\ Fresh(h) /\ h.outputs = g.outputs
         /\ \A x, den : Denotes(g, x, den) => \E d : Denotes(h, x, d)
<1>1. PICK m, c : m = Len(g.values) /\ c = Len(g.nodes)
  OBVIOUS
<1>2. Sound(g) /\ GraphOK(g) /\ NamesOnce(g) /\ LiveBelow(g) /\ DOMAIN g.rep = {}
      /\ \A n \in 1 .. c : ~g.nodes[n].dead
  BY <1>1 DEF Fresh, WellMade, Sound
<1>3. op \in Computed
  BY OperationsAssumption DEF Computed
<1>4. IsSequence(inputs) /\ Len(inputs) = IF Binary(op) THEN 2 ELSE 1
  BY OperandsForm
<1>5. DOMAIN inputs = 1 .. Len(inputs) /\ DOMAIN g.values = 1 .. m /\ m \in Nat /\ c \in Nat
  BY <1>1, <1>2, <1>4, SequenceOfItsItems, SoundTables
<1>6. \A k \in 1 .. Len(inputs) : inputs[k] \in 1 .. m
  BY <1>5 DEF MayAddNode
<1>7. MayRead(g, op, inputs)
  BY <1>1, <1>2, <1>4, <1>6 DEF MayRead
<1>8. WithNode(g, h, m, c, op, inputs)
  BY <1>1, <1>2, <1>3, <1>7, NodeSound
<1>9. /\ Sound(h) /\ Grown(g, h) /\ Len(h.values) = m + 1 /\ Len(h.nodes) = c + 1
      /\ h.outputs = g.outputs /\ h.rep = g.rep
      /\ IsResult(h, m + 1) /\ ~IsConstant(h, m + 1)
      /\ h.nodes[c + 1].dead = FALSE /\ h.nodes[c + 1].op = op /\ h.nodes[c + 1].inputs = inputs
      /\ ProducerOf(h, m + 1) = h.nodes[c + 1]
      /\ LiveBelow(g) /\ (\A k \in 1 .. Len(inputs) : Available(g, inputs[k])) => LiveBelow(h)
  BY <1>8 DEF WithNode
<1>10. LiveBelow(h)
  <2>1. \A k \in 1 .. Len(inputs) : Available(g, inputs[k])
    BY <1>1, <1>6, FreshAvailable
  <2> QED BY <1>2, <1>9, <2>1
<1>11. \A n \in 1 .. c + 1 : ~h.nodes[n].dead
  <2>1. \A n \in 1 .. c : h.nodes[n] = g.nodes[n]
    BY <1>1, <1>9 DEF Grown
  <2>2. \A n \in 1 .. c + 1 : n \in 1 .. c \/ n = c + 1
    BY <1>5
  <2> QED BY <1>2, <1>9, <2>1, <2>2
<1>12. Ranked(h)
  <2>1. PICK b, rank : b \in Nat /\ Ranks(g, b, rank)
    BY DEF Fresh, WellMade, Ranked
  <2>2. PICK t : t = b + 1
    OBVIOUS
  <2>3. t \in Nat /\ t \in 0 .. t /\ \A k \in 0 .. b : k \in 0 .. t /\ k < t
    BY <2>1, <2>2
  <2>4. rank \in [1 .. m -> 0 .. b]
    BY <1>1, <2>1 DEF Ranks
  <2>5. rank \in [1 .. m -> 0 .. t] /\ \A k \in 1 .. Len(inputs) : rank[inputs[k]] < t
    BY <1>6, <2>3, <2>4
  <2>6. Ranks(g, t, rank)
    BY <1>1, <2>1, <2>5 DEF Ranks
  <2>7. \A k \in 1 .. Len(ProducerOf(h, m + 1).inputs) :
          /\ ProducerOf(h, m + 1).inputs[k] \in 1 .. m
          /\ rank[ProducerOf(h, m + 1).inputs[k]] < t
    BY <1>6, <1>9, <2>5
  <2>8. Ranks(h, t, Extended(rank, m, t))
    BY <1>1, <1>2, <1>9, <2>3, <2>6, <2>7, RankExtended
  <2> QED BY <2>3, <2>8 DEF Ranked
<1>13. NamesOnce(h)
  <2>1. \A v \in 1 .. m + 1 : h.values[v].kind = "placeholder" => v \in 1 .. m
    BY <1>5, <1>9 DEF IsResult
  <2>2. \A v \in 1 .. m : h.values[v] = g.values[v]
    BY <1>1, <1>9 DEF Grown
  <2>3. NamesOnce(g) /\ Len(g.values) = m /\ Len(h.values) = m + 1
    BY <1>1, <1>2, <1>9
  <2>4. ASSUME NEW v \in 1 .. Len(h.values), h.values[v].kind = "placeholder"
        PROVE  v \in 1 .. Len(g.values) /\ h.values[v] = g.values[v] /\ g.values[v].kind = "placeholder"
    <3>1. v \in 1 .. m
      BY <2>1, <2>3, <2>4
    <3> QED BY <2>2, <2>3, <2>4, <3>1
  <2> QED BY <2>3, <2>4, ZenonT(40) DEF NamesOnce
<1>14. ASSUME NEW x, NEW den, Denotes(g, x, den) PROVE \E d : Denotes(h, x, d)
  <2>1. PICK y : y = NodeValue(ProducerOf(h, m + 1), den)
    OBVIOUS
  <2>2. PICK node : node = ProducerOf(h, m + 1)
    OBVIOUS
  <2>3. node.op = op /\ node.inputs = inputs
    BY <1>9, <2>2
  <2>4. Len(inputs) \in {1, 2}
    BY <1>4
  <2>5. y \in Residues
    <3>1. \A v \in 1 .. m : den[v] \in Residues
      BY <1>1, <1>14 DEF Denotes
    <3>2. 0 \in Residues
      BY ModulusAssumption DEF Residues
    <3>3. den[inputs[1]] \in Residues
      <4>1. 1 \in 1 .. Len(inputs)
        BY <2>4
      <4> QED BY <1>6, <3>1, <4>1
    <3>4. (IF Len(inputs) > 1 THEN den[inputs[2]] ELSE 0) \in Residues
      <4>1. Len(inputs) > 1 => 2 \in 1 .. Len(inputs)
        BY <2>4
      <4> QED BY <1>6, <3>1, <3>2, <4>1
    <3>5. y = EvalScalar(op, den[inputs[1]], IF Len(inputs) > 1 THEN den[inputs[2]] ELSE 0)
      BY <2>1, <2>2, <2>3 DEF NodeValue
    <3> QED BY <1>3, <3>3, <3>4, <3>5, ScalarIsResidue
  <2>6. Denotes(h, x, Extended(den, m, y))
    <3>1. /\ Len(ProducerOf(h, m + 1).inputs) \in {1, 2}
          /\ \A k \in 1 .. Len(ProducerOf(h, m + 1).inputs) : ProducerOf(h, m + 1).inputs[k] \in 1 .. m
      BY <1>6, <2>2, <2>3, <2>4
    <3>2. h.values[m + 1].kind \in {"constant", "result"}
      BY <1>9 DEF IsResult
    <3> QED BY <1>1, <1>2, <1>9, <1>14, <2>1, <2>5, <3>1, <3>2, DenotesExtended
  <2> QED BY <2>6
<1> QED BY <1>2, <1>9, <1>10, <1>11, <1>12, <1>13, <1>14 DEF Fresh, WellMade

\* addOutput by the frontend.
LEMMA OutputTables ==
  ASSUME NEW g, GraphForm(g), NEW v, NEW h, h = AddOutput(g, v)
  PROVE  h.values = g.values /\ h.nodes = g.nodes /\ h.rep = g.rep
<1> DEFINE outputs == IF v \in ToSet(g.outputs) THEN g.outputs ELSE Append(g.outputs, v)
<1>1. g = [values |-> g.values, nodes |-> g.nodes, users |-> g.users, outputs |-> g.outputs,
           chain |-> g.chain, rep |-> g.rep]
  BY DEF GraphForm
<1>2. h = [g EXCEPT !.outputs = outputs]
  BY DEF AddOutput
<1> HIDE DEF outputs
<1>3. h = [values |-> g.values, nodes |-> g.nodes, users |-> g.users, outputs |-> outputs,
           chain |-> g.chain, rep |-> g.rep]
  BY <1>1, <1>2
<1> QED BY <1>3

\* An output named by the frontend changes no value.
LEMMA OutputBuilt ==
  ASSUME NEW g, Fresh(g), NEW v \in 1 .. Len(g.values), NEW h, h = AddOutput(g, v)
  PROVE  Fresh(h) /\ \A x, den : Denotes(g, x, den) => Denotes(h, x, den)
<1>1. /\ Sound(g) /\ GraphOK(g) /\ LinksOK(g) /\ NamesOnce(g) /\ LiveBelow(g) /\ DOMAIN g.rep = {}
      /\ \A n \in 1 .. Len(g.nodes) : ~g.nodes[n].dead
      /\ Ranked(g) /\ GraphForm(g)
  BY DEF Fresh, WellMade, Sound, GraphOK, TablesOK
<1>2. GraphOK(h) /\ h.values = g.values /\ h.nodes = g.nodes /\ h.rep = g.rep
  BY <1>1, OutputAdded, OutputTables
<1>3. \A w : /\ IsResult(h, w) <=> IsResult(g, w)
             /\ IsConstant(h, w) <=> IsConstant(g, w)
             /\ ProducerOf(h, w) = ProducerOf(g, w)
             /\ Available(h, w) <=> Available(g, w)
             /\ \A x : BoundInput(h, x, w) = BoundInput(g, x, w)
  BY <1>2 DEF IsResult, IsConstant, ProducerOf, Available, BoundInput
<1>4. LinksOK(h)
  BY <1>1, <1>2, <1>3 DEF LinksOK
<1>5. RepOK(h)
  BY <1>1, <1>2 DEF RepOK
<1>6. LiveBelow(h)
  <2>1. ASSUME NEW k \in 1 .. Len(h.outputs) PROVE Available(h, h.outputs[k])
    <3>1. h.outputs[k] \in 1 .. Len(g.values)
      BY <1>2 DEF GraphOK, OutputsOK
    <3> QED BY <1>3, <3>1, FreshAvailable
  <2>2. \A n \in 1 .. Len(h.nodes) : ~h.nodes[n].dead =>
          \A k \in 1 .. Len(h.nodes[n].inputs) : Available(h, h.nodes[n].inputs[k])
    BY <1>1, <1>2, <1>3 DEF LiveBelow
  <2> QED BY <2>1, <2>2 DEF LiveBelow
<1>7. Ranked(h)
  <2>1. PICK b, rank : b \in Nat /\ Ranks(g, b, rank)
    BY <1>1 DEF Ranked
  <2>2. Ranks(h, b, rank)
    BY <1>2, <1>3, <2>1 DEF Ranks
  <2> QED BY <2>1, <2>2 DEF Ranked
<1>8. NamesOnce(h)
  BY <1>1, <1>2 DEF NamesOnce
<1>9. ASSUME NEW x, NEW den, Denotes(g, x, den) PROVE Denotes(h, x, den)
  BY <1>2, <1>3, <1>9 DEF Denotes
<1> QED BY <1>1, <1>2, <1>4, <1>5, <1>6, <1>7, <1>8, <1>9 DEF Fresh, WellMade, Sound

\* The edits of a sweep.
LEMMA EditAnswers ==
  ASSUME NEW sweep, sweep # "dce", NEW g, WellMade(g), NEW order, NEW k \in Nat \ {0},
         \A j \in 1 .. k : order[j] \in 1 .. Len(g.nodes), \A j \in 1 .. k - 1 : order[j] # order[k],
         NEW h \in Edits(sweep, g, order, k)
  PROVE  AnswersAs(g, h) /\ (LiveBelow(g) => LiveBelow(h))
<1>1. PICK n : n = order[k]
  OBVIOUS
<1>2. n \in 1 .. Len(g.nodes)
  <2>1. k \in 1 .. k
    OBVIOUS
  <2> QED BY <1>1, <2>1
<1>3. PICK r \in Rewrites(sweep, g, order, k) : h = ReplaceResult(r.graph, n, r.value)
  BY <1>1 DEF Edits
<1>4. ~g.nodes[n].dead /\ Pure(g, n)
  BY <1>1, <1>3 DEF Rewrites
<1>5. Justified(g, g.nodes[n].result, r.graph, r.value)
  BY <1>1, <1>3, RewritesJustified DEF WellMade
<1> QED BY <1>2, <1>3, <1>4, <1>5, ReplacementAnswers

\* math.dce kills only what is not reached.
LEMMA EliminationKills ==
  ASSUME NEW g, WellMade(g), NEW order, NEW k, order[k] \in 1 .. Len(g.nodes),
         NEW h \in Edits("dce", g, order, k)
  PROVE  Kills(g, h, order[k]) /\ g.nodes[order[k]].result \notin Reached(g)
<1>1. PICK n : n = order[k]
  OBVIOUS
<1>2. h = KillNode(g, n) /\ Unreached(g, n)
  BY <1>1 DEF Edits
<1>3. ~g.nodes[n].dead /\ Pure(g, n) /\ g.nodes[n].result \notin Reached(g)
  BY <1>2 DEF Unreached
<1> QED BY <1>1, <1>2, <1>3, KilledIs DEF WellMade

-----------------------------------------------------------------------------
(***************************************************************************)
(* The inductive invariant of the answer. Whatever the passes did, the     *)
(* outputs denote what the frontend's did; and as long as no dead-code     *)
(* elimination has been stopped, live nodes are over live nodes, except    *)
(* inside one: there only what is reached is, and the visited nodes that   *)
(* live are reached.                                                       *)
(***************************************************************************)

AnswerKept ==
  /\ wanted = [x \in TestInputs |-> wanted[x]]
  /\ \A x \in TestInputs : \E den :
       /\ Denotes(graph, x, den)
       /\ phase \in {"between", "pass", "stopped"} =>
            wanted[x] = [k \in 1 .. Len(graph.outputs) |-> den[graph.outputs[k]]]

BuildOK == phase = "build" => Fresh(graph) /\ interrupted = {}

VerifiedOK == phase = "between" => VerifyGraph(graph)

EliminationOK ==
  /\ Covered(graph)
  /\ \A n \in 1 .. Len(graph.nodes) : ~graph.nodes[n].dead => Holds(todo, n)
  /\ \A i \in 1 .. Len(todo) :
       (i < at /\ ~graph.nodes[todo[i]].dead /\ Pure(graph, todo[i])) =>
         graph.nodes[todo[i]].result \in Reached(graph)

LivesOK ==
  "dce" \notin interrupted =>
    IF phase = "pass" /\ pass = "dce" THEN EliminationOK ELSE LiveBelow(graph)

SweepOK == phase = "pass" => sub \in 1 .. Len(Sweeps(pass)) /\ Distinct(todo)

AnswerInv == WellMade(graph) /\ AnswerKept /\ BuildOK /\ VerifiedOK /\ LivesOK /\ SweepOK

\* The invariant holds of the graph of leaves.
LEMMA InitAnswerInv == OneInputPerName => (Init => AnswerInv)
<1> SUFFICES ASSUME OneInputPerName, Init PROVE AnswerInv
  OBVIOUS
<1>1. graph = LeafGraph /\ phase = "build" /\ interrupted = {} /\ wanted = [x \in TestInputs |-> <<>>]
  BY DEF Init
<1>2. /\ WellMade(graph) /\ LiveBelow(graph) /\ Len(graph.nodes) = 0 /\ DOMAIN graph.rep = {}
      /\ \A x \in TestInputs : \E den : Denotes(graph, x, den)
  BY <1>1, LeavesMean
<1>3. Fresh(graph)
  BY <1>2 DEF Fresh
<1>4. AnswerKept
  BY <1>1, <1>2 DEF AnswerKept
<1>5. BuildOK /\ VerifiedOK /\ LivesOK /\ SweepOK
  BY <1>1, <1>2, <1>3 DEF BuildOK, VerifiedOK, LivesOK, SweepOK
<1> QED BY <1>2, <1>4, <1>5 DEF AnswerInv

\* The answer passes from a graph to one that answers as it does.
LEMMA AnswerPassed ==
  ASSUME AnswerKept, AnswersAs(graph, graph'), wanted' = wanted, phase \in {"between", "pass", "stopped"}
  PROVE  AnswerKept'
<1>1. wanted' = [x \in TestInputs |-> wanted'[x]]
  BY DEF AnswerKept
<1>2. ASSUME NEW x \in TestInputs
      PROVE  \E d : /\ Denotes(graph', x, d)
                    /\ wanted'[x] = [k \in 1 .. Len(graph'.outputs) |-> d[graph'.outputs[k]]]
  <2>1. PICK den : /\ Denotes(graph, x, den)
                   /\ wanted[x] = [k \in 1 .. Len(graph.outputs) |-> den[graph.outputs[k]]]
    BY DEF AnswerKept
  <2>2. PICK d : /\ Denotes(graph', x, d)
                 /\ \A k \in 1 .. Len(graph.outputs) : d[graph'.outputs[k]] = den[graph.outputs[k]]
    BY <2>1 DEF AnswersAs
  <2>3. Len(graph'.outputs) = Len(graph.outputs)
    BY DEF AnswersAs
  <2> QED BY <2>1, <2>2, <2>3
<1> QED BY <1>1, <1>2 DEF AnswerKept

\* A pass that ends, its graph renumbered and verified.
LEMMA AnswerSettled ==
  ASSUME AnswerInv, phase = "pass", "dce" \notin interrupted => LiveBelow(graph),
         NEW b \in BOOLEAN, Settle(graph, b), UNCHANGED <<interrupted, wanted>>
  PROVE  AnswerInv'
<1>1. PICK h : h = IF b THEN RenumberTopological(graph) ELSE graph
  OBVIOUS
<1>2. graph' = h /\ phase' = IF VerifyGraph(h) THEN "between" ELSE "rejected"
  BY <1>1 DEF Settle
<1>3. AnswersAs(graph, h) /\ (LiveBelow(graph) => LiveBelow(h))
  BY <1>1, RenumberAnswers, AnswersItself DEF AnswerInv
<1>4. AnswerKept'
  BY <1>2, <1>3, AnswerPassed DEF AnswerInv
<1>5. BuildOK' /\ VerifiedOK' /\ SweepOK'
  BY <1>2 DEF BuildOK, VerifiedOK, SweepOK
<1>6. LivesOK'
  BY <1>2, <1>3 DEF LivesOK
<1>7. WellMade(graph')
  BY <1>2, <1>3 DEF AnswersAs
<1> QED BY <1>4, <1>5, <1>6, <1>7 DEF AnswerInv

\* A list of nodes for a sweep.
LEMMA SweepLists ==
  ASSUME IInv, NEW k, BeginSweep(k), graph' = graph
  PROVE  /\ Distinct(todo') /\ sub' = k /\ at' = 1
         /\ \A n \in 1 .. Len(graph'.nodes) : ~graph'.nodes[n].dead => Holds(todo', n)
<1>1. TablesOK(graph) /\ todo' = TopoOrder(graph) /\ sub' = k /\ at' = 1
  BY DEF IInv, GraphOK, BeginSweep
<1> QED BY <1>1, TopoOrderIs

\* The graph that the verifier has accepted evaluates to what it denotes.
LEMMA VerifiedMeans ==
  ASSUME NEW g, WellMade(g), VerifyGraph(g), Covered(g), NEW x, NEW den, Denotes(g, x, den)
  PROVE  InterpretGraph(g, x) = [k \in 1 .. Len(g.outputs) |-> den[g.outputs[k]]]
BY Evaluates DEF WellMade

\* A compilation starts from the graph that is there.
LEMMA CompileKeeps ==
  ASSUME AnswerInv, Compile
  PROVE  AnswerInv'
<1>1. /\ graph' = graph /\ interrupted' = interrupted /\ phase \in {"build", "stopped"}
      /\ phase' = IF VerifyGraph(graph) THEN "between" ELSE "rejected"
      /\ wanted' = IF phase = "build" THEN Meaning(graph) ELSE wanted
  BY DEF Compile
<1>2. WellMade(graph) /\ AnswerKept /\ LivesOK
  BY DEF AnswerInv
<1>3. AnswerKept'
  <2>1. CASE phase = "stopped"
    BY <1>1, <1>2, <2>1 DEF AnswerKept
  <2>2. CASE phase = "build"
    <3>1. wanted' = [x \in TestInputs |-> InterpretGraph(graph, x)]
      BY <1>1, <2>2 DEF Meaning
    <3>2. ASSUME NEW x \in TestInputs
          PROVE  \E den : /\ Denotes(graph, x, den)
                          /\ VerifyGraph(graph) =>
                               wanted'[x] = [k \in 1 .. Len(graph.outputs) |-> den[graph.outputs[k]]]
      <4>1. PICK den : Denotes(graph, x, den)
        BY <1>2 DEF AnswerKept
      <4>2. Covered(graph)
        BY <1>2, <2>2, LiveBelowCovers DEF AnswerInv, BuildOK, Fresh, WellMade
      <4>3. VerifyGraph(graph) => InterpretGraph(graph, x) = [k \in 1 .. Len(graph.outputs) |-> den[graph.outputs[k]]]
        BY <1>2, <4>1, <4>2, VerifiedMeans
      <4> QED BY <3>1, <4>1, <4>3
    <3>3. phase' \in {"between", "pass", "stopped"} => VerifyGraph(graph)
      BY <1>1
    <3>4. wanted' = [x \in TestInputs |-> wanted'[x]]
      BY <3>1
    <3> QED BY <1>1, <3>2, <3>3, <3>4 DEF AnswerKept
  <2> QED BY <1>1, <2>1, <2>2
<1>4. BuildOK' /\ VerifiedOK' /\ SweepOK'
  BY <1>1 DEF BuildOK, VerifiedOK, SweepOK
<1>5. LivesOK'
  BY <1>1, <1>2 DEF LivesOK
<1> QED BY <1>1, <1>2, <1>3, <1>4, <1>5 DEF AnswerInv

\* The positions that a sweep has passed over would not have been edited.
LEMMA PassedOver ==
  ASSUME IInv, pass # "cse", NEW k, PassesOver(k), k \in Int,
         NEW i \in 1 .. Len(todo), at <= i, i < k
  PROVE  Edits(Sweeps(pass)[sub], graph, todo, i) = {}
<1>1. at \in Int /\ Len(todo) \in Nat
  BY DEF IInv, TodoOK, ControlOK, IsSequence
<1>2. i \in at .. Len(todo) /\ ~(k <= i)
  BY <1>1
<1> QED BY <1>2 DEF EditPositions, PassesOver, Missed

\* math.dce has one sweep, and no other pass sweeps for dead code.
LEMMA SweepName ==
  ASSUME sub \in 1 .. Len(Sweeps(pass))
  PROVE  /\ pass = "dce" => Sweeps(pass)[sub] = "dce" /\ Len(Sweeps(pass)) = 1
         /\ pass # "dce" => Sweeps(pass)[sub] # "dce"
<1>1. CASE pass = "canonicalize"
  <2>1. Sweeps(pass) = <<"normalize_ops", "constant_fold", "identity_elim">>
    BY <1>1 DEF Sweeps
  <2>2. sub \in 1 .. 3
    BY <2>1
  <2>3. sub = 1 \/ sub = 2 \/ sub = 3
    BY <2>2
  <2> QED BY <1>1, <2>1, <2>3
<1>2. CASE pass # "canonicalize"
  <2>1. Sweeps(pass) = <<pass>>
    BY <1>2 DEF Sweeps
  <2>2. sub = 1 /\ Len(Sweeps(pass)) = 1 /\ Sweeps(pass)[1] = pass
    BY <2>1
  <2> QED BY <2>2
<1> QED BY <1>1, <1>2

\* One edit of a pass, at the position of its sweep.
LEMMA EditKeeps ==
  ASSUME IInv, AnswerInv, Edit
  PROVE  AnswerInv'
<1>1. /\ phase = "pass" /\ UNCHANGED <<phase, pass, sub, todo, interrupted, wanted>>
  BY DEF Edit
<1>2. PICK k \in EditPositions : /\ PassesOver(k)
                                 /\ graph' \in Edits(Sweeps(pass)[sub], graph, todo, k)
                                 /\ at' = k + 1
  BY DEF Edit
<1>3. /\ WellMade(graph) /\ AnswerKept /\ LivesOK /\ sub \in 1 .. Len(Sweeps(pass)) /\ Distinct(todo)
      /\ at \in Nat \ {0} /\ IsSequence(todo) /\ Len(todo) \in Nat
      /\ \A j \in 1 .. Len(todo) : todo[j] \in 1 .. Len(graph.nodes)
  BY <1>1 DEF IInv, TodoOK, ControlOK, IsSequence, AnswerInv, SweepOK
<1>4. k \in 1 .. Len(todo) /\ k \in Nat \ {0} /\ \A j \in 1 .. k : j \in 1 .. Len(todo)
  BY <1>2, <1>3 DEF EditPositions
<1>5. BuildOK' /\ VerifiedOK' /\ SweepOK'
  BY <1>1, <1>3 DEF BuildOK, VerifiedOK, SweepOK
<1>6. CASE pass # "dce"
  <2>1. Sweeps(pass)[sub] # "dce"
    BY <1>3, <1>6, SweepName
  <2>2. \A j \in 1 .. k : todo[j] \in 1 .. Len(graph.nodes)
    BY <1>3, <1>4
  <2>3. \A j \in 1 .. k - 1 : todo[j] # todo[k]
    <3>1. \A j \in 1 .. k - 1 : j \in 1 .. k /\ j # k
      BY <1>4
    <3> QED BY <1>3, <1>4, <3>1 DEF Distinct
  <2>4. AnswersAs(graph, graph') /\ (LiveBelow(graph) => LiveBelow(graph'))
    BY <1>2, <1>3, <1>4, <2>1, <2>2, <2>3, EditAnswers
  <2>5. AnswerKept' /\ WellMade(graph')
    BY <1>1, <1>3, <2>4, AnswerPassed DEF AnswersAs
  <2>6. LivesOK'
    BY <1>1, <1>3, <1>6, <2>4 DEF LivesOK
  <2> QED BY <1>5, <2>5, <2>6 DEF AnswerInv
<1>7. CASE pass = "dce"
  <2>1. Sweeps(pass)[sub] = "dce"
    BY <1>3, <1>7, SweepName
  <2>2. PICK n : n = todo[k]
    OBVIOUS
  <2>3. n \in 1 .. Len(graph.nodes)
    BY <1>3, <1>4, <2>2
  <2>4. Kills(graph, graph', n) /\ graph.nodes[n].result \notin Reached(graph)
    BY <1>2, <1>3, <2>1, <2>2, <2>3, EliminationKills
  <2>5. AnswersAs(graph, graph')
    BY <1>3, <2>4, KillAnswers
  <2>6. AnswerKept' /\ WellMade(graph')
    BY <1>1, <1>3, <2>5, AnswerPassed DEF AnswersAs
  <2>7. ASSUME "dce" \notin interrupted PROVE EliminationOK'
    <3>1. EliminationOK
      BY <1>1, <1>3, <1>7, <2>7 DEF LivesOK
    <3>2. Reached(graph') = Reached(graph) /\ Covered(graph')
      BY <2>4, <3>1, KillReached DEF EliminationOK
    <3>3. /\ Len(graph'.nodes) = Len(graph.nodes)
          /\ \A l \in 1 .. Len(graph.nodes) :
               /\ graph'.nodes[l].op = graph.nodes[l].op /\ graph'.nodes[l].result = graph.nodes[l].result
               /\ graph'.nodes[l].dead <=> (graph.nodes[l].dead \/ l = n)
      BY <2>4 DEF Kills
    <3>4. \A l \in 1 .. Len(graph'.nodes) : ~graph'.nodes[l].dead => Holds(todo', l)
      BY <1>1, <3>1, <3>3 DEF EliminationOK
    <3>5. ASSUME NEW i \in 1 .. Len(todo), i < k + 1, ~graph'.nodes[todo[i]].dead, Pure(graph', todo[i])
          PROVE  graph'.nodes[todo[i]].result \in Reached(graph')
      <4>1. PICK p : p = todo[i]
        OBVIOUS
      <4>2. p \in 1 .. Len(graph.nodes)
        BY <1>3, <4>1
      <4>3. ~graph.nodes[p].dead /\ p # n /\ Pure(graph, p) /\ graph'.nodes[p].result = graph.nodes[p].result
        BY <3>3, <3>5, <4>1, <4>2 DEF Pure
      <4>4. i # k
        BY <2>2, <4>1, <4>3
      <4>5. CASE i < at
        BY <3>1, <3>2, <4>1, <4>3, <4>5 DEF EliminationOK
      <4>6. CASE at <= i
        <5>1. i < k
          BY <1>3, <1>4, <3>5, <4>4
        <5>2. k \in Int
          BY <1>4
        <5>3. Edits("dce", graph, todo, i) = {}
          BY <1>2, <1>7, <2>1, <4>6, <5>1, <5>2, PassedOver
        <5>4. ~Unreached(graph, p)
          BY <4>1, <5>3 DEF Edits
        <5> QED BY <3>2, <4>1, <4>3, <5>4 DEF Unreached
      <4>7. i < at \/ at <= i
        BY <1>3
      <4> QED BY <4>5, <4>6, <4>7
    <3> QED BY <1>1, <1>2, <3>2, <3>4, <3>5 DEF EliminationOK
  <2>8. LivesOK'
    BY <1>1, <1>7, <2>7 DEF LivesOK
  <2> QED BY <1>5, <2>6, <2>8 DEF AnswerInv
<1> QED BY <1>6, <1>7

\* A sweep of dead-code elimination that finds nothing more to kill.
LEMMA EliminationEnds ==
  ASSUME IInv, AnswerInv, SweepDone, pass = "dce", "dce" \notin interrupted
  PROVE  LiveBelow(graph)
<1>1. phase = "pass" /\ EditPositions = {}
  BY DEF SweepDone, Missed
<1>2. /\ WellMade(graph) /\ EliminationOK /\ Sweeps(pass)[sub] = "dce"
      /\ at \in Nat \ {0} /\ Len(todo) \in Nat
  BY <1>1, SweepName DEF IInv, TodoOK, ControlOK, IsSequence, AnswerInv, SweepOK, LivesOK
<1>3. ASSUME NEW n \in 1 .. Len(graph.nodes), ~graph.nodes[n].dead, Pure(graph, n)
      PROVE  graph.nodes[n].result \in Reached(graph)
  <2>1. PICK i \in 1 .. Len(todo) : todo[i] = n
    BY <1>2, <1>3 DEF EliminationOK, Holds
  <2>2. CASE i < at
    BY <1>2, <1>3, <2>1, <2>2 DEF EliminationOK
  <2>3. CASE at <= i
    <3>1. i \in at .. Len(todo)
      BY <1>2, <2>3
    <3>2. Edits("dce", graph, todo, i) = {}
      BY <1>1, <1>2, <3>1 DEF EditPositions
    <3>3. ~Unreached(graph, n)
      BY <2>1, <3>2 DEF Edits
    <3> QED BY <1>3, <3>3 DEF Unreached
  <2>4. i < at \/ at <= i
    BY <1>2
  <2> QED BY <2>2, <2>3, <2>4
<1> QED BY <1>2, <1>3, CoveredLives DEF WellMade, EliminationOK

\* Every step keeps the invariant.
LEMMA NextAnswerInv == "extract" \notin Passes => (IInv /\ AnswerInv /\ [Next]_vars => AnswerInv')
<1> SUFFICES ASSUME "extract" \notin Passes, IInv, AnswerInv, [Next]_vars PROVE AnswerInv'
  OBVIOUS
<1>1. /\ WellMade(graph) /\ AnswerKept /\ BuildOK /\ LivesOK /\ SweepOK
      /\ GraphOK(graph) /\ ControlOK /\ DOMAIN graph.values = 1 .. Len(graph.values)
  <2>1. GraphOK(graph) /\ ControlOK
    BY DEF IInv
  <2> QED BY <2>1, TableDomains DEF AnswerInv, GraphOK
<1>2. ASSUME NEW op \in Operations, NEW inputs \in Operands(graph, op), BuildNode(op, inputs)
      PROVE  AnswerInv'
  <2>1. PICK h : h = AddNode(graph, op, inputs, 0)
    OBVIOUS
  <2>2. /\ phase = "build" /\ MayAddNode(graph, inputs) /\ graph' = h
        /\ UNCHANGED <<phase, interrupted, wanted>>
    BY <1>2, <2>1 DEF BuildNode
  <2>3. Fresh(graph) /\ interrupted = {}
    BY <1>1, <2>2 DEF BuildOK
  <2>4. Fresh(h) /\ \A x, den : Denotes(graph, x, den) => \E d : Denotes(h, x, d)
    BY <2>1, <2>2, <2>3, NodeBuilt
  <2>5. AnswerKept'
    BY <1>1, <2>2, <2>4 DEF AnswerKept
  <2>6. WellMade(graph') /\ BuildOK' /\ VerifiedOK' /\ LivesOK' /\ SweepOK'
    BY <2>2, <2>3, <2>4 DEF Fresh, BuildOK, VerifiedOK, LivesOK, SweepOK
  <2> QED BY <2>5, <2>6 DEF AnswerInv
<1>3. ASSUME NEW v \in DOMAIN graph.values, BuildOutput(v)
      PROVE  AnswerInv'
  <2>1. PICK h : h = AddOutput(graph, v)
    OBVIOUS
  <2>2. phase = "build" /\ graph' = h /\ UNCHANGED <<phase, interrupted, wanted>>
    BY <1>3, <2>1 DEF BuildOutput
  <2>3. Fresh(graph) /\ interrupted = {}
    BY <1>1, <2>2 DEF BuildOK
  <2>4. Fresh(h) /\ \A x, den : Denotes(graph, x, den) => Denotes(h, x, den)
    BY <1>1, <2>1, <2>3, OutputBuilt
  <2>5. AnswerKept'
    BY <1>1, <2>2, <2>4 DEF AnswerKept
  <2>6. WellMade(graph') /\ BuildOK' /\ VerifiedOK' /\ LivesOK' /\ SweepOK'
    BY <2>2, <2>3, <2>4 DEF Fresh, BuildOK, VerifiedOK, LivesOK, SweepOK
  <2> QED BY <2>5, <2>6 DEF AnswerInv
<1>4. CASE Compile
  BY <1>4, CompileKeeps
<1>5. ASSUME NEW p \in Passes, BeginPass(p)
      PROVE  AnswerInv'
  <2>1. /\ phase = "between" /\ phase' = "pass" /\ pass' = p /\ BeginSweep(1)
        /\ UNCHANGED <<graph, interrupted, wanted>>
    BY <1>5 DEF BeginPass
  <2>2. /\ Distinct(todo') /\ sub' = 1 /\ at' = 1
        /\ \A n \in 1 .. Len(graph'.nodes) : ~graph'.nodes[n].dead => Holds(todo', n)
    BY <2>1, SweepLists
  <2>3. 1 \in 1 .. Len(Sweeps(p))
    BY DEF Sweeps
  <2>4. BuildOK' /\ VerifiedOK' /\ SweepOK'
    BY <2>1, <2>2, <2>3 DEF BuildOK, VerifiedOK, SweepOK
  <2>5. AnswerKept'
    BY <1>1, <2>1 DEF AnswerKept
  <2>6. LivesOK'
    <3> SUFFICES ASSUME "dce" \notin interrupted'
                 PROVE  IF phase' = "pass" /\ pass' = "dce" THEN EliminationOK' ELSE LiveBelow(graph')
      BY DEF LivesOK
    <3>1. LiveBelow(graph)
      BY <1>1, <2>1 DEF LivesOK
    <3>2. Covered(graph)
      BY <1>1, <3>1, LiveBelowCovers DEF WellMade
    <3>3. \A i \in 1 .. Len(todo') : ~(i < at')
      BY <2>2
    <3>4. EliminationOK'
      BY <2>1, <2>2, <3>2, <3>3 DEF EliminationOK
    <3> QED BY <2>1, <3>1, <3>4
  <2> QED BY <1>1, <2>1, <2>4, <2>5, <2>6 DEF AnswerInv
<1>6. CASE Edit
  BY <1>6, EditKeeps
<1>7. ASSUME phase = "pass", pass # "dce", NEW k \in 1 .. Len(Sweeps(pass)), BeginSweep(k),
             UNCHANGED <<graph, phase, pass, interrupted, wanted>>
      PROVE  AnswerInv'
  <2>1. Distinct(todo') /\ sub' = k
    BY <1>7, SweepLists
  <2>2. AnswerKept'
    BY <1>1, <1>7 DEF AnswerKept
  <2>3. BuildOK' /\ VerifiedOK' /\ SweepOK'
    BY <1>7, <2>1 DEF BuildOK, VerifiedOK, SweepOK
  <2>4. LivesOK'
    BY <1>1, <1>7 DEF LivesOK
  <2> QED BY <1>1, <1>7, <2>2, <2>3, <2>4 DEF AnswerInv
<1>8. CASE NextSweep
  <2>1. /\ phase = "pass" /\ sub < Len(Sweeps(pass)) /\ BeginSweep(sub + 1)
        /\ UNCHANGED <<graph, phase, pass, interrupted, wanted>>
    BY <1>8 DEF NextSweep, SweepDone
  <2>2. sub \in 1 .. Len(Sweeps(pass)) /\ Len(Sweeps(pass)) \in Nat
    BY <1>1, <2>1 DEF SweepOK, Sweeps
  <2>3. pass # "dce" /\ sub + 1 \in 1 .. Len(Sweeps(pass))
    <3>1. PICK l : l = Len(Sweeps(pass))
      OBVIOUS
    <3>2. sub + 1 \in 1 .. l /\ l # 1
      BY <2>1, <2>2, <3>1
    <3>3. pass = "dce" => l = 1
      BY <2>2, <3>1, SweepName
    <3> QED BY <3>1, <3>2, <3>3
  <2> QED BY <1>7, <2>1, <2>3
<1>9. CASE NextRound
  <2>1. /\ phase = "pass" /\ pass = "canonicalize" /\ BeginSweep(1)
        /\ UNCHANGED <<graph, phase, pass, interrupted, wanted>>
    BY <1>9 DEF NextRound, SweepDone, Repeats
  <2>2. 1 \in 1 .. Len(Sweeps(pass))
    BY DEF Sweeps
  <2> QED BY <1>7, <2>1, <2>2
<1>10. CASE EndPass
  <2>1. /\ phase = "pass" /\ SweepDone /\ Settle(graph, changed) /\ changed \in BOOLEAN
        /\ UNCHANGED <<interrupted, wanted>>
    BY <1>1, <1>10 DEF EndPass, SweepDone, ControlOK
  <2>2. "dce" \notin interrupted => LiveBelow(graph)
    <3>1. CASE pass = "dce"
      BY <2>1, <3>1, EliminationEnds
    <3>2. CASE pass # "dce"
      BY <1>1, <3>2 DEF LivesOK
    <3> QED BY <3>1, <3>2
  <2> QED BY <2>1, <2>2, AnswerSettled
<1>11. CASE Annotate
  <2>1. /\ phase = "pass" /\ pass = "annotate" /\ Settle(graph, TRUE) /\ TRUE \in BOOLEAN
        /\ UNCHANGED <<interrupted, wanted>>
    BY <1>11 DEF Annotate
  <2>2. "dce" \notin interrupted => LiveBelow(graph)
    BY <1>1, <2>1 DEF LivesOK
  <2> QED BY <2>1, <2>2, AnswerSettled
<1>12. ASSUME NEW stale \in BOOLEAN, EgraphExtract(stale)
       PROVE  AnswerInv'
  <2>1. pass = "extract"
    BY <1>12 DEF EgraphExtract
  <2> QED BY <1>1, <2>1, SMTT(30) DEF ControlOK
<1>13. CASE StopPass
  <2>1. /\ phase = "pass" /\ phase' = "stopped" /\ interrupted' = interrupted \union {pass}
        /\ UNCHANGED <<graph, pass, wanted>>
    BY <1>13 DEF StopPass
  <2>2. AnswerKept'
    BY <1>1, <2>1 DEF AnswerKept
  <2>3. BuildOK' /\ VerifiedOK' /\ SweepOK'
    BY <2>1 DEF BuildOK, VerifiedOK, SweepOK
  <2>4. LivesOK'
    BY <1>1, <2>1 DEF LivesOK
  <2> QED BY <1>1, <2>1, <2>2, <2>3, <2>4 DEF AnswerInv
<1>14. CASE UNCHANGED vars
  <2>1. UNCHANGED <<graph, phase, pass, sub, todo, at, interrupted, wanted>>
    BY <1>14 DEF vars, locals
  <2>2. AnswerKept' /\ BuildOK' /\ VerifiedOK' /\ SweepOK'
    BY <2>1 DEF AnswerInv, AnswerKept, BuildOK, VerifiedOK, SweepOK
  <2>3. LivesOK'
    BY <1>1, <2>1 DEF LivesOK, EliminationOK
  <2> QED BY <1>1, <2>1, <2>2, <2>3 DEF AnswerInv
<1>15. CASE Finished
  BY <1>14, <1>15 DEF Finished
<1> QED
  BY <1>2, <1>3, <1>4, <1>5, <1>6, <1>8, <1>9, <1>10, <1>11, <1>12, <1>13, <1>14, <1>15 DEF Next

\* What the invariant says of the answer.
LEMMA AnswerMeaning == AnswerInv => MeaningPreserved
<1> SUFFICES ASSUME AnswerInv, phase = "between"
             PROVE  Meaning(graph) = wanted \/ ("dce" \in interrupted /\ ReadsDeadNode(graph))
  BY DEF MeaningPreserved
<1>1. WellMade(graph) /\ VerifyGraph(graph) /\ AnswerKept /\ ("dce" \notin interrupted => LiveBelow(graph))
  BY DEF AnswerInv, VerifiedOK, LivesOK
<1>2. CASE Covered(graph)
  <2>1. ASSUME NEW x \in TestInputs PROVE InterpretGraph(graph, x) = wanted[x]
    <3>1. PICK den : /\ Denotes(graph, x, den)
                     /\ wanted[x] = [k \in 1 .. Len(graph.outputs) |-> den[graph.outputs[k]]]
      BY <1>1 DEF AnswerKept
    <3> QED BY <1>1, <1>2, <3>1, VerifiedMeans
  <2>2. wanted = [x \in TestInputs |-> wanted[x]]
    BY <1>1 DEF AnswerKept
  <2>3. Meaning(graph) = wanted
    BY <2>1, <2>2 DEF Meaning
  <2> QED BY <2>3
<1>3. CASE ~Covered(graph)
  <2>1. ReadsDeadNode(graph)
    BY <1>3, CoveredReadsNothingDead
  <2>2. "dce" \in interrupted
    BY <1>1, <1>3, LiveBelowCovers DEF WellMade
  <2> QED BY <2>1, <2>2
<1> QED BY <1>2, <1>3

\* However compilations rewrite, stop and start again.
THEOREM AnswerInvariant ==
  ASSUME "extract" \notin Passes, OneInputPerName
  PROVE  Spec => []AnswerInv
<1>1. IInv /\ AnswerInv /\ [Next]_vars => AnswerInv'
  BY NextAnswerInv
<1>2. Init => AnswerInv
  BY InitAnswerInv
<1>3. Spec => []IInv
  BY RewritingInvariant
<1> QED BY <1>1, <1>2, <1>3, PTL DEF Spec

\* Between passes the graph answers for every input as the frontend's graph
\* did: each pass edits the host's graph in place (replaceResult, killNode,
\* eliminateDead), the runner renumbers and verifies it after every pass that
\* changed it, a pass may be stopped between two edits, and a compilation that
\* failed is followed by another. The one way out is a value that reads a dead
\* node after a stopped math.dce.
THEOREM RewritingPreservesMeaning ==
  ASSUME "extract" \notin Passes, OneInputPerName
  PROVE  Spec => []MeaningPreserved
<1>1. Spec => []AnswerInv
  BY AnswerInvariant
<1> QED BY <1>1, AnswerMeaning, PTL

-----------------------------------------------------------------------------
(***************************************************************************)
(* renumberTopological: the traversal places every live node behind what   *)
(* it reads, if live nodes are over live nodes and none is its own         *)
(* operand's operand.                                                      *)
(***************************************************************************)

\* The places among the first j at which x stands.
PlacesUpTo(s, x, j) == {i \in 1 .. j : s[i] = x}

\* One place further.
LEMMA PlacesGrow ==
  ASSUME NEW s, NEW x, NEW j \in Nat \ {0}
  PROVE  /\ Cardinality(PlacesUpTo(s, x, j)) \in Nat /\ Cardinality(PlacesUpTo(s, x, j - 1)) \in Nat
         /\ s[j] = x => Cardinality(PlacesUpTo(s, x, j)) = Cardinality(PlacesUpTo(s, x, j - 1)) + 1
         /\ s[j] # x => Cardinality(PlacesUpTo(s, x, j)) = Cardinality(PlacesUpTo(s, x, j - 1))
<1>1. PICK a, b : a = PlacesUpTo(s, x, j - 1) /\ b = PlacesUpTo(s, x, j)
  OBVIOUS
<1>2. a \subseteq 1 .. j - 1 /\ b \subseteq 1 .. j /\ j \notin a
  BY <1>1 DEF PlacesUpTo
<1>3. IsFiniteSet(1 .. j - 1) /\ IsFiniteSet(1 .. j)
  BY RangeCounts
<1>4. IsFiniteSet(a) /\ IsFiniteSet(b)
  BY <1>2, <1>3, FS_Subset
<1>5. s[j] = x => b = a \union {j}
  BY <1>1 DEF PlacesUpTo
<1>6. s[j] # x => b = a
  BY <1>1 DEF PlacesUpTo
<1>7. Cardinality(a \union {j}) = Cardinality(a) + 1
  BY <1>2, <1>4, FS_AddElement
<1> QED BY <1>1, <1>4, <1>5, <1>6, <1>7, FS_CardinalityType

\* Some of the places are no more than all.
LEMMA PlacesUpToBound ==
  ASSUME NEW s, IsSequence(s), NEW x, NEW j \in 0 .. Len(s)
  PROVE  Cardinality(PlacesUpTo(s, x, j)) <= Cardinality(Places(s, x))
<1>1. PICK n : n = Len(s)
  OBVIOUS
<1>2. DOMAIN s = 1 .. n /\ n \in Nat
  BY <1>1, SequenceOfItsItems DEF IsSequence
<1>3. PlacesUpTo(s, x, j) \subseteq Places(s, x)
  BY <1>1, <1>2 DEF PlacesUpTo, Places
<1> QED BY <1>3, PlacesCounted, FS_Subset

\* The users of a value released: d has the graph, the state before and the list.
\* Every live node has waited for as many operands as it stands in the list.
Counted(d, a, j) ==
  /\ TraversalOK(d.g, a)
  /\ Len(d.s.ready) <= Len(a.ready)
  /\ \A i \in 1 .. Len(d.s.ready) : a.ready[i] = d.s.ready[i]
  /\ \A n \in 1 .. Len(d.g.nodes) : ~d.g.nodes[n].dead =>
       a.pending[n] = d.s.pending[n] - Cardinality(PlacesUpTo(d.users, n, j))

CountFold == INSTANCE InductionRules WITH Step <- Release, Inv <- Counted, Def <- NoDef, P <- NoP

\* What the release of one user changes.
LEMMA ReleaseChanges ==
  ASSUME NEW g, NEW s, TraversalOK(g, s), NEW user \in 1 .. Len(g.nodes), NEW t, t = Release(g, s, user)
  PROVE  /\ Len(s.ready) <= Len(t.ready)
         /\ \A i \in 1 .. Len(s.ready) : t.ready[i] = s.ready[i]
         /\ \A n \in 1 .. Len(g.nodes) : n # user => t.pending[n] = s.pending[n]
         /\ ~g.nodes[user].dead /\ s.pending[user] # 0 => t.pending[user] = s.pending[user] - 1
<1>1. PICK c, l : c = Len(g.nodes) /\ l = Len(s.ready)
  OBVIOUS
<1>2. /\ s.pending = [n \in 1 .. c |-> s.pending[n]] /\ IsSequence(s.ready) /\ l \in Nat
  BY <1>1 DEF TraversalOK, IsSequence
<1>3. CASE g.nodes[user].dead \/ s.pending[user] = 0
  <2>1. t = s
    BY <1>3 DEF Release
  <2> QED BY <1>1, <1>2, <1>3, <2>1
<1>4. CASE ~g.nodes[user].dead /\ s.pending[user] # 0
  <2>1. t = [ready |-> IF s.pending[user] = 1 THEN Append(s.ready, user) ELSE s.ready,
             pending |-> [s.pending EXCEPT ![user] = s.pending[user] - 1]]
    BY <1>4 DEF Release
  <2>2. /\ t.ready = Append(s.ready, user) \/ t.ready = s.ready
        /\ t.pending = [s.pending EXCEPT ![user] = s.pending[user] - 1]
    BY <2>1
  <2>3. /\ t.pending[user] = s.pending[user] - 1
        /\ \A n \in 1 .. c : n # user => t.pending[n] = s.pending[n]
    BY <1>1, <1>2, <2>2
  <2>4. Len(t.ready) >= l /\ \A i \in 1 .. l : t.ready[i] = s.ready[i]
    <3>1. PICK a, b : a = s.ready /\ b = t.ready
      OBVIOUS
    <3>2. CASE b = a
      BY <1>1, <1>2, <3>1, <3>2
    <3>3. CASE b = Append(a, user)
      <4>1. Len(b) = l + 1 /\ \A i \in 1 .. l : b[i] = a[i]
        BY <1>1, <1>2, <3>1, <3>3, SequenceAppend
      <4> QED BY <1>2, <3>1, <4>1
    <3> QED BY <2>2, <3>1, <3>2, <3>3
  <2> QED BY <1>1, <1>2, <2>3, <2>4
<1> QED BY <1>3, <1>4

\* One more user released.
LEMMA CountedStep ==
  ASSUME NEW d, NEW a, NEW j \in 1 .. Len(d.users), Counted(d, a, j - 1),
         IsSequence(d.users), d.users[j] \in 1 .. Len(d.g.nodes), TraversalOK(d.g, d.s),
         \A n \in 1 .. Len(d.g.nodes) : ~d.g.nodes[n].dead =>
           Cardinality(Places(d.users, n)) <= d.s.pending[n],
         NEW b, b = Release(d.g, a, d.users[j])
  PROVE  Counted(d, b, j)
<1>1. PICK g, s, users, c : g = d.g /\ s = d.s /\ users = d.users /\ c = Len(g.nodes)
  OBVIOUS
<1>2. /\ TraversalOK(g, a) /\ Len(s.ready) <= Len(a.ready)
      /\ \A i \in 1 .. Len(s.ready) : a.ready[i] = s.ready[i]
      /\ \A n \in 1 .. c : ~g.nodes[n].dead =>
           a.pending[n] = s.pending[n] - Cardinality(PlacesUpTo(users, n, j - 1))
  BY <1>1 DEF Counted
<1>3. TraversalOK(g, b)
  BY <1>1, <1>2, Released
<1>4. PICK user : user = users[j]
  OBVIOUS
<1>5. /\ Len(a.ready) <= Len(b.ready) /\ \A i \in 1 .. Len(a.ready) : b.ready[i] = a.ready[i]
      /\ \A n \in 1 .. c : n # user => b.pending[n] = a.pending[n]
      /\ ~g.nodes[user].dead /\ a.pending[user] # 0 => b.pending[user] = a.pending[user] - 1
  BY <1>1, <1>2, <1>4, ReleaseChanges, SMTT(30)
<1>6. Len(s.ready) \in Nat /\ Len(a.ready) \in Nat /\ Len(b.ready) \in Nat
  BY <1>1, <1>2, <1>3 DEF TraversalOK, IsSequence
<1>7. Len(s.ready) <= Len(b.ready) /\ \A i \in 1 .. Len(s.ready) : b.ready[i] = s.ready[i]
  BY <1>2, <1>5, <1>6, SMTT(30)
<1>8. j \in Nat \ {0} /\ j - 1 \in 0 .. Len(users) /\ j \in 0 .. Len(users) /\ IsSequence(users)
  BY <1>1 DEF IsSequence
<1>9. ASSUME NEW n \in 1 .. c, ~g.nodes[n].dead
      PROVE  b.pending[n] = s.pending[n] - Cardinality(PlacesUpTo(users, n, j))
  <2>1. PICK p, q, w : /\ p = Cardinality(PlacesUpTo(users, n, j - 1))
                       /\ q = Cardinality(PlacesUpTo(users, n, j)) /\ w = s.pending[n]
    OBVIOUS
  <2>2. /\ p \in Nat /\ q \in Nat /\ (user = n => q = p + 1) /\ (user # n => q = p)
    BY <1>4, <1>8, <2>1, PlacesGrow, SMTT(30)
  <2>3. w \in Nat /\ a.pending[n] = w - p
    BY <1>1, <1>2, <1>9, <2>1 DEF TraversalOK
  <2>4. CASE user # n
    BY <1>5, <1>9, <2>1, <2>2, <2>3, <2>4
  <2>5. CASE user = n
    <3>1. q <= w
      <4>1. q <= Cardinality(Places(users, n))
        BY <1>8, <2>1, PlacesUpToBound
      <4>2. Cardinality(Places(users, n)) <= w /\ Cardinality(Places(users, n)) \in Nat
        BY <1>1, <1>8, <1>9, <2>1, PlacesCounted
      <4> QED BY <2>2, <2>3, <4>1, <4>2
    <3>2. a.pending[n] # 0
      BY <2>2, <2>3, <2>5, <3>1
    <3>3. b.pending[n] = a.pending[n] - 1
      BY <1>5, <1>9, <2>5, <3>2
    <3>4. b.pending[n] = (w - p) - 1
      BY <2>3, <3>3
    <3>5. (w - p) - 1 = w - q
      BY <2>2, <2>3, <2>5
    <3> QED BY <2>1, <3>4, <3>5
  <2> QED BY <2>4, <2>5
<1> QED BY <1>1, <1>3, <1>7, <1>9 DEF Counted

\* No live node stands in the list more often than it waits.
NoneOverReleased(g, s, users) ==
  \A n \in 1 .. Len(g.nodes) : ~g.nodes[n].dead => Cardinality(Places(users, n)) <= s.pending[n]

\* What releasing a list of users leaves: the ready nodes stay first, and
\* every live node waits for as many operands less as it stands in the list.
UsersReduced(g, s, users, t) ==
  /\ Len(s.ready) <= Len(t.ready)
  /\ \A i \in 1 .. Len(s.ready) : t.ready[i] = s.ready[i]
  /\ \A n \in 1 .. Len(g.nodes) : ~g.nodes[n].dead =>
       t.pending[n] = s.pending[n] - Cardinality(Places(users, n))

\* All users of a value released: every live node waits for as many operands
\* less as it stands in the list.
LEMMA UsersCounted ==
  ASSUME NEW g, NEW s, TraversalOK(g, s), NEW users, IsSequence(users),
         \A k \in 1 .. Len(users) : users[k] \in 1 .. Len(g.nodes),
         NoneOverReleased(g, s, users), NEW t, t = ReleasedAll(g, s, users)
  PROVE  UsersReduced(g, s, users, t)
<1>1. PICK d, m : d = [g |-> g, s |-> s, users |-> users] /\ m = Len(users)
  OBVIOUS
<1>2. d.g = g /\ d.s = s /\ d.users = users
  BY <1>1
<1>3. m \in Nat /\ DOMAIN users = 1 .. m
  BY <1>1, SequenceOfItsItems DEF IsSequence
<1>4. t = CountFold!Folded(g, s, users)
  BY DEF ReleasedAll, FoldLeft, MapThenFoldSet, Max, CountFold!Folded, CountFold!FoldTable
<1>5. Counted(d, s, 0)
  <2>1. \A n : PlacesUpTo(users, n, 0) = {}
    BY DEF PlacesUpTo
  <2>2. \A n \in 1 .. Len(g.nodes) : s.pending[n] = s.pending[n] - Cardinality(PlacesUpTo(users, n, 0))
    <3>1. \A n \in 1 .. Len(g.nodes) : s.pending[n] \in Nat
      BY DEF TraversalOK
    <3>2. \A n : Cardinality(PlacesUpTo(users, n, 0)) = 0
      BY <2>1, FS_EmptySet
    <3> QED BY <3>1, <3>2
  <2>3. Len(s.ready) \in Nat
    BY DEF TraversalOK, IsSequence
  <2> QED BY <1>2, <2>2, <2>3 DEF Counted
<1>6. ASSUME NEW k \in 1 .. m, NEW a, Counted(d, a, k - 1)
      PROVE  Counted(d, Release(g, a, users[k]), k)
  <2>1. k \in 1 .. Len(d.users) /\ IsSequence(d.users) /\ d.users[k] \in 1 .. Len(d.g.nodes) /\ TraversalOK(d.g, d.s)
    BY <1>1, <1>2
  <2>2. \A n \in 1 .. Len(d.g.nodes) : ~d.g.nodes[n].dead => Cardinality(Places(d.users, n)) <= d.s.pending[n]
    BY <1>2 DEF NoneOverReleased
  <2>3. Counted(d, Release(d.g, a, d.users[k]), k)
    BY <1>6, <2>1, <2>2, CountedStep
  <2> QED BY <1>2, <2>3
<1>7. Counted(d, t, m)
  BY <1>3, <1>4, <1>5, <1>6, CountFold!FoldLeftInduction
<1>8. \A n : PlacesUpTo(users, n, m) = Places(users, n)
  BY <1>3 DEF PlacesUpTo, Places
<1> QED BY <1>2, <1>7, <1>8 DEF Counted, UsersReduced

\* The operands of n that a live node outside S produces.
ProducerAt(g, n, i) == g.values[g.nodes[n].inputs[i]].producer

Waiting(g, n, S) ==
  {i \in 1 .. Len(g.nodes[n].inputs) : LiveProducer(g, g.nodes[n].inputs[i]) /\ ProducerAt(g, n, i) \notin S}

\* A live node waits for finitely many operands, and for all of PendingDeps at first.
LEMMA WaitingCounted ==
  ASSUME NEW g, GraphOK(g), NEW n \in 1 .. Len(g.nodes), NEW S
  PROVE  /\ IsFiniteSet(Waiting(g, n, S)) /\ Cardinality(Waiting(g, n, S)) \in Nat
         /\ Cardinality(Waiting(g, n, S)) = 0 => Waiting(g, n, S) = {}
         /\ S = {} /\ ~g.nodes[n].dead => PendingDeps(g, n) = Cardinality(Waiting(g, n, S))
<1>1. PICK s, l : s = g.nodes[n].inputs /\ l = Len(s)
  OBVIOUS
<1>2. IsSequence(s)
  BY <1>1 DEF GraphOK, NodesOK, NodeOver
<1>3. l \in Nat /\ DOMAIN s = 1 .. l
  BY <1>1, <1>2, SequenceOfItsItems DEF IsSequence
<1>4. Waiting(g, n, S) \subseteq 1 .. l
  BY <1>1 DEF Waiting
<1>5. IsFiniteSet(Waiting(g, n, S))
  <2>1. IsFiniteSet(1 .. l)
    BY <1>3, RangeCounts
  <2> QED BY <1>4, <2>1, FS_Subset
<1>6. ASSUME S = {}, ~g.nodes[n].dead PROVE PendingDeps(g, n) = Cardinality(Waiting(g, n, S))
  <2>1. {k \in DOMAIN s : LiveProducer(g, s[k])} = Waiting(g, n, S)
    BY <1>1, <1>3, <1>6 DEF Waiting
  <2> QED BY <1>1, <1>6, <2>1 DEF PendingDeps
<1> QED BY <1>5, <1>6, FS_CardinalityType, FS_EmptySet

\* A live node p joins the done nodes S, which become T.
Joins(g, p, S, T) == p \in 1 .. Len(g.nodes) /\ ~g.nodes[p].dead /\ p \notin S /\ T = S \union {p}

WaitsLess(g, n, r, S, T) ==
  /\ Cardinality(Uses(g.nodes[n], r)) <= Cardinality(Waiting(g, n, S))
  /\ Cardinality(Waiting(g, n, T)) = Cardinality(Waiting(g, n, S)) - Cardinality(Uses(g.nodes[n], r))

\* When a live node is done, its result is waited for no more.
LEMMA WaitingLess ==
  ASSUME NEW g, GraphOK(g), LinksOK(g), NEW n \in 1 .. Len(g.nodes),
         NEW p, NEW S, NEW T, Joins(g, p, S, T), NEW r, r = g.nodes[p].result
  PROVE  WaitsLess(g, n, r, S, T)
<1> USE DEF Joins
<1>1. PICK s, l : s = g.nodes[n].inputs /\ l = Len(s)
  OBVIOUS
<1>2. IsSequence(s) /\ \A i \in 1 .. l : s[i] \in 1 .. Len(g.values)
  BY <1>1 DEF GraphOK, NodesOK, NodeOver
<1>3. l \in Nat /\ DOMAIN s = 1 .. l
  BY <1>1, <1>2, SequenceOfItsItems DEF IsSequence
<1>4. IsResult(g, r) /\ g.values[r].producer = p
  BY DEF LinksOK
<1>5. ASSUME NEW i \in 1 .. l, LiveProducer(g, s[i])
      PROVE  g.values[s[i]].producer = p <=> s[i] = r
  <2>1. IsResult(g, s[i])
    BY <1>5 DEF LiveProducer, IsResult
  <2>2. g.nodes[g.values[s[i]].producer].result = s[i]
    BY <1>2, <2>1 DEF LinksOK, ProducerOf
  <2> QED BY <1>4, <2>2
<1>6. LiveProducer(g, r)
  BY <1>4 DEF LiveProducer, IsResult
<1>7. PICK U, W : U = Uses(g.nodes[n], r) /\ W = Waiting(g, n, S)
  OBVIOUS
<1>8. \A i : i \in U <=> i \in 1 .. l /\ s[i] = r
  BY <1>1, <1>3, <1>7 DEF Uses
<1>9. \A i : i \in W <=> i \in 1 .. l /\ LiveProducer(g, s[i]) /\ g.values[s[i]].producer \notin S
  BY <1>1, <1>7 DEF Waiting, ProducerAt
<1>10. U \subseteq W
  BY <1>4, <1>6, <1>8, <1>9
<1>11. Waiting(g, n, T) = W \ U
  <2>1. ASSUME NEW i PROVE i \in Waiting(g, n, T) <=> i \in W /\ i \notin U
    <3>1. i \in Waiting(g, n, T) <=> i \in W /\ g.values[s[i]].producer # p
      BY <1>1, <1>9 DEF Waiting, ProducerAt
    <3>2. i \in W => (g.values[s[i]].producer = p <=> s[i] = r)
      BY <1>5, <1>9
    <3> QED BY <1>8, <1>9, <3>1, <3>2
  <2> QED BY <2>1
<1>12. IsFiniteSet(W)
  BY <1>7, WaitingCounted
<1>13. Cardinality(W \ U) = Cardinality(W) - Cardinality(W \intersect U) /\ W \intersect U = U
  BY <1>10, <1>12, FS_Difference
<1>14. Cardinality(U) <= Cardinality(W)
  BY <1>10, <1>12, FS_Subset
<1> QED BY <1>7, <1>11, <1>13, <1>14 DEF WaitsLess

\* The first k of the ready nodes are done.
Done(s, k) == {s.ready[j] : j \in {i \in 1 .. Len(s.ready) : i <= k}}

\* The pending counts are of the operands whose producers are not done, and
\* every ready node stands behind the live producers of its operands.
PendingExact(g, s, k) ==
  \A n \in 1 .. Len(g.nodes) : ~g.nodes[n].dead => s.pending[n] = Cardinality(Waiting(g, n, Done(s, k)))

Advanced(g, s, k) ==
  /\ TraversalOK(g, s)
  /\ PendingExact(g, s, k)
  /\ \A p \in 1 .. Len(s.ready) : \A i \in 1 .. Len(g.nodes[s.ready[p]].inputs) :
       LiveProducer(g, g.nodes[s.ready[p]].inputs[i]) =>
         \E q \in 1 .. Len(s.ready) : q < p /\ s.ready[q] = ProducerAt(g, s.ready[p], i)

\* Every ready node stands behind the producers of its operands, which are done.
ReadyBehind(g, s, k) ==
  \A p \in 1 .. Len(s.ready) : \A i \in 1 .. Len(g.nodes[s.ready[p]].inputs) :
    LiveProducer(g, g.nodes[s.ready[p]].inputs[i]) =>
      \E q \in 1 .. Len(s.ready) : q <= k /\ s.ready[q] = ProducerAt(g, s.ready[p], i)

\* A ready node waits for nothing.
LEMMA ReadyWaitsForNothing ==
  ASSUME NEW g, GraphOK(g), NEW s, TraversalOK(g, s), NEW k, PendingExact(g, s, k)
  PROVE  ReadyBehind(g, s, k)
<1> SUFFICES ASSUME NEW p \in 1 .. Len(s.ready), NEW i \in 1 .. Len(g.nodes[s.ready[p]].inputs),
                    LiveProducer(g, g.nodes[s.ready[p]].inputs[i])
             PROVE  \E q \in 1 .. Len(s.ready) : q <= k /\ s.ready[q] = ProducerAt(g, s.ready[p], i)
  BY DEF ReadyBehind
<1>1. PICK n : n = s.ready[p]
  OBVIOUS
<1>2. n \in 1 .. Len(g.nodes) /\ ~g.nodes[n].dead /\ s.pending[n] = 0
  BY <1>1 DEF TraversalOK, Holds
<1>3. Cardinality(Waiting(g, n, Done(s, k))) = 0
  BY <1>2 DEF PendingExact
<1>4. Waiting(g, n, Done(s, k)) = {}
  BY <1>2, <1>3, WaitingCounted
<1>5. ProducerAt(g, n, i) \in Done(s, k)
  BY <1>1, <1>4 DEF Waiting
<1> QED BY <1>1, <1>5 DEF Done

\* At the start nothing is done.
LEMMA AdvancedStart ==
  ASSUME NEW g, GraphOK(g), NEW s, s = KahnStart(g)
  PROVE  Advanced(g, s, 0)
<1>1. TraversalOK(g, s) /\ Len(s.ready) \in Nat
  BY StartIs DEF TraversalOK, IsSequence
<1>2. Done(s, 0) = {}
  BY <1>1 DEF Done
<1>3. ASSUME NEW n \in 1 .. Len(g.nodes), ~g.nodes[n].dead
      PROVE  s.pending[n] = Cardinality(Waiting(g, n, Done(s, 0)))
  <2>1. TablesOK(g)
    BY DEF GraphOK
  <2>2. n \in DOMAIN g.nodes
    BY <2>1, TableDomains
  <2>3. s.pending[n] = PendingDeps(g, n)
    BY <2>2 DEF KahnStart
  <2> QED BY <1>2, <1>3, <2>3, WaitingCounted
<1>4. ASSUME NEW p \in 1 .. Len(s.ready), NEW i \in 1 .. Len(g.nodes[s.ready[p]].inputs),
             LiveProducer(g, g.nodes[s.ready[p]].inputs[i])
      PROVE  FALSE
  <2>1. PendingExact(g, s, 0)
    BY <1>3 DEF PendingExact
  <2>2. ReadyBehind(g, s, 0)
    BY <1>1, <2>1, ReadyWaitsForNothing
  <2>3. \E q \in 1 .. Len(s.ready) : q <= 0 /\ s.ready[q] = ProducerAt(g, s.ready[p], i)
    BY <1>4, <2>2 DEF ReadyBehind
  <2> QED BY <1>1, <2>3
<1> QED BY <1>1, <1>3, <1>4 DEF Advanced, PendingExact

\* What stands behind the first l stands behind the first k of them.
LEMMA StandsBehind ==
  ASSUME NEW l \in Nat, NEW n \in Nat, NEW k \in Nat, k <= l, NEW p \in 1 .. n, p \notin 1 .. l,
         NEW q \in 1 .. n, q <= k
  PROVE  q < p
BY SMTT(30)

\* The traversal takes one more ready node.
LEMMA AdvancedStep ==
  ASSUME NEW g, GraphOK(g), LinksOK(g), NEW s, NEW k, k \in 1 .. Len(s.ready), Advanced(g, s, k - 1),
         NEW users, users = g.users[g.nodes[s.ready[k]].result], NEW t, t = ReleasedAll(g, s, users)
  PROVE  Advanced(g, t, k)
<1>1. PICK c, x, r, l : c = Len(g.nodes) /\ x = s.ready[k] /\ r = g.nodes[x].result /\ l = Len(s.ready)
  OBVIOUS
<1>2. /\ TraversalOK(g, s) /\ PendingExact(g, s, k - 1) /\ l \in Nat /\ k \in 1 .. l
      /\ IsSequence(s.ready) /\ Distinct(s.ready)
  BY <1>1 DEF Advanced, TraversalOK, IsSequence
<1>3. k \in Nat /\ l \in Nat /\ 1 <= k /\ k <= l
  <2>1. l \in Nat /\ k \in 1 .. l
    BY <1>2
  <2> QED BY ONLY <2>1
<1>4. x \in 1 .. c /\ ~g.nodes[x].dead
  BY <1>1, <1>2 DEF TraversalOK, Holds
<1>5. /\ IsSequence(users) /\ \A i \in 1 .. Len(users) : users[i] \in 1 .. Len(g.nodes)
      /\ \A n \in 1 .. c : ~g.nodes[n].dead => Cardinality(Places(users, n)) = Cardinality(Uses(g.nodes[n], r))
  <2>1. r \in 1 .. Len(g.users)
    <3>1. NodeOver(g.nodes[x], Len(g.values))
      BY <1>1, <1>4 DEF GraphOK, NodesOK
    <3>2. Len(g.users) = Len(g.values)
      BY DEF GraphOK, TablesOK
    <3> QED BY ONLY <1>1, <3>1, <3>2 DEF NodeOver
  <2> QED BY <1>1, <2>1, Zenon DEF GraphOK, UsersOK, UseCountsOK
<1>6. PICK S : S = Done(s, k - 1)
  BY SMTT(30)
<1>7. x \notin S /\ Done(s, k) = S \union {x}
  <2>1. \A j \in 1 .. l : s.ready[j] = x => j = k
    BY <1>1, <1>2, Zenon DEF Distinct
  <2>2. \A j \in 1 .. l : j <= k <=> j <= k - 1 \/ j = k
    BY <1>2
  <2>3. ~(k <= k - 1)
    BY <1>2, SMTT(30)
  <2>4. \A y : y \in Done(s, k) <=> \E j \in 1 .. l : j <= k /\ s.ready[j] = y
    BY <1>1 DEF Done
  <2>5. \A y : y \in S <=> \E j \in 1 .. l : j <= k - 1 /\ s.ready[j] = y
    BY <1>1, <1>6 DEF Done
  <2>6. x \notin S
    BY <2>1, <2>3, <2>5, Zenon
  <2>7. \A y : y \in Done(s, k) <=> y \in S \/ y = x
    BY <1>1, <1>2, <2>2, <2>4, <2>5, Zenon
  <2> QED BY ONLY <2>6, <2>7
<1>8. ASSUME NEW n \in 1 .. c, ~g.nodes[n].dead
      PROVE  /\ Cardinality(Places(users, n)) <= s.pending[n]
             /\ Cardinality(Waiting(g, n, S \union {x})) = s.pending[n] - Cardinality(Places(users, n))
  <2>1. PICK T : T = S \union {x}
    OBVIOUS
  <2>2. n \in 1 .. Len(g.nodes) /\ x \in 1 .. Len(g.nodes) /\ ~g.nodes[x].dead /\ x \notin S /\ r = g.nodes[x].result
    BY <1>1, <1>4, <1>7
  <2>3. WaitsLess(g, n, r, S, T)
    <3>1. Joins(g, x, S, T)
      BY <2>1, <2>2 DEF Joins
    <3> QED BY <2>2, <3>1, WaitingLess
  <2>4. s.pending[n] = Cardinality(Waiting(g, n, S))
    BY <1>1, <1>2, <1>6, <1>8 DEF PendingExact
  <2>5. Cardinality(Places(users, n)) = Cardinality(Uses(g.nodes[n], r))
    BY <1>5, <1>8, Zenon
  <2> QED BY ONLY <2>1, <2>3, <2>4, <2>5 DEF WaitsLess
<1>9. TraversalOK(g, t)
  BY <1>2, <1>5, UsersReleased, Zenon
<1>10. UsersReduced(g, s, users, t)
  <2>1. NoneOverReleased(g, s, users)
    BY <1>1, <1>8, Zenon DEF NoneOverReleased
  <2>2. TraversalOK(g, s) /\ IsSequence(users)
    BY <1>2, <1>5, Zenon
  <2>3. \A i \in 1 .. Len(users) : users[i] \in 1 .. Len(g.nodes)
    BY <1>5, Zenon
  <2> QED BY <2>1, <2>2, <2>3, UsersCounted, Zenon
<1>11. PICK lt : lt = Len(t.ready)
  BY Zenon
<1>12. /\ lt \in Nat /\ l <= lt /\ \A i \in 1 .. l : i \in 1 .. lt /\ t.ready[i] = s.ready[i]
       /\ \A n \in 1 .. c : ~g.nodes[n].dead => t.pending[n] = s.pending[n] - Cardinality(Places(users, n))
  <2>1. lt \in Nat
    BY <1>9, <1>11, Zenon DEF TraversalOK, IsSequence
  <2>2. \A i \in 1 .. l : t.ready[i] = s.ready[i]
    BY <1>1, <1>10, <1>11, ZenonT(40) DEF UsersReduced
  <2>3. l <= lt
    BY <1>1, <1>10, <1>11 DEF UsersReduced
  <2>4. \A i \in 1 .. l : i \in 1 .. lt
    BY <1>3, <2>1, <2>3
  <2>5. \A n \in 1 .. c : ~g.nodes[n].dead => t.pending[n] = s.pending[n] - Cardinality(Places(users, n))
    BY <1>1, <1>10, ZenonT(40) DEF UsersReduced
  <2> QED BY <2>1, <2>2, <2>4, <2>5, <2>3, Zenon
<1>13. Done(t, k) = S \union {x}
  <2>1. \A i \in 1 .. lt : i <= k => i \in 1 .. l
    BY <1>3, SMTT(30)
  <2>2. \A y : y \in Done(t, k) <=> \E i \in 1 .. lt : i <= k /\ t.ready[i] = y
    BY <1>11 DEF Done
  <2>3. \A y : y \in Done(s, k) <=> \E i \in 1 .. l : i <= k /\ s.ready[i] = y
    BY <1>1 DEF Done
  <2>4. \A y : y \in Done(t, k) <=> y \in Done(s, k)
    BY <1>12, <2>1, <2>2, <2>3, Zenon
  <2>5. Done(t, k) = Done(s, k)
    BY ONLY <2>4
  <2> QED BY ONLY <1>7, <2>5
<1>14. PendingExact(g, t, k)
  BY <1>1, <1>8, <1>12, <1>13, Zenon DEF PendingExact
<1>15. ASSUME NEW p \in 1 .. lt, NEW i \in 1 .. Len(g.nodes[t.ready[p]].inputs),
              LiveProducer(g, g.nodes[t.ready[p]].inputs[i])
       PROVE  \E q \in 1 .. lt : q < p /\ t.ready[q] = ProducerAt(g, t.ready[p], i)
  <2>1. CASE p \in 1 .. l
    <3>1. t.ready[p] = s.ready[p]
      BY <1>12, <2>1, Zenon
    <3>2. PICK q \in 1 .. l : q < p /\ s.ready[q] = ProducerAt(g, s.ready[p], i)
      BY <1>1, <1>15, <2>1, <3>1, Zenon DEF Advanced
    <3>3. q \in 1 .. lt /\ t.ready[q] = s.ready[q]
      BY <1>12, Zenon
    <3> QED BY <3>1, <3>2, <3>3, Zenon
  <2>2. CASE p \notin 1 .. l
    <3>1. p \in 1 .. Len(t.ready)
      BY <1>11, Zenon
    <3>2. ReadyBehind(g, t, k)
      BY <1>9, <1>14, ReadyWaitsForNothing, Zenon
    <3>3. \E q \in 1 .. Len(t.ready) : q <= k /\ t.ready[q] = ProducerAt(g, t.ready[p], i)
      <4>1. i \in 1 .. Len(g.nodes[t.ready[p]].inputs) /\ LiveProducer(g, g.nodes[t.ready[p]].inputs[i])
        BY <1>15, Zenon
      <4> QED BY <3>1, <3>2, <4>1, Zenon DEF ReadyBehind
    <3>4. PICK q \in 1 .. lt : q <= k /\ t.ready[q] = ProducerAt(g, t.ready[p], i)
      BY <1>11, <3>3, Zenon
    <3>5. lt \in Nat
      BY <1>12, Zenon
    <3>6. q \in 1 .. lt /\ q <= k
      BY <3>4, ZenonT(40)
    <3>7. q < p
      BY <1>3, <2>2, <3>5, <3>6, StandsBehind
    <3> QED BY <3>4, <3>7, Zenon
  <2> QED BY <2>1, <2>2, Zenon
<1> QED BY <1>9, <1>11, <1>14, <1>15, ZenonT(40) DEF Advanced

KahnAdvances(g, start, f, k) == Advanced(g, f[k], k)

KahnWalk == INSTANCE InductionRules WITH Def <- KahnDef, P <- KahnAdvances, Step <- NoStep, Inv <- NoInv

\* At the end of the traversal all that was ready is done.
LEMMA KahnEnds ==
  ASSUME NEW g, GraphOK(g), LinksOK(g), NEW order, order = KahnOrder(g)
  PROVE  \E s : Advanced(g, s, Len(g.nodes)) /\ order = s.ready
<1>1. PICK count, start : count = Len(g.nodes) /\ start = KahnStart(g)
  OBVIOUS
<1> DEFINE placed == CHOOSE f : f = [k \in 0 .. count |-> KahnDef(g, start, f, k)]
<1>2. order = placed[count].ready
  BY <1>1, ZenonT(30) DEF KahnOrder, KahnStart, KahnDef, ReleasedAll
<1>3. count \in Nat /\ 0 \in Int /\ count \in Int /\ TablesOK(g)
  BY <1>1, TableDomains DEF GraphOK
<1>4. placed = CHOOSE f : f = [k \in 0 .. count |-> KahnDef(g, start, f, k)]
  OBVIOUS
<1> HIDE DEF placed
<1>5. placed = [k \in 0 .. count |-> KahnDef(g, start, placed, k)]
  <2>1. KahnWalk!LookBack(g, start, 0, count)
    <3> SUFFICES ASSUME NEW k \in 0 .. count, NEW r, NEW t, \A j \in 0 .. k - 1 : r[j] = t[j]
                 PROVE  KahnDef(g, start, r, k) = KahnDef(g, start, t, k)
      BY DEF KahnWalk!LookBack
    <3>1. k # 0 => r[k - 1] = t[k - 1]
      BY <1>3
    <3> QED BY <3>1 DEF KahnDef
  <2> QED BY <1>3, <1>4, <2>1, KahnWalk!RecursionEquation, SMTT(30)
<1>6. ASSUME NEW k \in 0 .. count, \A j \in 0 .. k - 1 : KahnAdvances(g, start, placed, j)
      PROVE  KahnAdvances(g, start, placed, k)
  <2>1. placed[k] = KahnDef(g, start, placed, k)
    BY <1>5
  <2>2. CASE k = 0
    <3>1. placed[k] = start
      BY <2>1, <2>2 DEF KahnDef
    <3> QED BY <1>1, <2>2, <3>1, AdvancedStart DEF KahnAdvances
  <2>3. CASE k # 0
    <3>1. PICK s : s = placed[k - 1]
      OBVIOUS
    <3>2. Advanced(g, s, k - 1) /\ k \in Nat /\ k >= 1
      BY <1>3, <1>6, <2>3, <3>1 DEF KahnAdvances
    <3>3. Len(s.ready) \in Nat
      BY <3>2 DEF Advanced, TraversalOK, IsSequence
    <3>4. CASE k > Len(s.ready)
      <4>1. placed[k] = s
        BY <2>1, <2>3, <3>1, <3>4 DEF KahnDef
      <4>2. Done(s, k) = Done(s, k - 1)
        <5>1. \A i \in 1 .. Len(s.ready) : i <= k <=> i <= k - 1
          BY <3>2, <3>3, <3>4
        <5> QED BY <5>1 DEF Done
      <4>3. Advanced(g, s, k)
        BY <3>2, <4>2 DEF Advanced, PendingExact
      <4> QED BY <4>1, <4>3, SMTT(30) DEF KahnAdvances
    <3>5. CASE ~(k > Len(s.ready))
      <4>1. k \in 1 .. Len(s.ready)
        BY <3>2, <3>3, <3>5
      <4>2. PICK users : users = g.users[g.nodes[s.ready[k]].result]
        OBVIOUS
      <4>3. placed[k] = ReleasedAll(g, s, users)
        BY <2>1, <2>3, <3>1, <3>5, <4>2, ZenonT(40) DEF KahnDef
      <4>4. Advanced(g, placed[k], k)
        BY <3>2, <4>1, <4>2, <4>3, AdvancedStep
      <4> QED BY <4>4 DEF KahnAdvances
    <3> QED BY <3>4, <3>5
  <2> QED BY <2>2, <2>3
<1>7. \A k \in 0 .. count : KahnAdvances(g, start, placed, k)
  BY <1>3, <1>6, KahnWalk!RecursionInduction
<1>8. Advanced(g, placed[count], count)
  BY <1>3, <1>7 DEF KahnAdvances
<1> QED BY <1>1, <1>2, <1>8

\* What the traversal places: every live node, behind the live producers of
\* its operands.
Topological(g, order) ==
  /\ \A n \in 1 .. Len(g.nodes) : ~g.nodes[n].dead => Holds(order, n)
  /\ \A p \in 1 .. Len(order) : \A i \in 1 .. Len(g.nodes[order[p]].inputs) :
       LiveProducer(g, g.nodes[order[p]].inputs[i]) =>
         \E q \in 1 .. Len(order) : q < p /\ order[q] = ProducerAt(g, order[p], i)

\* The traversal is a topological order of the live nodes.
LEMMA KahnTopological ==
  ASSUME NEW g, Sound(g), Ranked(g), NEW order, order = KahnOrder(g)
  PROVE  Topological(g, order)
<1>1. PICK c : c = Len(g.nodes)
  OBVIOUS
<1>2. GraphOK(g) /\ LinksOK(g) /\ c \in Nat
  BY <1>1, TableDomains DEF Sound, GraphOK
<1>3. PICK s : Advanced(g, s, c) /\ order = s.ready
  BY <1>1, <1>2, KahnEnds
<1>4. /\ TraversalOK(g, s) /\ PendingExact(g, s, c) /\ IsSequence(order) /\ Distinct(order)
      /\ \A x : Holds(order, x) <=> x \in 1 .. c /\ ~g.nodes[x].dead /\ s.pending[x] = 0
  BY <1>1, <1>3 DEF Advanced, TraversalOK
<1>5. Len(order) \in Nat /\ Len(order) <= c
  <2>1. PICK l : l = Len(order)
    OBVIOUS
  <2>2. l \in Nat /\ DOMAIN order = 1 .. l /\ order = [k \in 1 .. l |-> order[k]]
    BY <1>4, <2>1, SequenceOfItsItems DEF IsSequence
  <2>3. \A k \in 1 .. l : order[k] \in 1 .. c
    BY <1>4, <2>1 DEF Holds
  <2>4. order \in [1 .. l -> 1 .. c]
    BY <2>2, <2>3
  <2>5. \A i, j \in 1 .. l : order[i] = order[j] => i = j
    BY <1>4, <2>1 DEF Distinct
  <2>6. order \in Injection(1 .. l, 1 .. c)
    BY <2>4, <2>5 DEF Injection, IsInjective
  <2>7. IsFiniteSet(1 .. c) /\ Cardinality(1 .. c) = c /\ Cardinality(1 .. l) = l
    BY <1>2, <2>2, RangeCounts
  <2>8. Cardinality(1 .. l) <= Cardinality(1 .. c)
    BY <2>6, <2>7, FS_Injection, SMTT(30)
  <2> QED BY <2>1, <2>2, <2>7, <2>8
<1>6. ASSUME NEW n \in 1 .. c, ~g.nodes[n].dead, ~Holds(order, n)
      PROVE  \E p \in 1 .. c : /\ ~g.nodes[p].dead /\ ~Holds(order, p)
                               /\ \E i \in 1 .. Len(g.nodes[n].inputs) :
                                    g.nodes[n].inputs[i] = g.nodes[p].result
  <2>1. s.pending[n] # 0 /\ s.pending[n] = Cardinality(Waiting(g, n, Done(s, c)))
    BY <1>1, <1>4, <1>6 DEF PendingExact
  <2>2. Waiting(g, n, Done(s, c)) # {}
    BY <2>1, FS_EmptySet
  <2>3. PICK i \in 1 .. Len(g.nodes[n].inputs) :
          LiveProducer(g, g.nodes[n].inputs[i]) /\ ProducerAt(g, n, i) \notin Done(s, c)
    BY <2>2 DEF Waiting
  <2>4. PICK p, v : p = ProducerAt(g, n, i) /\ v = g.nodes[n].inputs[i]
    BY SMTT(30)
  <2>5. v \in 1 .. Len(g.values) /\ IsResult(g, v) /\ p = g.values[v].producer /\ ~g.nodes[p].dead
    BY <1>1, <1>2, <2>3, <2>4 DEF GraphOK, NodesOK, NodeOver, LiveProducer, ProducerAt, IsResult
  <2>6. p \in 1 .. c
    BY <1>1, <1>2, <2>5 DEF GraphOK, ValuesOK, ValueOver, IsResult
  <2>7. g.nodes[p].result = v
    BY <1>2, <2>5 DEF LinksOK, ProducerOf
  <2>8. ~Holds(order, p)
    <3> SUFFICES ASSUME Holds(order, p) PROVE FALSE
      OBVIOUS
    <3>1. PICK j \in 1 .. Len(order) : order[j] = p
      BY DEF Holds
    <3>2. j <= c
      BY <1>2, <1>5
    <3> QED BY <1>3, <2>3, <2>4, <3>1, <3>2 DEF Done
  <2> QED BY <2>4, <2>5, <2>6, <2>7, <2>8
<1>7. ASSUME NEW n \in 1 .. c, ~g.nodes[n].dead, ~Holds(order, n) PROVE FALSE
  <2>1. PICK b, rank : b \in Nat /\ Ranks(g, b, rank)
    BY DEF Ranked
  <2> DEFINE R == {rank[g.nodes[x].result] : x \in {y \in 1 .. c : ~g.nodes[y].dead /\ ~Holds(order, y)}}
  <2>2. \A y \in 1 .. c : g.nodes[y].result \in 1 .. Len(g.values)
    BY <1>1, <1>2 DEF GraphOK, NodesOK, NodeOver
  <2>3. R \in SUBSET Nat /\ R # {}
    BY <1>7, <2>1, <2>2 DEF Ranks
  <2>4. PICK m \in R : \A k \in R : m <= k
    <3> HIDE DEF R
    <3> QED BY <2>3, WithinFold!LeastNatural
  <2>5. PICK x \in 1 .. c : ~g.nodes[x].dead /\ ~Holds(order, x) /\ m = rank[g.nodes[x].result]
    BY <2>4
  <2>6. PICK p \in 1 .. c : /\ ~g.nodes[p].dead /\ ~Holds(order, p)
                            /\ \E i \in 1 .. Len(g.nodes[x].inputs) : g.nodes[x].inputs[i] = g.nodes[p].result
    BY <1>6, <2>5
  <2>7. m <= rank[g.nodes[p].result]
    BY <2>4, <2>6
  <2>8. IsResult(g, g.nodes[x].result) /\ ProducerOf(g, g.nodes[x].result) = g.nodes[x]
    BY <1>1, <1>2, <2>5 DEF LinksOK, ProducerOf
  <2>9. rank[g.nodes[p].result] < m
    BY <2>1, <2>2, <2>5, <2>6, <2>8 DEF Ranks
  <2>10. m \in Nat /\ rank[g.nodes[p].result] \in Nat
    BY <2>1, <2>2, <2>3, <2>4, SMTT(30) DEF Ranks
  <2> QED BY <2>7, <2>9, <2>10
<1> QED BY <1>1, <1>3, <1>7, ZenonT(40) DEF Advanced, Topological

\* The new order begins with what the traversal has placed.
LEMMA OrderBegins ==
  ASSUME NEW g, GraphOK(g), NEW placed, placed = KahnOrder(g), NEW order, order = NewOrder(g)
  PROVE  \A p \in 1 .. Len(placed) : p \in 1 .. Len(order) /\ order[p] = placed[p]
<1>1. PICK ids : ids = [n \in DOMAIN g.nodes |-> n]
  OBVIOUS
<1>2. PICK dead, rest : dead = Within(ids, DOMAIN g.nodes \ Live(g))
                        /\ rest = Within(ids, DOMAIN g.nodes \ ToSet(placed))
  OBVIOUS
<1>3. PICK front : front = placed \o dead
  OBVIOUS
<1>4. order = front \o rest
  BY <1>1, <1>2, <1>3 DEF NewOrder
<1>5. IsSequence(ids) /\ Distinct(ids)
  <2>1. PICK c : c = Len(g.nodes)
    OBVIOUS
  <2>2. c \in Nat /\ IsSequence(g.nodes)
    BY <2>1, TableDomains DEF GraphOK, TablesOK
  <2> QED BY <1>1, <2>1, <2>2, AllIds
<1>6. IsSequence(placed) /\ IsSequence(dead) /\ IsSequence(rest)
  BY <1>2, <1>5, KahnOrderIs, WithinSelects
<1>7. PICK l, m, n : l = Len(placed) /\ m = Len(dead) /\ n = Len(rest)
  OBVIOUS
<1>8. l \in Nat /\ m \in Nat /\ n \in Nat
  BY <1>6, <1>7 DEF IsSequence
<1>9. IsSequence(front) /\ Len(front) = l + m /\ \A k \in 1 .. l : front[k] = placed[k]
  <2>1. IsSequence(front)
    BY <1>3, <1>6, SequenceConcat
  <2>2. Len(front) = l + m
    BY <1>3, <1>6, <1>7, SequenceConcat
  <2>3. \A k \in 1 .. l : front[k] = placed[k]
    BY <1>3, <1>6, <1>7, SequenceConcat
  <2> QED BY <2>1, <2>2, <2>3
<1>10. Len(order) = l + m + n /\ \A k \in 1 .. l + m : order[k] = front[k]
  <2>1. PICK lf : lf = Len(front)
    OBVIOUS
  <2>2. IsSequence(front) /\ lf = l + m
    BY <1>9, <2>1
  <2>3. IsSequence(front) /\ IsSequence(rest)
    BY <1>6, <2>2
  <2>4. Len(order) = lf + n
    BY <1>4, <1>7, <2>1, <2>3, SequenceConcat
  <2>5. \A k \in 1 .. lf : order[k] = front[k]
    BY <1>4, <1>7, <2>1, <2>3, SequenceConcat
  <2> QED BY <2>2, <2>4, <2>5
<1>11. \A k \in 1 .. l : k \in 1 .. l + m /\ k \in 1 .. l + m + n
  BY <1>8
<1> QED BY <1>7, <1>9, <1>10, <1>11

\* Every live node's new id is above those of its operands' live producers.
RemapDescends(g, to) ==
  \A n \in 1 .. Len(g.nodes) : ~g.nodes[n].dead =>
    \A i \in 1 .. Len(g.nodes[n].inputs) :
      LiveProducer(g, g.nodes[n].inputs[i]) => to[ProducerAt(g, n, i)] < to[n]

\* Along operands the new ids descend.
LEMMA NewIdsDescend ==
  ASSUME NEW g, Sound(g), Ranked(g), NEW order, order = NewOrder(g), NEW to, RemapOK(g, order, to)
  PROVE  RemapDescends(g, to)
<1> SUFFICES ASSUME NEW n \in 1 .. Len(g.nodes), ~g.nodes[n].dead,
                    NEW i \in 1 .. Len(g.nodes[n].inputs), LiveProducer(g, g.nodes[n].inputs[i])
             PROVE  to[ProducerAt(g, n, i)] < to[n]
  BY DEF RemapDescends
<1>1. PICK placed : placed = KahnOrder(g)
  OBVIOUS
<1>2. GraphOK(g) /\ Topological(g, placed)
  BY <1>1, KahnTopological DEF Sound
<1>3. \A p \in 1 .. Len(placed) : p \in 1 .. Len(order) /\ order[p] = placed[p]
  BY <1>1, <1>2, OrderBegins
<1>4. PICK p \in 1 .. Len(placed) : placed[p] = n
  BY <1>2 DEF Topological, Holds
<1>5. PICK q \in 1 .. Len(placed) : q < p /\ placed[q] = ProducerAt(g, n, i)
  BY <1>2, <1>4 DEF Topological
<1>6. ~g.nodes[placed[q]].dead
  BY <1>5 DEF LiveProducer, ProducerAt
<1>7. to[n] = p /\ to[placed[q]] = q
  BY <1>3, <1>4, <1>6, SMTT(30) DEF RemapOK
<1> QED BY <1>5, <1>7

\* renumberTopological puts every live node behind the producers of its operands.
LEMMA RenumberProducedBefore ==
  ASSUME NEW g, Sound(g), Ranked(g), LiveBelow(g), NEW h, h = RenumberTopological(g)
  PROVE  ProducedBefore(h)
<1>1. PICK order, to : order = NewOrder(g) /\ to = Remap(order)
  OBVIOUS
<1>2. PICK c, m : c = Len(g.nodes) /\ m = Len(g.values)
  OBVIOUS
<1>3. GraphOK(g) /\ GraphOK(h)
  BY Renumbered DEF Sound
<1>4. OrderOK(g, order) /\ RemapOK(g, order, to)
  BY <1>1, <1>3, NewOrderIs, RemapIs
<1>5. RemapDescends(g, to)
  BY <1>1, <1>4, NewIdsDescend
<1>6. ASSUME NEW n \in 1 .. c, ~g.nodes[n].dead, NEW i \in 1 .. Len(g.nodes[n].inputs),
             NEW v, v = g.nodes[n].inputs[i], g.values[v].kind = "result"
      PROVE  v \in 1 .. m /\ g.values[v].producer \in 1 .. c /\ to[g.values[v].producer] < to[n]
  <2>1. v \in 1 .. m
    BY <1>2, <1>3, <1>6, SMTT(30) DEF GraphOK, NodesOK, NodeOver
  <2>2. g.values[v].producer \in 1 .. c
    BY <1>2, <1>3, <1>6, <2>1 DEF GraphOK, ValuesOK, ValueOver
  <2>3. Available(g, v)
    BY <1>2, <1>6, SMTT(30) DEF LiveBelow
  <2>4. LiveProducer(g, v)
    <3>1. IsResult(g, v)
      BY <1>6 DEF IsResult
    <3>2. ~ProducerOf(g, v).dead
      BY <2>3, <3>1 DEF Available
    <3> QED BY <1>6, <3>2 DEF LiveProducer, ProducerOf
  <2>5. to[g.values[v].producer] < to[n]
    BY <1>2, <1>5, <1>6, <2>4 DEF RemapDescends, ProducerAt
  <2> QED BY <2>1, <2>2, <2>5
<1>7. \A n \in 1 .. c : ~g.nodes[n].dead =>
        g.nodes[n].id = n /\ DOMAIN g.nodes[n].inputs = 1 .. Len(g.nodes[n].inputs)
  <2>1. \A n \in 1 .. c : DOMAIN g.nodes[n].inputs = 1 .. Len(g.nodes[n].inputs)
    BY <1>2, <1>3, SoundTables
  <2> QED BY <1>2, <1>3, <2>1 DEF GraphOK, NodesOK
<1>8. DOMAIN to = 1 .. c /\ DOMAIN g.nodes = 1 .. c
  BY <1>2, <1>3, <1>4, SoundTables DEF RemapOK
<1>9. CASE \A n \in DOMAIN to : to[n] = n
  <2>1. h = g
    BY <1>1, <1>9 DEF RenumberTopological
  <2>2. ASSUME NEW n \in Live(g), NEW i \in DOMAIN g.nodes[n].inputs, NEW v, v = g.nodes[n].inputs[i],
               g.values[v].kind = "result"
        PROVE  g.values[v].producer < g.nodes[n].id
    <3>1. n \in 1 .. c /\ ~g.nodes[n].dead /\ i \in 1 .. Len(g.nodes[n].inputs)
      BY <1>7, <1>8, <2>2, SMTT(30) DEF Live
    <3>2. g.values[v].producer \in 1 .. c /\ to[g.values[v].producer] < to[n]
      BY <1>6, <2>2, <3>1
    <3> QED BY <1>7, <1>8, <1>9, <3>1, <3>2
  <2> QED BY <2>1, <2>2 DEF ProducedBefore
<1>10. CASE \E n \in DOMAIN to : to[n] # n
  <2>1. TablesMoved(g, order, to, h)
    BY <1>1, <1>3, <1>4, <1>10, TablesRenumbered
  <2>2. PICK l : l = Len(order)
    OBVIOUS
  <2>3. Len(h.nodes) = l /\ DOMAIN h.nodes = 1 .. l
    <3>1. l \in Nat
      BY <1>4, <2>2 DEF OrderOK, IsSequence
    <3>2. h.nodes = [p \in 1 .. l |-> [g.nodes[order[p]] EXCEPT !.id = to[order[p]]]]
      BY <2>1, <2>2 DEF TablesMoved
    <3> QED BY <3>1, <3>2, FunctionIsSequence
  <2>4. ASSUME NEW p \in Live(h), NEW i \in DOMAIN h.nodes[p].inputs, NEW v, v = h.nodes[p].inputs[i],
               h.values[v].kind = "result"
        PROVE  h.values[v].producer < h.nodes[p].id
    <3>1. p \in 1 .. l /\ ~h.nodes[p].dead
      BY <2>3, <2>4 DEF Live
    <3>2. PICK n : n = order[p]
      OBVIOUS
    <3>3. n \in 1 .. c
      BY <1>2, <1>4, <2>2, <3>1, <3>2 DEF OrderOK, Holds
    <3>4. h.nodes[p] = [g.nodes[n] EXCEPT !.id = to[n]]
      BY <2>1, <2>2, <3>1, <3>2 DEF TablesMoved
    <3>5. NodeForm(g.nodes[n])
      BY <1>2, <1>3, <3>3 DEF GraphOK, NodesOK, NodeOver
    <3>6. h.nodes[p].inputs = g.nodes[n].inputs /\ h.nodes[p].dead = g.nodes[n].dead
          /\ h.nodes[p].id = to[n]
      BY <3>4, <3>5, NodeRenamed
    <3>7. ~g.nodes[n].dead /\ i \in 1 .. Len(g.nodes[n].inputs) /\ v = g.nodes[n].inputs[i]
      BY <1>7, <2>4, <3>1, <3>3, <3>6
    <3>8. v \in 1 .. m
      BY <1>2, <1>3, <3>3, <3>7 DEF GraphOK, NodesOK, NodeOver
    <3>9. h.values[v] = Reproduced(g.values[v], to)
      BY <1>2, <2>1, <3>8 DEF TablesMoved
    <3>10. /\ ValueOver(g.values[v], c)
           /\ \A x \in 1 .. c : to[x] \in 1 .. l
      <4>1. ValueOver(g.values[v], c)
        BY <1>2, <1>3, <3>8 DEF GraphOK, ValuesOK
      <4>2. \A x \in 1 .. c : to[x] \in 1 .. l
        BY <1>2, <1>4, <2>2 DEF RemapOK
      <4> QED BY <4>1, <4>2
    <3>11. g.values[v].kind = "result" /\ h.values[v].producer = to[g.values[v].producer]
      <4>1. PICK a, b : a = g.values[v] /\ b = h.values[v]
        OBVIOUS
      <4>2. ValueOver(a, c) /\ b = Reproduced(a, to)
        BY <3>9, <3>10, <4>1
      <4>3. a = [kind |-> a.kind, payload |-> a.payload, producer |-> a.producer]
        BY <4>2 DEF ValueOver, ValueForm
      <4>4. b.kind = a.kind /\ (a.kind = "result" => b.producer = to[a.producer])
        BY <4>2, <4>3 DEF Reproduced
      <4> QED BY <2>4, <4>1, <4>4
    <3>12. to[g.values[v].producer] < to[n]
      BY <1>6, <3>3, <3>7, <3>11
    <3> QED BY <3>6, <3>11, <3>12
  <2> QED BY <2>4 DEF ProducedBefore
<1> QED BY <1>9, <1>10

\* The verifier accepts a sound graph of which the live part is whole and in order.
LEMMA OrderedVerifies ==
  ASSUME NEW g, Sound(g), LiveBelow(g), ProducedBefore(g)
  PROVE  VerifyGraph(g)
<1>1. PICK c, m : c = Len(g.nodes) /\ m = Len(g.values)
  OBVIOUS
<1>2. /\ GraphOK(g) /\ TablesOK(g)
      /\ DOMAIN g.nodes = 1 .. c /\ DOMAIN g.values = 1 .. m
      /\ DOMAIN g.outputs = 1 .. Len(g.outputs) /\ DOMAIN g.chain = 1 .. Len(g.chain)
      /\ \A v \in 1 .. m : IsResult(g, v) => g.values[v].producer \in 1 .. c
  <2>1. GraphOK(g) /\ TablesOK(g)
    BY SMTT(30) DEF Sound, GraphOK
  <2> QED BY <1>1, <2>1, SoundTables, TableDomains
<1>3. OutputsAlive(g)
  BY <1>2 DEF OutputsAlive, LiveBelow, Available, IsResult, ProducerOf
<1>4. ProducersExist(g)
  BY <1>2 DEF ProducersExist, IsResult
<1>5. ChainContinuous(g)
  <2>1. \A k \in 1 .. Len(g.chain) : IsEffect(g, g.chain[k])
    BY <1>2 DEF GraphOK, ChainOK, Holds
  <2> QED BY <1>1, <1>2, <2>1, SMTT(30) DEF ChainContinuous, IsEffect
<1> QED BY <1>3, <1>4, <1>5 DEF VerifyGraph

\* The frontend's nodes stand behind those they read.
LEMMA NodeBuiltInOrder ==
  ASSUME NEW g, Fresh(g), ProducedBefore(g), NEW op \in Operations, NEW inputs \in Operands(g, op),
         MayAddNode(g, inputs), NEW h, h = AddNode(g, op, inputs, 0)
  PROVE  ProducedBefore(h)
<1>1. PICK m, c : m = Len(g.values) /\ c = Len(g.nodes)
  OBVIOUS
<1>2. Sound(g) /\ GraphOK(g) /\ DOMAIN g.rep = {} /\ \A n \in 1 .. c : ~g.nodes[n].dead
  BY <1>1 DEF Fresh, WellMade, Sound
<1>3. op \in Computed
  BY OperationsAssumption DEF Computed
<1>4. IsSequence(inputs) /\ Len(inputs) = IF Binary(op) THEN 2 ELSE 1
  BY OperandsForm
<1>5. /\ DOMAIN inputs = 1 .. Len(inputs) /\ DOMAIN g.values = 1 .. m /\ m \in Nat /\ c \in Nat
      /\ DOMAIN g.nodes = 1 .. c
      /\ \A v \in 1 .. m : IsResult(g, v) => g.values[v].producer \in 1 .. c
  BY <1>1, <1>2, <1>4, SequenceOfItsItems, SoundTables
<1>6. \A k \in 1 .. Len(inputs) : inputs[k] \in 1 .. m
  BY <1>5 DEF MayAddNode
<1>7. MayRead(g, op, inputs)
  BY <1>1, <1>2, <1>4, <1>6 DEF MayRead
<1>8. WithNode(g, h, m, c, op, inputs)
  BY <1>1, <1>2, <1>3, <1>7, NodeSound
<1>9. /\ GraphOK(h) /\ Len(h.nodes) = c + 1 /\ h.nodes[c + 1].dead = FALSE /\ h.nodes[c + 1].inputs = inputs
      /\ \A v \in 1 .. m : h.values[v] = g.values[v]
      /\ \A n \in 1 .. c : h.nodes[n] = g.nodes[n]
  BY <1>1, <1>8 DEF WithNode, Grown, Sound
<1>10. DOMAIN h.nodes = 1 .. c + 1
  BY <1>9, SoundTables
<1>11. h.nodes[c + 1].id = c + 1
  BY <1>5, <1>9 DEF GraphOK, NodesOK
<1>12. \A n \in 1 .. c : \A k \in DOMAIN g.nodes[n].inputs : g.nodes[n].inputs[k] \in 1 .. m
  BY <1>1, <1>2, SoundTables, SMTT(30)
<1> SUFFICES ASSUME NEW n \in Live(h), NEW k \in DOMAIN h.nodes[n].inputs, NEW v, v = h.nodes[n].inputs[k],
                    h.values[v].kind = "result"
             PROVE  h.values[v].producer < h.nodes[n].id
  BY DEF ProducedBefore
<1>13. n \in 1 .. c \/ n = c + 1
  BY <1>5, <1>10, SMTT(30) DEF Live
<1>14. CASE n \in 1 .. c
  <2>1. h.nodes[n] = g.nodes[n] /\ v \in 1 .. m /\ h.values[v] = g.values[v]
    BY <1>9, <1>12, <1>14
  <2>2. n \in Live(g)
    <3>1. ~h.nodes[n].dead
      BY DEF Live
    <3>2. n \in DOMAIN g.nodes /\ ~g.nodes[n].dead
      BY <1>5, <1>14, <2>1, <3>1
    <3> QED BY <3>2 DEF Live
  <2> QED BY <2>1, <2>2 DEF ProducedBefore
<1>15. CASE n = c + 1
  <2>1. v \in 1 .. m
    <3>1. h.nodes[n].inputs = inputs
      BY <1>9, <1>15
    <3>2. k \in 1 .. Len(inputs) /\ v = inputs[k]
      BY <1>5, <3>1
    <3> QED BY <1>6, <3>2
  <2>2. h.values[v] = g.values[v] /\ IsResult(g, v)
    BY <1>9, <2>1, SMTT(30) DEF IsResult
  <2>3. h.values[v].producer \in 1 .. c
    BY <1>5, <2>1, <2>2
  <2>4. h.nodes[n].id = c + 1 /\ c \in Nat
    BY <1>5, <1>11, <1>15
  <2> QED BY ONLY <2>3, <2>4
<1> QED BY <1>13, <1>14, <1>15

\* An output named by the frontend moves no node.
LEMMA OutputKeepsOrder ==
  ASSUME NEW g, Fresh(g), ProducedBefore(g), NEW v, NEW h, h = AddOutput(g, v)
  PROVE  ProducedBefore(h)
<1>1. GraphForm(g)
  BY DEF Fresh, WellMade, Sound, GraphOK, TablesOK
<1>2. h.values = g.values /\ h.nodes = g.nodes
  BY <1>1, OutputTables
<1> QED BY <1>2 DEF ProducedBefore, Live

(***************************************************************************)
(* What the verifier will say: of a graph as built or as the last pass     *)
(* found it, yes; of a graph that changed, nothing until it is renumbered; *)
(* and of one that was stopped, nothing.                                   *)
(***************************************************************************)
StoppedOK ==
  /\ phase \in {"stopped", "rejected"} => interrupted # {}
  /\ phase = "build" => ProducedBefore(graph)
  /\ phase = "pass" /\ ~changed => VerifyGraph(graph)

\* A pass that ends where none was stopped leaves a graph that verifies.
LEMMA SettledVerifies ==
  ASSUME AnswerInv, StoppedOK, phase = "pass", "dce" \notin interrupted => LiveBelow(graph),
         NEW b \in BOOLEAN, ~b => ~changed, Settle(graph, b), UNCHANGED interrupted
  PROVE  StoppedOK'
<1>1. PICK h : h = IF b THEN RenumberTopological(graph) ELSE graph
  OBVIOUS
<1>2. graph' = h /\ phase' = IF VerifyGraph(h) THEN "between" ELSE "rejected"
  BY <1>1 DEF Settle
<1>3. ASSUME interrupted = {} PROVE VerifyGraph(h)
  <2>1. CASE b
    <3>1. WellMade(graph) /\ LiveBelow(graph) /\ h = RenumberTopological(graph)
      BY <1>1, <1>3, <2>1 DEF AnswerInv
    <3>2. Sound(h) /\ LiveBelow(h)
      BY <3>1, RenumberAnswers DEF AnswersAs, WellMade
    <3>3. ProducedBefore(h)
      BY <3>1, RenumberProducedBefore DEF WellMade
    <3> QED BY <3>2, <3>3, OrderedVerifies
  <2>2. CASE ~b
    BY <1>1, <2>2 DEF StoppedOK
  <2> QED BY <2>1, <2>2
<1> QED BY <1>2, <1>3 DEF StoppedOK

\* Every step keeps what the verifier will say.
LEMMA NextStopped == "extract" \notin Passes => (IInv /\ AnswerInv /\ StoppedOK /\ [Next]_vars => StoppedOK')
<1> SUFFICES ASSUME "extract" \notin Passes, IInv, AnswerInv, StoppedOK, [Next]_vars PROVE StoppedOK'
  OBVIOUS
<1>1. /\ BuildOK /\ VerifiedOK /\ LivesOK /\ ControlOK
  BY DEF AnswerInv, IInv
<1>2. ASSUME NEW op \in Operations, NEW inputs \in Operands(graph, op), BuildNode(op, inputs)
      PROVE  StoppedOK'
  <2>1. PICK h : h = AddNode(graph, op, inputs, 0)
    OBVIOUS
  <2>2. phase = "build" /\ MayAddNode(graph, inputs) /\ graph' = h /\ phase' = phase
    BY <1>2, <2>1 DEF BuildNode
  <2>3. ProducedBefore(h)
    BY <1>1, <2>1, <2>2, NodeBuiltInOrder DEF BuildOK, StoppedOK
  <2> QED BY <2>2, <2>3 DEF StoppedOK
<1>3. ASSUME NEW v \in DOMAIN graph.values, BuildOutput(v)
      PROVE  StoppedOK'
  <2>1. PICK h : h = AddOutput(graph, v)
    OBVIOUS
  <2>2. phase = "build" /\ graph' = h /\ phase' = phase
    BY <1>3, <2>1 DEF BuildOutput
  <2>3. ProducedBefore(h)
    BY <1>1, <2>1, <2>2, OutputKeepsOrder DEF BuildOK, StoppedOK
  <2> QED BY <2>2, <2>3 DEF StoppedOK
<1>4. CASE Compile
  <2>1. /\ graph' = graph /\ interrupted' = interrupted /\ phase \in {"build", "stopped"}
        /\ phase' = IF VerifyGraph(graph) THEN "between" ELSE "rejected"
    BY <1>4 DEF Compile
  <2>2. CASE phase = "build"
    <3>1. Sound(graph) /\ LiveBelow(graph) /\ ProducedBefore(graph)
      BY <1>1, <2>2 DEF BuildOK, StoppedOK, Fresh, WellMade
    <3>2. VerifyGraph(graph)
      BY <3>1, OrderedVerifies
    <3> QED BY <2>1, <3>2 DEF StoppedOK
  <2>3. CASE phase = "stopped"
    BY <2>1, <2>3 DEF StoppedOK
  <2> QED BY <2>1, <2>2, <2>3
<1>5. ASSUME NEW p \in Passes, BeginPass(p)
      PROVE  StoppedOK'
  <2>1. phase = "between" /\ phase' = "pass" /\ graph' = graph
    BY <1>5 DEF BeginPass
  <2> QED BY <1>1, <2>1 DEF VerifiedOK, StoppedOK
<1>6. CASE Edit
  BY <1>6 DEF Edit, StoppedOK
<1>7. CASE NextSweep
  BY <1>7 DEF NextSweep, SweepDone, StoppedOK
<1>8. CASE NextRound
  BY <1>8 DEF NextRound, SweepDone, StoppedOK
<1>9. CASE EndPass
  <2>1. /\ phase = "pass" /\ SweepDone /\ Settle(graph, changed) /\ changed \in BOOLEAN
        /\ UNCHANGED interrupted
    BY <1>1, <1>9 DEF EndPass, SweepDone, ControlOK
  <2>2. "dce" \notin interrupted => LiveBelow(graph)
    <3>1. CASE pass = "dce"
      BY <2>1, <3>1, EliminationEnds
    <3>2. CASE pass # "dce"
      BY <1>1, <3>2 DEF LivesOK
    <3> QED BY <3>1, <3>2
  <2> QED BY <2>1, <2>2, SettledVerifies
<1>10. CASE Annotate
  <2>1. /\ phase = "pass" /\ pass = "annotate" /\ Settle(graph, TRUE) /\ TRUE \in BOOLEAN
        /\ UNCHANGED interrupted
    BY <1>10 DEF Annotate
  <2>2. "dce" \notin interrupted => LiveBelow(graph)
    BY <1>1, <2>1 DEF LivesOK
  <2>3. ~TRUE => ~changed
    OBVIOUS
  <2> QED BY <2>1, <2>2, <2>3, SettledVerifies
<1>11. ASSUME NEW stale \in BOOLEAN, EgraphExtract(stale)
       PROVE  StoppedOK'
  <2>1. pass = "extract" /\ phase = "pass"
    BY <1>11 DEF EgraphExtract
  <2> QED BY <1>1, <2>1, SMTT(30) DEF ControlOK
<1>12. CASE StopPass
  <2>1. phase' = "stopped" /\ interrupted' = interrupted \union {pass}
    BY <1>12 DEF StopPass
  <2> QED BY <2>1 DEF StoppedOK
<1>13. CASE UNCHANGED vars
  BY <1>13 DEF vars, locals, StoppedOK
<1>14. CASE Finished
  BY <1>13, <1>14 DEF Finished
<1> QED
  BY <1>2, <1>3, <1>4, <1>5, <1>6, <1>7, <1>8, <1>9, <1>10, <1>11, <1>12, <1>13, <1>14 DEF Next

\* verifyGraph, which the runner calls after renumberTopological, rejects no
\* graph that passes left at their ends: however the edits put producers
\* behind their consumers, the traversal finds an order of the live nodes, and
\* a rejection means that a pass was stopped between two kills.
THEOREM VerifierRejectsOnlyAfterStop ==
  ASSUME "extract" \notin Passes, OneInputPerName
  PROVE  Spec => []RejectedOnlyAfterStop
<1>1. Init => StoppedOK
  <2> SUFFICES ASSUME Init PROVE StoppedOK
    OBVIOUS
  <2>1. phase = "build" /\ graph = LeafGraph
    BY DEF Init
  <2>2. Len(LeafGraph.nodes) = 0 /\ GraphOK(LeafGraph)
    BY LeafGraphOK
  <2>3. DOMAIN LeafGraph.nodes = 1 .. 0
    BY <2>2, SoundTables
  <2>4. ProducedBefore(graph)
    BY <2>1, <2>3 DEF ProducedBefore, Live
  <2> QED BY <2>1, <2>4 DEF StoppedOK
<1>2. IInv /\ AnswerInv /\ StoppedOK /\ [Next]_vars => StoppedOK'
  BY NextStopped
<1>3. StoppedOK => RejectedOnlyAfterStop
  BY DEF StoppedOK, RejectedOnlyAfterStop
<1>4. Spec => []IInv
  BY RewritingInvariant
<1>5. Spec => []AnswerInv
  BY AnswerInvariant
<1> QED BY <1>1, <1>2, <1>3, <1>4, <1>5, PTL DEF Spec

-----------------------------------------------------------------------------
(***************************************************************************)
(* The kernel of a graph. Between passes the runner hands a verified graph *)
(* to the lowering; where nothing dead is reached, what the outputs depend *)
(* on is live, not replaced, and produced before it is read.               *)
(***************************************************************************)

Compilable(g) == Sound(g) /\ VerifyGraph(g) /\ Covered(g)

\* The producer of a result that is reached.
MadeBy(g, v, p) ==
  /\ p = g.values[v].producer /\ p \in 1 .. Len(g.nodes) /\ ~g.nodes[p].dead
  /\ ProducerOf(g, v) = g.nodes[p] /\ g.nodes[p].result = v

\* What is reached stands for itself, and is computed from what is reached
\* and comes before.
LEMMA ReachedValue ==
  ASSUME NEW g, Compilable(g), NEW v \in Reached(g)
  PROVE  /\ v \in 1 .. Len(g.values) /\ v \in DOMAIN g.values
         /\ Representative(g, v) = v
         /\ IsResult(g, v) => \E p : MadeBy(g, v, p)
<1>1. GraphOK(g) /\ LinksOK(g) /\ RepOK(g) /\ Available(g, v)
  BY DEF Compilable, Sound, Covered
<1>2. v \in 1 .. Len(g.values)
  BY <1>1, ReachedIs DEF Closed
<1>3. v \in DOMAIN g.values
  BY <1>1, <1>2, SoundTables
<1>4. v \notin DOMAIN g.rep
  BY <1>1 DEF RepOK
<1>5. Representative(g, v) = v
  BY <1>4, RepresentsItself
<1>6. ASSUME IsResult(g, v) PROVE \E p : MadeBy(g, v, p)
  <2>1. PICK p : p = g.values[v].producer
    OBVIOUS
  <2>2. p \in 1 .. Len(g.nodes)
    BY <1>1, <1>2, <1>6, <2>1, SoundTables
  <2>3. ProducerOf(g, v) = g.nodes[p] /\ g.nodes[p].result = v
    BY <1>1, <1>2, <1>6, <2>1 DEF ProducerOf, LinksOK
  <2>4. ~g.nodes[p].dead
    BY <1>1, <1>6, <2>3 DEF Available
  <2> QED BY <2>1, <2>2, <2>3, <2>4 DEF MadeBy
<1> QED BY <1>2, <1>3, <1>5, <1>6

\* The operands of a node whose result is reached.
LEMMA ReachedOperand ==
  ASSUME NEW g, Compilable(g), NEW p \in 1 .. Len(g.nodes), ~g.nodes[p].dead,
         g.nodes[p].result \in Reached(g), NEW k \in 1 .. Len(g.nodes[p].inputs)
  PROVE  /\ g.nodes[p].inputs[k] \in Reached(g)
         /\ IsResult(g, g.nodes[p].inputs[k]) => g.values[g.nodes[p].inputs[k]].producer < p
<1>1. GraphOK(g) /\ Sound(g)
  BY DEF Compilable, Sound
<1>2. PICK a : a = g.nodes[p].inputs[k]
  OBVIOUS
<1>3. IsResult(g, g.nodes[p].result) /\ ProducerOf(g, g.nodes[p].result) = g.nodes[p]
  BY <1>1, LiveResult
<1>4. a \in Reached(g)
  BY <1>1, <1>2, <1>3, ReachedIs DEF Closed, OperandsIn
<1>5. p \in Live(g) /\ k \in DOMAIN g.nodes[p].inputs /\ g.nodes[p].id = p
  <2>1. DOMAIN g.nodes = 1 .. Len(g.nodes)
    BY <1>1, SoundTables
  <2>2. DOMAIN g.nodes[p].inputs = 1 .. Len(g.nodes[p].inputs)
    BY <1>1, OperandCount
  <2>3. g.nodes[p].id = p
    BY <1>1 DEF GraphOK, NodesOK
  <2> QED BY <2>1, <2>2, <2>3 DEF Live
<1>6. IsResult(g, a) => g.values[a].producer < p
  <2>1. ProducedBefore(g)
    BY DEF Compilable, VerifyGraph
  <2> QED BY <1>2, <1>5, <2>1 DEF ProducedBefore, IsResult
<1> QED BY <1>2, <1>4, <1>6

GrowStep(g, set, k) ==
  set \union {Representative(g, v) :
                v \in UNION {ToSet(ProducerOf(g, w).inputs) : w \in {u \in set : IsResult(g, u)}}}

\* After k steps the operands of the k last nodes are there.
GrownIs(g, set, k) ==
  /\ set \subseteq Reached(g) /\ \A i \in 1 .. Len(g.outputs) : g.outputs[i] \in set
  /\ \A w \in set : IsResult(g, w) /\ g.values[w].producer > Len(g.nodes) - k => OperandsIn(g, w, set)

GrowFold == INSTANCE InductionRules WITH Step <- GrowStep, Inv <- GrownIs, Def <- NoDef, P <- NoP

\* A step adds the operands of the results that were there.
LEMMA GrowAdds ==
  ASSUME NEW g, Compilable(g), NEW set, set \subseteq Reached(g), NEW k, NEW t, t = GrowStep(g, set, k)
  PROVE  /\ set \subseteq t /\ t \subseteq Reached(g)
         /\ \A u \in set : IsResult(g, u) => OperandsIn(g, u, t)
         /\ \A w \in t : w \in set \/ \E u \in set : /\ IsResult(g, u)
                                                     /\ \E i \in 1 .. Len(ProducerOf(g, u).inputs) : ProducerOf(g, u).inputs[i] = w
<1>1. ASSUME NEW u \in set, IsResult(g, u)
      PROVE  /\ \A a : a \in ToSet(ProducerOf(g, u).inputs) <=>
                         \E i \in 1 .. Len(ProducerOf(g, u).inputs) : ProducerOf(g, u).inputs[i] = a
             /\ \A i \in 1 .. Len(ProducerOf(g, u).inputs) :
                  ProducerOf(g, u).inputs[i] \in Reached(g)
  <2>1. PICK p : MadeBy(g, u, p)
    BY <1>1, ReachedValue
  <2>2. IsSequence(g.nodes[p].inputs)
    BY <2>1, SoundTables DEF MadeBy, Compilable, Sound
  <2>3. \A a : a \in ToSet(g.nodes[p].inputs) <=> Holds(g.nodes[p].inputs, a)
    BY <2>2, HoldsIsMember
  <2>4. \A i \in 1 .. Len(g.nodes[p].inputs) : g.nodes[p].inputs[i] \in Reached(g)
    <3>1. p \in 1 .. Len(g.nodes) /\ ~g.nodes[p].dead /\ g.nodes[p].result \in Reached(g)
      BY <1>1, <2>1 DEF MadeBy
    <3> QED BY <3>1, ReachedOperand
  <2>5. ProducerOf(g, u) = g.nodes[p]
    BY <2>1 DEF MadeBy
  <2> QED BY <2>3, <2>4, <2>5 DEF Holds
<1>2. \A a : (\E u \in set : IsResult(g, u) /\ a \in ToSet(ProducerOf(g, u).inputs)) => Representative(g, a) = a
  <2>1. ASSUME NEW a, NEW u \in set, IsResult(g, u), a \in ToSet(ProducerOf(g, u).inputs)
        PROVE  Representative(g, a) = a
    <3>1. a \in Reached(g)
      BY <1>1, <2>1
    <3> QED BY <3>1, ReachedValue
  <2> QED BY <2>1
<1>3. \A a : a \in t <=> a \in set \/ \E u \in set : IsResult(g, u) /\ a \in ToSet(ProducerOf(g, u).inputs)
  BY <1>2 DEF GrowStep
<1> QED BY <1>1, <1>3, ZenonT(40) DEF OperandsIn

\* What the outputs depend on: computed from values that are there.
LEMMA ReachableIs ==
  ASSUME NEW g, Compilable(g), NEW set, set = Reachable(g)
  PROVE  /\ set \subseteq Reached(g) /\ \A i \in 1 .. Len(g.outputs) : g.outputs[i] \in set
         /\ \A w \in set : IsResult(g, w) => OperandsIn(g, w, set)
<1>1. PICK n, base, seq : /\ n = Len(g.nodes) /\ seq = [k \in 1 .. Len(g.nodes) |-> k]
                          /\ base = {Representative(g, v) : v \in ToSet(g.outputs)}
  OBVIOUS
<1>2. GraphOK(g) /\ IsSequence(g.outputs) /\ n \in Nat /\ ReachedRoots(g) \subseteq Reached(g)
  BY <1>1, SoundTables, ReachedIs DEF Compilable, Sound, GraphOK, TablesOK
<1>3. set = GrowFold!Folded(g, base, seq)
  BY <1>1 DEF Reachable, FoldLeft, MapThenFoldSet, Max, GrowStep, GrowFold!Folded, GrowFold!FoldTable
<1>4. DOMAIN seq = 1 .. n /\ \A k \in 1 .. n : seq[k] = k
  BY <1>1, <1>2
<1>5. GrownIs(g, base, 0)
  <2>1. \A v : v \in ToSet(g.outputs) <=> \E i \in 1 .. Len(g.outputs) : g.outputs[i] = v
    BY <1>2, HoldsIsMember DEF Holds
  <2>2. \A i \in 1 .. Len(g.outputs) : g.outputs[i] \in Reached(g)
    BY <1>2, RootsExist
  <2>3. \A v \in ToSet(g.outputs) : Representative(g, v) = v /\ v \in Reached(g)
    BY <2>1, <2>2, ReachedValue
  <2>4. base = ToSet(g.outputs)
    BY <1>1, <2>3
  <2>5. \A w \in base : IsResult(g, w) => g.values[w].producer \in 1 .. n
    BY <1>1, <2>3, <2>4, ReachedValue DEF MadeBy
  <2>6. \A w \in base : IsResult(g, w) => ~(g.values[w].producer > Len(g.nodes) - 0)
    BY <1>1, <1>2, <2>5
  <2> QED BY <2>1, <2>2, <2>3, <2>4, <2>6 DEF GrownIs
<1>6. ASSUME NEW k \in 1 .. n, NEW a, GrownIs(g, a, k - 1) PROVE GrownIs(g, GrowStep(g, a, seq[k]), k)
  <2>1. PICK j, t : j = seq[k] /\ t = GrowStep(g, a, j)
    OBVIOUS
  <2>2. /\ a \subseteq Reached(g) /\ \A i \in 1 .. Len(g.outputs) : g.outputs[i] \in a
        /\ \A w \in a : IsResult(g, w) /\ g.values[w].producer > n - (k - 1) => OperandsIn(g, w, a)
    BY <1>1, <1>6 DEF GrownIs
  <2>3. /\ a \subseteq t /\ t \subseteq Reached(g)
        /\ \A u \in a : IsResult(g, u) => OperandsIn(g, u, t)
        /\ \A w \in t : w \in a \/ \E u \in a : /\ IsResult(g, u)
                                                /\ \E i \in 1 .. Len(ProducerOf(g, u).inputs) : ProducerOf(g, u).inputs[i] = w
    <3>1. a \subseteq Reached(g) /\ Compilable(g)
      BY <2>2
    <3> QED BY <2>1, <3>1, GrowAdds, Zenon
  <2>4. ASSUME NEW w \in t, IsResult(g, w), g.values[w].producer > n - k PROVE OperandsIn(g, w, t)
    <3>1. CASE w \in a
      BY <2>3, <2>4, <3>1
    <3>2. CASE w \notin a
      <4>1. PICK u \in a : IsResult(g, u) /\ \E i \in 1 .. Len(ProducerOf(g, u).inputs) : ProducerOf(g, u).inputs[i] = w
        BY <2>3, <3>2
      <4>2. PICK p : MadeBy(g, u, p)
        BY <2>2, <4>1, ReachedValue
      <4>3. p \in 1 .. n /\ g.values[u].producer = p
        BY <1>1, <4>2 DEF MadeBy
      <4>4. g.values[w].producer < p
        <5>1. PICK i \in 1 .. Len(g.nodes[p].inputs) : g.nodes[p].inputs[i] = w
          BY <4>1, <4>2 DEF MadeBy
        <5>2. p \in 1 .. Len(g.nodes) /\ ~g.nodes[p].dead /\ g.nodes[p].result \in Reached(g)
          BY <2>2, <4>2 DEF MadeBy
        <5> QED BY <2>4, <5>1, <5>2, ReachedOperand
      <4>5. g.values[w].producer \in 1 .. n
        BY <1>1, <2>3, <2>4, ReachedValue DEF MadeBy
      <4>6. p > n - (k - 1)
        BY <1>2, <2>4, <4>3, <4>4, <4>5
      <4>7. OperandsIn(g, u, a)
        BY <2>2, <4>1, <4>3, <4>6
      <4> QED BY <3>2, <4>1, <4>7 DEF OperandsIn
    <3> QED BY <3>1, <3>2
  <2> QED BY <1>1, <2>1, <2>2, <2>3, <2>4 DEF GrownIs
<1>7. GrownIs(g, set, n)
  BY <1>2, <1>3, <1>4, <1>5, <1>6, GrowFold!FoldLeftInduction
<1>8. \A w \in set : IsResult(g, w) => g.values[w].producer \in 1 .. n
  BY <1>1, <1>7, ReachedValue DEF MadeBy, GrownIs
<1>9. ASSUME NEW w \in set, IsResult(g, w) PROVE OperandsIn(g, w, set)
  <2>1. g.values[w].producer > n - n
    BY <1>2, <1>8, <1>9
  <2> QED BY <1>1, <1>7, <1>9, <2>1 DEF GrownIs
<1> QED BY <1>7, <1>9 DEF GrownIs

-----------------------------------------------------------------------------
(***************************************************************************)
(* The region of an output: live elementwise nodes at most as late as its  *)
(* root, with results that the outputs depend on; emitted with the root    *)
(* last.                                                                   *)
(***************************************************************************)

UnliftDef(c, v, f, k) ==
  IF k = 0 THEN Representative(c.graph, v)
  ELSE LET w == f[k - 1]
       IN IF w \in DOMAIN c.temps \/ ~IsResult(c.graph, w) THEN w
          ELSE IF ProducerOf(c.graph, w).op # "lift" THEN w
          ELSE Representative(c.graph, ProducerOf(c.graph, w).inputs[1])

UnliftIs(c, v, f, k) == f[k] \in Reachable(c.graph) /\ c.den[f[k]] = c.den[v]

Unlifting == INSTANCE InductionRules WITH Def <- UnliftDef, P <- UnliftIs, Step <- NoStep, Inv <- NoInv

\* Looking through lifts finds a value that denotes the same.
LEMMA UnliftedIs ==
  ASSUME NEW g, Compilable(g), NEW x, NEW den, Denotes(g, x, den), NEW temps,
         NEW v \in Reachable(g), NEW u, u = Unlifted(g, temps, v)
  PROVE  u \in Reachable(g) /\ den[u] = den[v]
<1>1. PICK n, c : n = Len(g.nodes) /\ c = [graph |-> g, temps |-> temps, den |-> den]
  OBVIOUS
<1> DEFINE walk == CHOOSE f : f = [k \in 0 .. n |-> UnliftDef(c, v, f, k)]
<1>2. c.graph = g /\ c.temps = temps /\ c.den = den
  BY <1>1
<1>3. u = walk[n]
  BY <1>1, <1>2 DEF Unlifted, UnliftDef
<1>4. walk = CHOOSE f : f = [k \in 0 .. n |-> UnliftDef(c, v, f, k)]
  OBVIOUS
<1>5. n \in Nat /\ n \in Int /\ 0 \in Int
  BY <1>1, SoundTables DEF Compilable, Sound
<1> HIDE DEF walk
<1>6. walk = [k \in 0 .. n |-> UnliftDef(c, v, walk, k)]
  <2>1. Unlifting!LookBack(c, v, 0, n)
    <3> SUFFICES ASSUME NEW k \in 0 .. n, NEW r, NEW t, \A j \in 0 .. k - 1 : r[j] = t[j]
                 PROVE  UnliftDef(c, v, r, k) = UnliftDef(c, v, t, k)
      BY DEF Unlifting!LookBack
    <3>1. k # 0 => r[k - 1] = t[k - 1]
      BY <1>5
    <3> QED BY <3>1 DEF UnliftDef
  <2> QED BY <1>4, <1>5, <2>1, Unlifting!RecursionEquation
<1>7. Reachable(g) \subseteq Reached(g) /\ \A w \in Reachable(g) : IsResult(g, w) => OperandsIn(g, w, Reachable(g))
  BY ReachableIs
<1>8. ASSUME NEW k \in 0 .. n, \A j \in 0 .. k - 1 : UnliftIs(c, v, walk, j)
      PROVE  UnliftIs(c, v, walk, k)
  <2>1. walk[k] = UnliftDef(c, v, walk, k)
    BY <1>6
  <2>2. CASE k = 0
    <3>1. walk[k] = v
      BY <1>2, <1>7, <2>1, <2>2, ReachedValue DEF UnliftDef
    <3> QED BY <1>2, <3>1 DEF UnliftIs
  <2>3. CASE k # 0
    <3>1. PICK w : w = walk[k - 1]
      OBVIOUS
    <3>2. w \in Reachable(g) /\ den[w] = den[v]
      BY <1>2, <1>5, <1>8, <2>3, <3>1 DEF UnliftIs
    <3>3. CASE w \in DOMAIN temps \/ ~IsResult(g, w) \/ ProducerOf(g, w).op # "lift"
      <4>1. walk[k] = w
        BY <1>2, <2>1, <2>3, <3>1, <3>3 DEF UnliftDef
      <4> QED BY <1>2, <3>2, <4>1 DEF UnliftIs
    <3>4. CASE ~(w \in DOMAIN temps \/ ~IsResult(g, w) \/ ProducerOf(g, w).op # "lift")
      <4>1. PICK a : a = ProducerOf(g, w).inputs[1]
        OBVIOUS
      <4>2. w \in 1 .. Len(g.values) /\ IsResult(g, w) /\ ProducerOf(g, w).op = "lift"
        BY <1>7, <3>2, <3>4, ReachedValue
      <4>3. 1 \in 1 .. Len(ProducerOf(g, w).inputs)
        BY <4>2, ProducerInputs DEF Compilable, Sound
      <4>4. a \in Reachable(g)
        BY <1>7, <3>2, <4>1, <4>2, <4>3 DEF OperandsIn
      <4>5. walk[k] = a
        <5>1. walk[k] = Representative(g, a)
          BY <1>2, <2>1, <2>3, <3>1, <3>4, <4>1 DEF UnliftDef
        <5> QED BY <1>7, <4>4, <5>1, ReachedValue
      <4>6. den[w] = den[a]
        <5>1. den[w] = NodeValue(ProducerOf(g, w), den)
          BY <4>2 DEF Denotes
        <5> QED BY <4>1, <4>2, <5>1 DEF NodeValue, EvalScalar
      <4> QED BY <1>2, <3>2, <4>4, <4>5, <4>6 DEF UnliftIs
    <3> QED BY <3>3, <3>4
  <2> QED BY <2>2, <2>3
<1>9. \A k \in 0 .. n : UnliftIs(c, v, walk, k)
  BY <1>5, <1>8, Unlifting!RecursionInduction
<1>10. UnliftIs(c, v, walk, n)
  BY <1>5, <1>9
<1> QED BY <1>2, <1>3, <1>10 DEF UnliftIs

\* A node that may be in the region of the root.
RegionNode(g, root, n) ==
  /\ n \in 1 .. Len(g.nodes) /\ ~g.nodes[n].dead /\ g.nodes[n].result \in Reachable(g)
  /\ n <= root /\ Elementwise(g.nodes[n].op)

\* What is opened after a node of the region.
LEMMA FusibleIs ==
  ASSUME NEW g, Compilable(g), NEW groups, NEW root, NEW n, root \in Nat, RegionNode(g, root, n),
         NEW t, t = FusibleProducers(g, groups, root, g.nodes[n])
  PROVE  IsSequence(t) /\ \A p : Holds(t, p) => RegionNode(g, root, p)
<1>1. PICK node : node = g.nodes[n]
  OBVIOUS
<1>2. PICK producers, S : /\ producers = [k \in DOMAIN node.inputs |-> Representative(g, node.inputs[k])]
                          /\ S = {v \in DOMAIN g.values : IsResult(g, v)}
  OBVIOUS
<1>3. PICK results, P : /\ results = Within(producers, S)
                        /\ P = {p \in DOMAIN g.nodes : Elementwise(g.nodes[p].op) /\ SameRegion(groups, root, p)}
  OBVIOUS
<1>4. PICK made : made = [k \in DOMAIN results |-> g.values[results[k]].producer]
  OBVIOUS
<1>5. t = Within(made, P)
  BY <1>1, <1>2, <1>3, <1>4 DEF FusibleProducers
<1>6. PICK l : l = Len(node.inputs)
  OBVIOUS
<1>7. DOMAIN node.inputs = 1 .. l /\ l \in Nat
  <2>1. IsSequence(node.inputs)
    BY <1>1 DEF RegionNode, Compilable, Sound, GraphOK, NodesOK, NodeOver
  <2> QED BY <1>6, <2>1, SequenceOfItsItems DEF IsSequence
<1>8. \A k \in 1 .. l : producers[k] = node.inputs[k] /\ node.inputs[k] \in Reachable(g)
  <2>1. node.result \in Reachable(g) /\ IsResult(g, node.result) /\ ProducerOf(g, node.result) = node
    BY <1>1, LiveResult DEF RegionNode, Compilable
  <2>2. \A k \in 1 .. l : node.inputs[k] \in Reachable(g)
    BY <1>6, <2>1, ReachableIs DEF OperandsIn
  <2>3. \A k \in 1 .. l : Representative(g, node.inputs[k]) = node.inputs[k]
    BY <2>2, ReachableIs, ReachedValue
  <2> QED BY <1>2, <1>7, <2>2, <2>3
<1>9. IsSequence(producers) /\ Len(producers) = l
  BY <1>2, <1>7, FunctionIsSequence
<1>10. IsSequence(results) /\ \A x : Holds(results, x) <=> Holds(producers, x) /\ x \in S
  BY <1>3, <1>9, WithinSelects
<1>11. IsSequence(made) /\ \A p : Holds(made, p) => \E x : Holds(results, x) /\ p = g.values[x].producer
  <2>1. DOMAIN results = 1 .. Len(results) /\ Len(results) \in Nat
    BY <1>10, SequenceOfItsItems DEF IsSequence
  <2>2. IsSequence(made) /\ Len(made) = Len(results)
    BY <1>4, <2>1, FunctionIsSequence
  <2> QED BY <1>4, <2>1, <2>2 DEF Holds
<1>12. IsSequence(t) /\ \A p : Holds(t, p) <=> Holds(made, p) /\ p \in P
  BY <1>5, <1>11, WithinSelects, SMTT(30)
<1>13. ASSUME NEW p, Holds(t, p) PROVE RegionNode(g, root, p)
  <2>1. PICK x : Holds(producers, x) /\ x \in S /\ p = g.values[x].producer
    BY <1>10, <1>11, <1>12, <1>13
  <2>2. PICK k \in 1 .. l : x = node.inputs[k] /\ x \in Reachable(g)
    BY <1>8, <1>9, <2>1 DEF Holds
  <2>3. IsResult(g, x) /\ Elementwise(g.nodes[p].op)
    BY <1>2, <1>3, <1>12, <1>13, <2>1
  <2>4. MadeBy(g, x, p)
    <3>1. x \in Reached(g)
      BY <2>2, ReachableIs
    <3>2. PICK q : MadeBy(g, x, q)
      BY <2>3, <3>1, ReachedValue, SMTT(30)
    <3> QED BY <2>1, <3>2 DEF MadeBy
  <2>5. p < n
    <3>1. n \in 1 .. Len(g.nodes) /\ ~g.nodes[n].dead /\ g.nodes[n].result \in Reached(g)
      BY ReachableIs DEF RegionNode
    <3> QED BY <1>1, <1>6, <2>1, <2>2, <2>3, <3>1, ReachedOperand
  <2>6. p <= root
    <3>1. p \in Int /\ n \in Int /\ n <= root
      BY <2>4 DEF MadeBy, RegionNode
    <3> QED BY <2>5, <3>1
  <2> QED BY <2>2, <2>3, <2>4, <2>6 DEF MadeBy, RegionNode
<1> QED BY <1>12, <1>13

GatherStep(c, s, k) == Gather(c.graph, c.groups, c.root, s)

GatherIs(c, s, k) ==
  /\ s = [open |-> s.open, chain |-> s.chain]
  /\ IsSequence(s.open) /\ IsSequence(s.chain) /\ Distinct(s.chain)
  /\ \A n : Holds(s.open, n) \/ Holds(s.chain, n) => RegionNode(c.graph, c.root, n)
  /\ IF k = 0 THEN s.open = <<c.root>> /\ s.chain = <<>> ELSE Holds(s.chain, c.root)

GatherFold == INSTANCE InductionRules WITH Step <- GatherStep, Inv <- GatherIs, Def <- NoDef, P <- NoP

\* A sequence without its last item.
LEMMA FrontIs ==
  ASSUME NEW s, IsSequence(s), s # <<>>
  PROVE  /\ IsSequence(Front(s)) /\ Holds(s, Last(s)) /\ Last(s) = s[Len(s)]
         /\ \A x : Holds(Front(s), x) => Holds(s, x)
<1>1. PICK n, S : n = Len(s) /\ S = {s[k] : k \in 1 .. Len(s)}
  OBVIOUS
<1>2. n \in Nat /\ s \in Seq(S) /\ DOMAIN s = 1 .. n
  BY <1>1, SequenceOfItsItems DEF IsSequence
<1>3. n > 0
  BY <1>1, <1>2
<1>4. Front(s) = [k \in 1 .. n - 1 |-> s[k]]
  BY <1>1, <1>2, <1>3 DEF Front
<1>5. IsSequence(Front(s)) /\ Len(Front(s)) = n - 1
  BY <1>3, <1>2, <1>4, FunctionIsSequence
<1>6. Last(s) = s[n]
  BY <1>1 DEF Last
<1> QED BY <1>1, <1>2, <1>3, <1>4, <1>5, <1>6 DEF Holds

\* A node off the stack of open nodes.
LEMMA GatherKeeps ==
  ASSUME NEW g, Compilable(g), NEW groups, NEW root, RegionNode(g, root, root),
         NEW c, c = [graph |-> g, groups |-> groups, root |-> root],
         NEW k \in Nat, k > 0, NEW s, GatherIs(c, s, k - 1)
  PROVE  GatherIs(c, GatherStep(c, s, k), k)
<1>1. c.graph = g /\ c.groups = groups /\ c.root = root /\ root \in Nat
  BY DEF RegionNode
<1>2. PICK open, chain : open = s.open /\ chain = s.chain
  OBVIOUS
<1>3. /\ s = [open |-> open, chain |-> chain]
      /\ IsSequence(open) /\ IsSequence(chain) /\ Distinct(chain)
      /\ \A n : Holds(open, n) \/ Holds(chain, n) => RegionNode(g, root, n)
      /\ IF k = 1 THEN open = <<root>> /\ chain = <<>> ELSE Holds(chain, root)
  <2>1. k - 1 = 0 <=> k = 1
    OBVIOUS
  <2> QED BY <1>1, <1>2, <2>1 DEF GatherIs
<1>4. PICK t : t = GatherStep(c, s, k)
  OBVIOUS
<1>5. t = Gather(g, groups, root, s)
  BY <1>1, <1>4 DEF GatherStep
<1>6. CASE open = <<>> \/ Len(chain) > FusionDepth
  <2>1. t = s
    BY <1>2, <1>5, <1>6 DEF Gather
  <2>2. k # 1
    <3>1. ASSUME k = 1 PROVE FALSE
      <4>1. open = <<root>> /\ chain = <<>>
        BY <1>3, <3>1
      <4>2. Len(chain) = 0 /\ ~(0 > FusionDepth) /\ open # <<>>
        BY <4>1, EmptyIsSequence, FusionDepthAssumption
      <4> QED BY <1>6, <4>2
    <3> QED BY <3>1
  <2>3. k # 0 /\ t.open = open /\ t.chain = chain
    BY <1>2, <2>1
  <2> QED BY <1>1, <1>3, <1>4, <2>1, <2>2, <2>3 DEF GatherIs
<1>7. CASE ~(open = <<>> \/ Len(chain) > FusionDepth)
  <2>1. PICK node, front : node = Last(open) /\ front = Front(open)
    OBVIOUS
  <2>2. IsSequence(front) /\ Holds(open, node) /\ \A n : Holds(front, n) => Holds(open, n)
    BY <1>3, <1>7, <2>1, FrontIs
  <2>3. node \in ToSet(chain) <=> Holds(chain, node)
    BY <1>3, HoldsIsMember
  <2>4. RegionNode(g, root, node)
    BY <1>3, <2>2
  <2>5. CASE Holds(chain, node)
    <3>1. t = [open |-> front, chain |-> chain]
      BY <1>2, <1>3, <1>5, <1>7, <2>1, <2>3, <2>5 DEF Gather
    <3>2. k # 1
      <4>1. ~Holds(<<>>, node)
        BY EmptyIsSequence DEF Holds
      <4> QED BY <1>3, <2>5, <4>1
    <3>3. k # 0 /\ t.open = front /\ t.chain = chain
      BY <3>1
    <3> QED BY <1>1, <1>3, <1>4, <2>2, <3>1, <3>2, <3>3 DEF GatherIs
  <2>6. CASE ~Holds(chain, node)
    <3>1. PICK more, longer, opened : /\ more = FusibleProducers(g, groups, root, g.nodes[node])
                                      /\ longer = Append(chain, node) /\ opened = front \o more
      OBVIOUS
    <3>2. t = [open |-> opened, chain |-> longer]
      BY <1>2, <1>5, <1>7, <2>1, <2>3, <2>6, <3>1 DEF Gather
    <3>3. IsSequence(more) /\ \A n : Holds(more, n) => RegionNode(g, root, n)
      BY <1>1, <2>4, <3>1, FusibleIs
    <3>4. IsSequence(opened) /\ \A n : Holds(opened, n) <=> Holds(front, n) \/ Holds(more, n)
      <4>1. IsSequence(front)
        BY <2>2
      <4>2. IsSequence(more)
        BY <3>3
      <4>3. opened = front \o more
        BY <3>1
      <4> QED BY <4>1, <4>2, <4>3, ConcatHolds, Zenon
    <3>5. /\ IsSequence(longer) /\ Distinct(longer)
          /\ \A n : Holds(longer, n) <=> Holds(chain, n) \/ n = node
      BY <1>3, <2>6, <3>1, AppendHolds, AppendIsSequence
    <3>6. Holds(longer, root)
      <4>1. CASE k = 1
        <5>1. open = <<root>> /\ Len(open) = 1 /\ open[1] = root
          BY <1>3, <4>1
        <5>2. node = root
          BY <2>1, <5>1 DEF Last
        <5> QED BY <3>5, <5>2
      <4>2. CASE k # 1
        BY <1>3, <3>5, <4>2
      <4> QED BY <4>1, <4>2
    <3>7. t.open = opened /\ t.chain = longer /\ k # 0
      BY <3>2
    <3> QED BY <1>1, <1>3, <1>4, <2>2, <2>4, <3>2, <3>3, <3>4, <3>5, <3>6, <3>7 DEF GatherIs
  <2> QED BY <2>5, <2>6
<1> QED BY <1>6, <1>7

\* The region of a root.
LEMMA RegionIs ==
  ASSUME NEW g, Compilable(g), NEW groups, NEW root, RegionNode(g, root, root),
         NEW chain, chain = Region(g, groups, root)
  PROVE  /\ IsSequence(chain) /\ Distinct(chain) /\ Holds(chain, root)
         /\ \A n : Holds(chain, n) => RegionNode(g, root, n)
<1>1. PICK c, base, m, seq : /\ c = [graph |-> g, groups |-> groups, root |-> root]
                             /\ base = [open |-> <<root>>, chain |-> <<>>]
                             /\ m = 2 * Len(g.nodes) + 1 /\ seq = [k \in 1 .. m |-> k]
  OBVIOUS
<1>2. c.graph = g /\ c.groups = groups /\ c.root = root
  BY <1>1
<1>3. chain = GatherFold!Folded(c, base, seq).chain
  BY <1>1, <1>2 DEF Region, FoldLeft, MapThenFoldSet, Max, GatherStep, GatherFold!Folded, GatherFold!FoldTable
<1>4. m \in Nat /\ m > 0
  <2>1. Len(g.nodes) \in Nat
    BY SoundTables DEF Compilable, Sound
  <2> QED BY <1>1, <2>1
<1>5. DOMAIN seq = 1 .. m /\ \A k \in 1 .. m : seq[k] = k
  BY <1>1
<1>6. GatherIs(c, base, 0)
  <2>1. IsSequence(<<root>>) /\ \A n : Holds(<<root>>, n) <=> n = root
    <3>1. <<root>> \in Seq({root}) /\ Len(<<root>>) = 1 /\ <<root>>[1] = root /\ 1 .. 1 = {1}
      OBVIOUS
    <3>2. IsSequence(<<root>>)
      BY <3>1, SeqIsSequence
    <3> QED BY <3>1, <3>2 DEF Holds
  <2>2. IsSequence(<<>>) /\ Distinct(<<>>) /\ \A n : ~Holds(<<>>, n)
    BY EmptyIsSequence DEF Distinct, Holds
  <2>3. base.open = <<root>> /\ base.chain = <<>>
    BY <1>1
  <2> QED BY <1>1, <1>2, <2>1, <2>2, <2>3 DEF GatherIs
<1>7. ASSUME NEW k \in 1 .. m, NEW s, GatherIs(c, s, k - 1) PROVE GatherIs(c, GatherStep(c, s, seq[k]), k)
  <2>1. k \in Nat /\ k > 0
    BY <1>4
  <2>2. GatherIs(c, GatherStep(c, s, k), k)
    BY <1>1, <1>7, <2>1, GatherKeeps
  <2> QED BY <1>5, <2>2
<1>8. GatherIs(c, GatherFold!Folded(c, base, seq), m)
  BY <1>4, <1>5, <1>6, <1>7, GatherFold!FoldLeftInduction
<1>9. m # 0
  BY <1>4
<1> QED BY <1>2, <1>3, <1>8, <1>9 DEF GatherIs

\* A sequence without repetition is as long as the set of its items is large.
LEMMA DistinctLength ==
  ASSUME NEW s, IsSequence(s), Distinct(s)
  PROVE  Cardinality(ToSet(s)) = Len(s)
<1>1. PICK l : l = Len(s)
  OBVIOUS
<1>2. l \in Nat /\ DOMAIN s = 1 .. l /\ s = [k \in 1 .. l |-> s[k]]
  BY <1>1, SequenceOfItsItems DEF IsSequence
<1>3. \A x : x \in ToSet(s) <=> Holds(s, x)
  BY HoldsIsMember
<1>4. s \in Bijection(1 .. l, ToSet(s))
  <2>1. s \in [1 .. l -> ToSet(s)]
    BY <1>2 DEF ToSet
  <2>2. \A i, j \in 1 .. l : s[i] = s[j] => i = j
    BY <1>1 DEF Distinct
  <2>3. \A x \in ToSet(s) : \E k \in 1 .. l : s[k] = x
    BY <1>1, <1>3 DEF Holds
  <2> QED BY <2>1, <2>2, <2>3 DEF Bijection, Injection, Surjection, IsInjective
<1>5. ExistsBijection(1 .. l, ToSet(s))
  BY <1>4 DEF ExistsBijection
<1> QED BY <1>1, <1>2, <1>5, FS_CountingElements

\* What a selection of an ascending list has is ascending.
AscendsIs(s, list, k) ==
  /\ IsSequence(list) /\ Ascending(list)
  /\ \A i \in 1 .. Len(list) : \E j \in 1 .. k : s[j] = list[i]

AscendsFold == INSTANCE InductionRules WITH Step <- WithinStep, Inv <- AscendsIs, Def <- NoDef, P <- NoP

\* What Within selects from an ascending list is ascending.
LEMMA WithinAscends ==
  ASSUME NEW s, IsSequence(s), Ascending(s), NEW S, NEW t, t = Within(s, S)
  PROVE  Ascending(t)
<1>1. PICK n : n = Len(s)
  OBVIOUS
<1>2. t = AscendsFold!Folded(S, <<>>, s)
  BY DEF Within, FoldLeft, MapThenFoldSet, Max, WithinStep, AscendsFold!Folded, AscendsFold!FoldTable
<1>3. n \in Nat /\ DOMAIN s = 1 .. n
  BY <1>1, SequenceOfItsItems DEF IsSequence
<1>4. AscendsIs(s, <<>>, 0)
  BY EmptyIsSequence DEF AscendsIs, Ascending
<1>5. ASSUME NEW k \in 1 .. n, NEW list, AscendsIs(s, list, k - 1)
      PROVE  AscendsIs(s, WithinStep(S, list, s[k]), k)
  <2>1. /\ IsSequence(list) /\ Ascending(list)
        /\ \A i \in 1 .. Len(list) : \E j \in 1 .. k - 1 : s[j] = list[i]
    BY <1>5 DEF AscendsIs
  <2>2. k \in Nat /\ k \in 1 .. k /\ \A j \in 1 .. k - 1 : j \in 1 .. k /\ j \in 1 .. n /\ j < k
    BY <1>3
  <2>3. CASE s[k] \notin S
    <3>1. WithinStep(S, list, s[k]) = list
      BY <2>3 DEF WithinStep
    <3> QED BY <2>1, <2>2, <3>1 DEF AscendsIs
  <2>4. CASE s[k] \in S
    <3>1. PICK l, longer : l = Len(list) /\ longer = Append(list, s[k])
      OBVIOUS
    <3>2. /\ IsSequence(longer) /\ Len(longer) = l + 1 /\ l \in Nat /\ longer[l + 1] = s[k]
          /\ \A i \in 1 .. l : longer[i] = list[i]
      <4>1. IsSequence(list)
        BY <2>1
      <4>2. l = Len(list)
        BY <3>1
      <4>3. longer = Append(list, s[k])
        BY <3>1
      <4>4. IsSequence(longer)
        BY <4>1, <4>2, <4>3, SequenceAppend
      <4>5. Len(longer) = l + 1
        BY <4>1, <4>2, <4>3, SequenceAppend
      <4>6. l \in Nat
        BY <4>1, <4>2, <4>3, SequenceAppend
      <4>7. longer[l + 1] = s[k]
        BY <4>1, <4>2, <4>3, SequenceAppend
      <4>8. \A i \in 1 .. l : longer[i] = list[i]
        BY <4>1, <4>2, <4>3, SequenceAppend
      <4> QED BY <4>4, <4>5, <4>6, <4>7, <4>8
    <3>3. \A i \in 1 .. l : list[i] < s[k]
      BY <1>1, <2>1, <2>2, <3>1 DEF Ascending
    <3>4. \A i \in 1 .. l + 1 : i \in 1 .. l \/ i = l + 1
      BY <3>2
    <3>5. ASSUME NEW i \in 1 .. l + 1, NEW j \in 1 .. l + 1, i < j PROVE longer[i] < longer[j]
      <4>1. i \in 1 .. l
        BY <3>2, <3>5
      <4>2. CASE j = l + 1
        BY <3>2, <3>3, <4>1, <4>2
      <4>3. CASE j \in 1 .. l
        <5>1. list[i] < list[j]
          BY <2>1, <3>1, <3>5, <4>1, <4>3 DEF Ascending
        <5> QED BY <3>2, <4>1, <4>3, <5>1
      <4> QED BY <3>4, <4>2, <4>3
    <3>6. ASSUME NEW i \in 1 .. l + 1 PROVE \E j \in 1 .. k : s[j] = longer[i]
      <4>1. CASE i = l + 1
        BY <2>2, <3>2, <4>1
      <4>2. CASE i \in 1 .. l
        BY <2>1, <2>2, <3>1, <3>2, <4>2
      <4> QED BY <3>4, <4>1, <4>2
    <3>7. AscendsIs(s, longer, k)
      BY <3>2, <3>5, <3>6 DEF AscendsIs, Ascending
    <3>8. WithinStep(S, list, s[k]) = longer
      BY <2>4, <3>1 DEF WithinStep
    <3> QED BY <3>7, <3>8
  <2> QED BY <2>3, <2>4
<1>6. AscendsIs(s, t, n)
  BY <1>2, <1>3, <1>4, <1>5, AscendsFold!FoldLeftInduction
<1> QED BY <1>6 DEF AscendsIs

\* The nodes of a region in the order in which they are emitted.
LEMMA RegionOrderIs ==
  ASSUME NEW g, Compilable(g), NEW groups, NEW root, RegionNode(g, root, root),
         NEW order, order = RegionOrder(g, groups, root), NEW l, l = Len(order)
  PROVE  /\ IsSequence(order) /\ l \in Nat /\ l > 0 /\ order[l] = root
         /\ \A k \in 1 .. l : RegionNode(g, root, order[k])
<1>1. PICK chain, topo, ordered : /\ chain = Region(g, groups, root) /\ topo = TopoOrder(g)
                                  /\ ordered = Within(topo, ToSet(chain))
  OBVIOUS
<1>2. /\ IsSequence(chain) /\ Distinct(chain) /\ Holds(chain, root)
      /\ \A n : Holds(chain, n) => RegionNode(g, root, n)
  BY <1>1, RegionIs
<1>3. TablesOK(g)
  BY DEF Compilable, Sound, GraphOK
<1>4. /\ IsSequence(topo) /\ Distinct(topo) /\ Ascending(topo)
      /\ \A n : Holds(topo, n) <=> n \in 1 .. Len(g.nodes) /\ ~g.nodes[n].dead
  BY <1>1, <1>3, TopoOrderIs, TopoOrderAscends
<1>5. \A n : n \in ToSet(chain) <=> Holds(chain, n)
  BY <1>2, HoldsIsMember
<1>6. /\ IsSequence(ordered) /\ Distinct(ordered)
      /\ \A n : Holds(ordered, n) <=> Holds(topo, n) /\ n \in ToSet(chain)
  BY <1>1, <1>4, WithinSelects
<1>7. \A n : Holds(ordered, n) <=> Holds(chain, n)
  BY <1>2, <1>4, <1>5, <1>6 DEF RegionNode
<1>8. order = ordered
  <2>1. ToSet(ordered) = ToSet(chain)
    BY <1>5, <1>6, <1>7, HoldsIsMember
  <2>2. Len(ordered) = Len(chain)
    BY <1>2, <1>6, <2>1, DistinctLength
  <2> QED BY <1>1, <2>2 DEF RegionOrder
<1>9. \A k \in 1 .. l : RegionNode(g, root, order[k])
  BY <1>2, <1>7, <1>8 DEF Holds
<1>10. PICK i \in 1 .. l : order[i] = root
  BY <1>2, <1>7, <1>8 DEF Holds
<1>11. l \in Nat /\ l > 0
  BY <1>6, <1>8, <1>10 DEF IsSequence
<1>12. Ascending(order)
  BY <1>1, <1>4, <1>8, WithinAscends
<1>13. order[l] = root
  <2>1. ASSUME i # l PROVE FALSE
    <3>1. i < l /\ l \in 1 .. l
      BY <1>10, <1>11, <2>1
    <3>2. root < order[l]
      BY <1>10, <1>12, <3>1 DEF Ascending
    <3>3. order[l] <= root /\ order[l] \in Int /\ root \in Int
      BY <1>9, <3>1 DEF RegionNode
    <3> QED BY <3>2, <3>3
  <2> QED BY <1>10, <2>1
<1> QED BY <1>6, <1>8, <1>9, <1>11, <1>13

-----------------------------------------------------------------------------
(***************************************************************************)
(* The expressions of a region: the i-th one computes what the result of   *)
(* the i-th node denotes, from constants, from the expressions before it   *)
(* and from scalar parameters.                                             *)
(***************************************************************************)

EmissionForm(s) ==
  s = [ok |-> s.ok, exprs |-> s.exprs, temps |-> s.temps, elems |-> s.elems,
       params |-> s.params, operands |-> s.operands]

\* No tensor that the outputs depend on is an input.
NoTensorInput(g, tensors) ==
  \A v \in Reachable(g) : g.values[v].kind = "placeholder" => v \notin tensors

\* An operand that reads y, where the first m temporaries are those of made.
Fetches(den, made, m, params, o, y) ==
  \/ o.kind = "const" /\ o.at = y
  \/ o.kind = "temp" /\ o.at \in 1 .. m /\ made[o.at] = y
  \/ o.kind = "param" /\ o.at \in 1 .. Len(params) /\ den[params[o.at]] = y

\* A result that has a temporary denotes what the temporary holds.
TempsAre(g, den, made, temps, m) ==
  \A v \in DOMAIN temps : IsResult(g, v) /\ temps[v] \in 1 .. m /\ made[temps[v]] = den[v]

Lengthened(slots, longer) ==
  /\ IsSequence(longer)
  /\ \A k \in 1 .. Len(slots) : k \in 1 .. Len(longer) /\ longer[k] = slots[k]

\* Scalar parameters: placeholders, each of them once.
ScalarSlots(g, params) ==
  /\ IsSequence(params) /\ Distinct(params)
  /\ \A v : Holds(params, v) => v \in 1 .. Len(g.values) /\ g.values[v].kind = "placeholder"

\* One more scalar parameter, if the value has none.
LEMMA ScalarAdded ==
  ASSUME NEW g, NEW params, ScalarSlots(g, params), NEW v \in 1 .. Len(g.values), g.values[v].kind = "placeholder",
         NEW t, t = WithSlot(params, v)
  PROVE  ScalarSlots(g, t)
<1>1. v \in ToSet(params) <=> Holds(params, v)
  BY HoldsIsMember DEF ScalarSlots
<1>2. CASE Holds(params, v)
  BY <1>1, <1>2 DEF WithSlot
<1>3. CASE ~Holds(params, v)
  <2>1. t = Append(params, v)
    BY <1>1, <1>3 DEF WithSlot
  <2>2. IsSequence(params) /\ Distinct(params)
    BY DEF ScalarSlots
  <2>3. IsSequence(t) /\ Distinct(t) /\ \A w : Holds(t, w) <=> Holds(params, w) \/ w = v
    BY <1>3, <2>1, <2>2, AppendHolds, SequenceAppend
  <2> QED BY <2>3 DEF ScalarSlots
<1> QED BY <1>2, <1>3

\* The slot of a value.
LEMMA SlotIs ==
  ASSUME NEW slots, IsSequence(slots), NEW v, NEW t, t = WithSlot(slots, v)
  PROVE  Lengthened(slots, t) /\ Slot(t, v) \in 1 .. Len(t) /\ t[Slot(t, v)] = v
<1>1. v \in ToSet(slots) <=> Holds(slots, v)
  BY HoldsIsMember
<1>2. Lengthened(slots, t) /\ Holds(t, v)
  <2>1. CASE v \in ToSet(slots)
    BY <1>1, <2>1 DEF WithSlot, Lengthened
  <2>2. CASE v \notin ToSet(slots)
    <3>1. PICK n : n = Len(slots)
      OBVIOUS
    <3>2. t = Append(slots, v)
      BY <2>2 DEF WithSlot
    <3>3. IsSequence(t)
      BY <3>1, <3>2, SequenceAppend
    <3>4. Len(t) = n + 1 /\ n \in Nat
      BY <3>1, <3>2, SequenceAppend
    <3>5. t[n + 1] = v
      BY <3>1, <3>2, SequenceAppend
    <3>6. \A k \in 1 .. n : t[k] = slots[k]
      BY <3>1, <3>2, SequenceAppend
    <3> QED BY <3>1, <3>3, <3>4, <3>5, <3>6 DEF Lengthened, Holds
  <2> QED BY <2>1, <2>2
<1>3. DOMAIN t = 1 .. Len(t)
  BY <1>2, SequenceOfItsItems DEF Lengthened
<1>4. \E k \in DOMAIN t : t[k] = v
  BY <1>2, <1>3 DEF Holds
<1>5. Slot(t, v) \in DOMAIN t /\ t[Slot(t, v)] = v
  BY <1>4 DEF Slot
<1> QED BY <1>2, <1>3, <1>5

\* What an operand reads stays when parameters are added.
LEMMA FetchesOn ==
  ASSUME NEW den, NEW made, NEW m, NEW params, NEW longer, Lengthened(params, longer), NEW o, NEW y,
         Fetches(den, made, m, params, o, y)
  PROVE  Fetches(den, made, m, longer, o, y)
BY DEF Fetches, Lengthened

\* One more operand.
LEMMA WithOperandIs ==
  ASSUME NEW s, EmissionForm(s), NEW kind, NEW place, NEW t, t = WithOperand(s, kind, place)
  PROVE  /\ EmissionForm(t) /\ t.ok = s.ok /\ t.exprs = s.exprs /\ t.temps = s.temps /\ t.elems = s.elems
         /\ t.params = s.params /\ t.operands = Append(s.operands, [kind |-> kind, at |-> place])
<1>1. PICK o : o = Append(s.operands, [kind |-> kind, at |-> place])
  OBVIOUS
<1>2. t = [s EXCEPT !.operands = o]
  BY <1>1 DEF WithOperand, KernelOperand
<1>3. t = [ok |-> s.ok, exprs |-> s.exprs, temps |-> s.temps, elems |-> s.elems,
           params |-> s.params, operands |-> o]
  BY <1>2 DEF EmissionForm
<1> QED BY <1>1, <1>3 DEF EmissionForm

\* A lowering that was refused stays refused when an operand is added to it.
LEMMA RefusedStays ==
  ASSUME NEW s, EmissionForm(s), ~s.ok, NEW kind, NEW place, NEW t, t = WithOperand(s, kind, place)
  PROVE  EmissionForm(t) /\ ~t.ok
<1>1. PICK o : o = Append(s.operands, [kind |-> kind, at |-> place])
  OBVIOUS
<1>2. t = [s EXCEPT !.operands = o]
  BY <1>1 DEF WithOperand, KernelOperand
<1>3. t = [ok |-> s.ok, exprs |-> s.exprs, temps |-> s.temps, elems |-> s.elems,
           params |-> s.params, operands |-> o]
  BY <1>2 DEF EmissionForm
<1> QED BY <1>3 DEF EmissionForm

\* After j operands of a node: s is the state before the node.
ResolveIs(d, u, j) ==
  /\ EmissionForm(u)
  /\ u.ok =>
       /\ d.s.ok /\ u.exprs = d.s.exprs /\ u.temps = d.s.temps /\ Lengthened(d.s.params, u.params)
       /\ ScalarSlots(d.graph, u.params) /\ IsSequence(u.operands) /\ Len(u.operands) = j
       /\ \A i \in 1 .. j : Fetches(d.den, d.made, d.m, u.params, u.operands[i], d.den[d.inputs[i]])

ResolveStep(c, u, input) == Resolve(c.graph, c.tensors, u, input)

ResolveFold == INSTANCE InductionRules WITH Step <- ResolveStep, Inv <- ResolveIs, Def <- NoDef, P <- NoP

\* A state to which one operand has been added, and slots perhaps.
LEMMA OperandAdded ==
  ASSUME NEW d, NEW j \in Nat, j > 0, NEW u, ResolveIs(d, u, j - 1), u.ok,
         NEW w, EmissionForm(w), w.exprs = u.exprs, w.temps = u.temps, w.operands = u.operands,
         Lengthened(u.params, w.params), ScalarSlots(d.graph, w.params),
         NEW kind, NEW place, Fetches(d.den, d.made, d.m, w.params, [kind |-> kind, at |-> place], d.den[d.inputs[j]]),
         NEW t, t = WithOperand(w, kind, place)
  PROVE  ResolveIs(d, t, j)
<1>1. /\ d.s.ok /\ u.exprs = d.s.exprs /\ u.temps = d.s.temps /\ Lengthened(d.s.params, u.params)
      /\ IsSequence(u.operands) /\ Len(u.operands) = j - 1
      /\ \A i \in 1 .. j - 1 : Fetches(d.den, d.made, d.m, u.params, u.operands[i], d.den[d.inputs[i]])
  BY DEF ResolveIs
<1>2. PICK o : o = [kind |-> kind, at |-> place]
  OBVIOUS
<1>3. /\ EmissionForm(t) /\ t.exprs = u.exprs /\ t.temps = u.temps /\ t.params = w.params
      /\ t.operands = Append(u.operands, o)
  BY <1>2, WithOperandIs, SMTT(30)
<1>4. PICK list, more, l : list = u.operands /\ more = t.operands /\ l = j - 1
  OBVIOUS
<1>5. IsSequence(list) /\ l = Len(list) /\ more = Append(list, o)
  BY <1>1, <1>3, <1>4
<1>6. IsSequence(more)
  BY <1>5, SequenceAppend
<1>7. Len(more) = l + 1
  BY <1>5, SequenceAppend
<1>8. more[l + 1] = o
  BY <1>5, SequenceAppend
<1>9. \A i \in 1 .. l : more[i] = list[i]
  BY <1>5, SequenceAppend
<1>10. Lengthened(d.s.params, t.params) /\ ScalarSlots(d.graph, t.params)
  BY <1>1, <1>3 DEF Lengthened
<1>11. ASSUME NEW i \in 1 .. j
       PROVE  Fetches(d.den, d.made, d.m, t.params, more[i], d.den[d.inputs[i]])
  <2>1. CASE i = j
    <3>1. more[j] = o
      BY <1>4, <1>8
    <3> QED BY <1>2, <1>3, <2>1, <3>1
  <2>2. CASE i # j
    <3>1. i \in 1 .. j - 1 /\ more[i] = list[i]
      BY <1>4, <1>9, <2>2
    <3>2. Fetches(d.den, d.made, d.m, u.params, more[i], d.den[d.inputs[i]])
      BY <1>1, <1>4, <3>1
    <3> QED BY <1>3, <3>2, FetchesOn
  <2> QED BY <2>1, <2>2
<1>12. Len(more) = j
  BY <1>4, <1>7
<1> QED BY <1>1, <1>3, <1>4, <1>6, <1>10, <1>11, <1>12 DEF ResolveIs

\* One more operand of the node, or a refusal.
LEMMA ResolveKeeps ==
  ASSUME NEW g, Compilable(g), NEW x, NEW den, Denotes(g, x, den),
         NEW tensors, NoTensorInput(g, tensors), NEW made, NEW m, NEW s, NEW inputs,
         s.ok => TempsAre(g, den, made, s.temps, m),
         NEW j \in Nat, j > 0, inputs[j] \in Reachable(g),
         NEW d, d = [graph |-> g, den |-> den, made |-> made, m |-> m, s |-> s, inputs |-> inputs],
         NEW u, ResolveIs(d, u, j - 1),
         NEW t, t = Resolve(g, tensors, u, inputs[j])
  PROVE  ResolveIs(d, t, j)
<1>1. d.graph = g /\ d.den = den /\ d.made = made /\ d.m = m /\ d.s = s /\ d.inputs = inputs
  OBVIOUS
<1>2. EmissionForm(u)
  BY DEF ResolveIs
<1>3. PICK v : v = Unlifted(g, u.temps, inputs[j])
  OBVIOUS
<1>4. v \in Reachable(g) /\ den[v] = den[inputs[j]]
  BY <1>3, UnliftedIs
<1>5. v \in 1 .. Len(g.values) /\ g.values[v].kind \in {"placeholder", "constant", "result"}
  <2>1. v \in 1 .. Len(g.values)
    BY <1>4, ReachableIs, ReachedValue
  <2> QED BY <2>1 DEF Compilable, Sound, LinksOK
<1>6. PICK refused : refused = [u EXCEPT !.ok = FALSE]
  OBVIOUS
<1>7. EmissionForm(refused) /\ ~refused.ok
  <2>1. refused = [ok |-> FALSE, exprs |-> u.exprs, temps |-> u.temps, elems |-> u.elems,
                   params |-> u.params, operands |-> u.operands]
    BY <1>2, <1>6 DEF EmissionForm
  <2> QED BY <2>1 DEF EmissionForm
<1>8. PICK params, elems, slotted, measured :
        /\ params = WithSlot(u.params, v) /\ slotted = [u EXCEPT !.params = params]
        /\ elems = WithSlot(u.elems, v) /\ measured = [u EXCEPT !.elems = elems]
  OBVIOUS
<1>9. /\ EmissionForm(slotted) /\ slotted.ok = u.ok /\ slotted.exprs = u.exprs /\ slotted.temps = u.temps
      /\ slotted.params = params /\ slotted.operands = u.operands
  <2>1. slotted = [ok |-> u.ok, exprs |-> u.exprs, temps |-> u.temps, elems |-> u.elems,
                   params |-> params, operands |-> u.operands]
    BY <1>2, <1>8 DEF EmissionForm
  <2> QED BY <2>1 DEF EmissionForm
<1>10. EmissionForm(measured) /\ measured.ok = u.ok
  <2>1. measured = [ok |-> u.ok, exprs |-> u.exprs, temps |-> u.temps, elems |-> elems,
                    params |-> u.params, operands |-> u.operands]
    BY <1>2, <1>8 DEF EmissionForm
  <2> QED BY <2>1 DEF EmissionForm
<1>11. t = CASE ~u.ok -> u
             [] v \in DOMAIN u.temps -> WithOperand(u, "temp", u.temps[v])
             [] v \notin DOMAIN u.temps /\ IsResult(g, v) -> refused
             [] g.values[v].kind = "constant" -> WithOperand(u, "const", g.values[v].payload)
             [] g.values[v].kind = "placeholder" /\ v \in tensors ->
                  IF v \notin ToSet(u.elems) /\ Len(u.elems) >= 2 THEN refused
                  ELSE WithOperand(measured, "elem", Slot(elems, v))
             [] g.values[v].kind = "placeholder" /\ v \notin tensors ->
                  WithOperand(slotted, "param", Slot(params, v))
  BY <1>3, <1>6, <1>8 DEF Resolve
<1>12. CASE ~u.ok
  <2>1. \/ t = u \/ t = refused
        \/ \E w, kind, place : w \in {u, slotted, measured} /\ t = WithOperand(w, kind, place)
    BY <1>5, <1>11, <1>12 DEF IsResult
  <2>2. CASE t = u \/ t = refused
    BY <1>2, <1>7, <1>12, <2>2 DEF ResolveIs
  <2>3. ASSUME NEW w, NEW kind, NEW place, w \in {u, slotted, measured}, t = WithOperand(w, kind, place)
        PROVE  ResolveIs(d, t, j)
    <3>1. EmissionForm(w) /\ ~w.ok
      BY <1>2, <1>9, <1>10, <1>12, <2>3
    <3>2. EmissionForm(t) /\ ~t.ok
      BY <2>3, <3>1, RefusedStays
    <3> QED BY <3>2 DEF ResolveIs
  <2> QED BY <2>1, <2>2, <2>3
<1>13. CASE u.ok
  <2>1. /\ s.ok /\ u.exprs = s.exprs /\ u.temps = s.temps /\ Lengthened(s.params, u.params)
        /\ ScalarSlots(g, u.params)
    BY <1>1, <1>13 DEF ResolveIs
  <2>2. \A w \in DOMAIN u.temps : IsResult(g, w) /\ u.temps[w] \in 1 .. m /\ made[u.temps[w]] = den[w]
    BY <2>1 DEF TempsAre
  <2>3. Lengthened(u.params, u.params) /\ IsSequence(u.params)
    BY <2>1 DEF Lengthened
  <2>4. CASE v \in DOMAIN u.temps
    <3>1. t = WithOperand(u, "temp", u.temps[v])
      BY <1>11, <1>13, <2>2, <2>4 DEF IsResult
    <3>2. Fetches(den, made, m, u.params, [kind |-> "temp", at |-> u.temps[v]], den[inputs[j]])
      BY <1>4, <2>2, <2>4 DEF Fetches
    <3> QED BY <1>1, <1>2, <1>13, <2>1, <2>3, <3>1, <3>2, OperandAdded
  <2>5. CASE v \notin DOMAIN u.temps /\ IsResult(g, v)
    <3>1. t = refused
      BY <1>11, <1>13, <2>5 DEF IsResult
    <3> QED BY <1>7, <3>1 DEF ResolveIs
  <2>6. CASE v \notin DOMAIN u.temps /\ g.values[v].kind = "constant"
    <3>1. t = WithOperand(u, "const", g.values[v].payload)
      BY <1>11, <1>13, <2>6 DEF IsResult
    <3>2. den[v] = g.values[v].payload
      BY <1>5, <2>6 DEF Denotes, IsConstant
    <3>3. Fetches(den, made, m, u.params, [kind |-> "const", at |-> g.values[v].payload], den[inputs[j]])
      BY <1>4, <3>2 DEF Fetches
    <3> QED BY <1>1, <1>2, <1>13, <2>1, <2>3, <3>1, <3>3, OperandAdded
  <2>7. CASE v \notin DOMAIN u.temps /\ g.values[v].kind = "placeholder"
    <3>1. v \notin tensors
      BY <1>4, <2>7 DEF NoTensorInput
    <3>2. t = WithOperand(slotted, "param", Slot(params, v))
      BY <1>11, <1>13, <2>7, <3>1 DEF IsResult
    <3>3. Lengthened(u.params, params) /\ Slot(params, v) \in 1 .. Len(params) /\ params[Slot(params, v)] = v
      BY <1>8, <2>3, SlotIs
    <3>4. PICK place : place = Slot(params, v)
      OBVIOUS
    <3>5. Fetches(den, made, m, slotted.params, [kind |-> "param", at |-> place], den[inputs[j]])
      BY <1>4, <1>9, <3>3, <3>4 DEF Fetches
    <3>6. Lengthened(u.params, slotted.params) /\ t = WithOperand(slotted, "param", place)
      BY <1>9, <3>2, <3>3, <3>4
    <3>7. ScalarSlots(g, slotted.params)
      BY <1>5, <1>8, <1>9, <2>1, <2>7, ScalarAdded
    <3> QED BY <1>1, <1>9, <1>13, <3>5, <3>6, <3>7, OperandAdded
  <2> QED BY <1>5, <2>4, <2>5, <2>6, <2>7 DEF IsResult
<1> QED BY <1>12, <1>13

\* The state after the operands of a node.
ResolvedAll(g, tensors, s, inputs) ==
  FoldLeft(LAMBDA u, input : Resolve(g, tensors, u, input), [s EXCEPT !.operands = <<>>], inputs)

\* The operands of a node, in their order.
LEMMA OperandsResolved ==
  ASSUME NEW g, Compilable(g), NEW x, NEW den, Denotes(g, x, den),
         NEW tensors, NoTensorInput(g, tensors), NEW made, NEW m, NEW s,
         EmissionForm(s), s.ok => TempsAre(g, den, made, s.temps, m) /\ ScalarSlots(g, s.params),
         NEW inputs, NEW l \in Nat, l = Len(inputs), DOMAIN inputs = 1 .. l,
         \A i \in 1 .. l : inputs[i] \in Reachable(g),
         NEW d, d = [graph |-> g, den |-> den, made |-> made, m |-> m, s |-> s, inputs |-> inputs],
         NEW t, t = ResolvedAll(g, tensors, s, inputs)
  PROVE  ResolveIs(d, t, l)
<1>1. PICK c, start : c = [graph |-> g, tensors |-> tensors] /\ start = [s EXCEPT !.operands = <<>>]
  OBVIOUS
<1>2. c.graph = g /\ c.tensors = tensors
  BY <1>1
<1>3. t = ResolveFold!Folded(c, start, inputs)
  BY <1>1, <1>2 DEF ResolvedAll, FoldLeft, MapThenFoldSet, Max, ResolveStep, ResolveFold!Folded, ResolveFold!FoldTable
<1>4. ResolveIs(d, start, 0)
  <2>1. start = [ok |-> s.ok, exprs |-> s.exprs, temps |-> s.temps, elems |-> s.elems,
                 params |-> s.params, operands |-> <<>>]
    BY <1>1 DEF EmissionForm
  <2>2. EmissionForm(start) /\ start.ok = s.ok /\ start.exprs = s.exprs /\ start.temps = s.temps
        /\ start.params = s.params /\ start.operands = <<>>
    BY <2>1 DEF EmissionForm
  <2>3. d.s = s /\ d.graph = g
    OBVIOUS
  <2>4. s.ok => Lengthened(s.params, s.params)
    BY DEF Lengthened, ScalarSlots
  <2>5. IsSequence(start.operands) /\ Len(start.operands) = 0
    BY <2>2, EmptyIsSequence
  <2>6. 1 .. 0 = {}
    OBVIOUS
  <2> QED BY <2>2, <2>3, <2>4, <2>5, <2>6 DEF ResolveIs
<1>5. ASSUME NEW k \in 1 .. l, NEW u, ResolveIs(d, u, k - 1)
      PROVE  ResolveIs(d, ResolveStep(c, u, inputs[k]), k)
  <2>1. k \in Nat /\ k > 0
    OBVIOUS
  <2>2. inputs[k] \in Reachable(g)
    OBVIOUS
  <2>3. PICK r : r = Resolve(g, tensors, u, inputs[k])
    OBVIOUS
  <2>4. s.ok => TempsAre(g, den, made, s.temps, m)
    OBVIOUS
  <2>5. ResolveIs(d, r, k)
    BY <1>5, <2>1, <2>3, <2>4, <2>2, ResolveKeeps
  <2> QED BY <1>2, <2>3, <2>5 DEF ResolveStep
<1> QED BY <1>3, <1>4, <1>5, ResolveFold!FoldLeftInduction

\* The expression of a node, which reads what the node reads.
ExprIs(d, params, e, i) ==
  LET node == d.graph.nodes[d.order[i]]
  IN /\ e.op = node.op /\ IsSequence(e.operands) /\ Len(e.operands) = Len(node.inputs)
     /\ \A k \in 1 .. Len(node.inputs) :
          Fetches(d.den, d.made, i - 1, params, e.operands[k], d.den[node.inputs[k]])

EmitIs(d, s, k) ==
  /\ EmissionForm(s)
  /\ s.ok =>
       /\ IsSequence(s.exprs) /\ Len(s.exprs) = k /\ ScalarSlots(d.graph, s.params)
       /\ TempsAre(d.graph, d.den, d.made, s.temps, k)
       /\ \A i \in 1 .. k : ExprIs(d, s.params, s.exprs[i], i)

EmitStep(c, s, n) == Emit(c.graph, c.tensors, s, n)

EmitFold == INSTANCE InductionRules WITH Step <- EmitStep, Inv <- EmitIs, Def <- NoDef, P <- NoP

\* One more expression.
LEMMA EmitKeeps ==
  ASSUME NEW g, Compilable(g), NEW x, NEW den, Denotes(g, x, den), NEW tensors, NoTensorInput(g, tensors),
         NEW root, NEW order, NEW l \in Nat, \A i \in 1 .. l : RegionNode(g, root, order[i]),
         NEW made, made = [i \in 1 .. l |-> den[g.nodes[order[i]].result]],
         NEW d, d = [graph |-> g, den |-> den, order |-> order, made |-> made],
         NEW k \in 1 .. l, NEW s, EmitIs(d, s, k - 1), NEW t, t = Emit(g, tensors, s, order[k])
  PROVE  EmitIs(d, t, k)
<1>1. d.graph = g /\ d.den = den /\ d.order = order /\ d.made = made
  OBVIOUS
<1>2. PICK n, node, inputs, m : n = order[k] /\ node = g.nodes[n] /\ inputs = node.inputs /\ m = k - 1
  OBVIOUS
<1>3. RegionNode(g, root, n) /\ n \in 1 .. Len(g.nodes) /\ ~node.dead /\ node.result \in Reachable(g)
  BY <1>2 DEF RegionNode
<1>4. PICK size : size = Len(inputs)
  OBVIOUS
<1>5. size \in Nat /\ DOMAIN inputs = 1 .. size /\ \A i \in 1 .. size : inputs[i] \in Reachable(g)
  <2>1. DOMAIN inputs = 1 .. size /\ size \in {1, 2}
    BY <1>2, <1>3, <1>4, OperandCount DEF Compilable
  <2>2. IsResult(g, node.result) /\ ProducerOf(g, node.result) = node
    BY <1>2, <1>3, LiveResult DEF Compilable
  <2>3. \A i \in 1 .. size : inputs[i] \in Reachable(g)
    BY <1>2, <1>3, <1>4, <2>2, ReachableIs DEF OperandsIn
  <2> QED BY <2>1, <2>3
<1>6. /\ EmissionForm(s)
      /\ s.ok => /\ IsSequence(s.exprs) /\ Len(s.exprs) = m /\ ScalarSlots(g, s.params)
                 /\ TempsAre(g, den, made, s.temps, m)
                 /\ \A i \in 1 .. m : ExprIs(d, s.params, s.exprs[i], i)
  BY <1>1, <1>2 DEF EmitIs
<1>7. PICK r, e : /\ r = ResolvedAll(g, tensors, s, inputs)
                  /\ e = [graph |-> g, den |-> den, made |-> made, m |-> m, s |-> s, inputs |-> inputs]
  OBVIOUS
<1>8. ResolveIs(e, r, size)
  <2>1. s.ok => TempsAre(g, den, made, s.temps, m) /\ ScalarSlots(g, s.params)
    BY <1>6
  <2>2. EmissionForm(s)
    BY <1>6
  <2> QED BY <1>4, <1>5, <1>7, <2>1, <2>2, OperandsResolved
<1>9. /\ EmissionForm(r)
      /\ r.ok => /\ s.ok /\ r.exprs = s.exprs /\ r.temps = s.temps /\ Lengthened(s.params, r.params)
                 /\ ScalarSlots(g, r.params) /\ IsSequence(r.operands) /\ Len(r.operands) = size
                 /\ \A i \in 1 .. size : Fetches(den, made, m, r.params, r.operands[i], den[inputs[i]])
  BY <1>7, <1>8 DEF ResolveIs
<1>10. CASE ~r.ok
  <2>1. t = r
    BY <1>2, <1>7, <1>10 DEF Emit, ResolvedAll
  <2> QED BY <1>9, <1>10, <2>1, SMTT(30) DEF EmitIs
<1>11. CASE r.ok
  <2>1. Representative(g, node.result) = node.result /\ IsResult(g, node.result)
    <3>1. node.result \in Reached(g)
      BY <1>3, ReachableIs
    <3>2. IsResult(g, node.result)
      BY <1>2, <1>3, LiveResult DEF Compilable
    <3> QED BY <3>1, <3>2, ReachedValue
  <2>2. PICK exprs, temps, o : /\ o = [op |-> node.op, operands |-> r.operands]
                               /\ exprs = Append(r.exprs, o)
                               /\ temps = [v \in DOMAIN r.temps \union {node.result} |->
                                             IF v \in DOMAIN r.temps THEN r.temps[v] ELSE k]
    OBVIOUS
  <2>3. NextTemp(r) = k
    BY <1>2, <1>6, <1>9, <1>11 DEF NextTemp
  <2>4. t = [r EXCEPT !.exprs = exprs, !.temps = temps]
    BY <1>2, <1>7, <1>11, <2>1, <2>2, <2>3 DEF Emit, ResolvedAll
  <2>5. t = [ok |-> r.ok, exprs |-> exprs, temps |-> temps, elems |-> r.elems,
             params |-> r.params, operands |-> r.operands]
    BY <1>9, <2>4 DEF EmissionForm
  <2>6. EmissionForm(t) /\ t.ok = r.ok /\ t.exprs = exprs /\ t.temps = temps /\ t.params = r.params
    BY <2>5 DEF EmissionForm
  <2>7. PICK old : old = r.exprs
    BY SMTT(30)
  <2>8. IsSequence(old) /\ m = Len(old) /\ exprs = Append(old, o)
    BY <1>6, <1>9, <1>11, <2>2, <2>7
  <2>9. IsSequence(exprs)
    BY <2>8, SequenceAppend
  <2>10. Len(exprs) = m + 1
    BY <2>8, SequenceAppend
  <2>11. exprs[m + 1] = o
    BY <2>8, SequenceAppend
  <2>12. \A i \in 1 .. m : exprs[i] = old[i]
    BY <2>8, SequenceAppend
  <2>13. m + 1 = k /\ m \in Nat /\ k \in Nat
    BY <1>2
  <2>14. ScalarSlots(g, r.params)
    BY <1>9, <1>11, SMTT(30)
  <2>15. TempsAre(g, den, made, temps, k)
    <3>1. \A v \in DOMAIN r.temps : IsResult(g, v) /\ r.temps[v] \in 1 .. m /\ made[r.temps[v]] = den[v]
      BY <1>6, <1>9, <1>11 DEF TempsAre
    <3>2. made[k] = den[node.result]
      BY <1>2
    <3>3. \A i \in 1 .. m : i \in 1 .. k
      BY <2>13
    <3>4. k \in 1 .. k
      BY <2>13
    <3> QED BY <2>1, <2>2, <3>1, <3>2, <3>3, <3>4, ZenonT(40) DEF TempsAre
  <2>16. ASSUME NEW i \in 1 .. k PROVE ExprIs(d, r.params, exprs[i], i)
    <3>1. CASE i = k
      <4>1. exprs[i] = o /\ i - 1 = m /\ o.op = node.op /\ o.operands = r.operands
        BY <1>2, <2>2, <2>11, <2>13, <3>1
      <4>2. d.graph.nodes[d.order[i]] = node /\ size = Len(node.inputs)
        BY <1>1, <1>2, <1>4, <3>1
      <4>3. IsSequence(r.operands) /\ Len(r.operands) = size
        BY <1>9, <1>11
      <4>4. \A j \in 1 .. size :
              Fetches(d.den, d.made, i - 1, r.params, r.operands[j], d.den[node.inputs[j]])
        <5>1. \A j \in 1 .. size : Fetches(den, made, m, r.params, r.operands[j], den[inputs[j]])
          BY <1>9, <1>11
        <5>2. d.den = den /\ d.made = made /\ inputs = node.inputs /\ i - 1 = m
          BY <1>1, <1>2, <4>1
        <5> QED BY ONLY <5>1, <5>2
      <4> QED BY ONLY <4>1, <4>2, <4>3, <4>4 DEF ExprIs
    <3>2. CASE i # k
      <4>1. i \in 1 .. m
        BY <2>13, <3>2
      <4>2. exprs[i] = s.exprs[i] /\ ExprIs(d, s.params, s.exprs[i], i)
        BY <1>6, <1>9, <1>11, <2>7, <2>12, <4>1
      <4>3. Lengthened(s.params, r.params)
        BY <1>9, <1>11
      <4>4. \A q, y : Fetches(d.den, d.made, i - 1, s.params, q, y) =>
                      Fetches(d.den, d.made, i - 1, r.params, q, y)
        BY <4>3, FetchesOn
      <4> QED BY ONLY <4>2, <4>4 DEF ExprIs
    <3> QED BY <3>1, <3>2, SMTT(30)
  <2> QED BY <1>1, <2>6, <2>9, <2>10, <2>13, <2>14, <2>15, <2>16 DEF EmitIs
<1> QED BY <1>10, <1>11

\* What the expressions of a region are to compute.
Emission(g, den, order) ==
  [graph |-> g, den |-> den, order |-> order, made |-> [i \in 1 .. Len(order) |-> den[g.nodes[order[i]].result]]]

\* The expressions of a region.
LEMMA ExpressionsAre ==
  ASSUME NEW g, Compilable(g), NEW x, NEW den, Denotes(g, x, den), NEW tensors, NoTensorInput(g, tensors),
         NEW groups, NEW root, RegionNode(g, root, root), NEW order, order = RegionOrder(g, groups, root)
  PROVE  EmitIs(Emission(g, den, order), Expressions(g, tensors, groups, root), Len(order))
<1>1. PICK l, made, d, e : /\ l = Len(order) /\ made = [i \in 1 .. l |-> den[g.nodes[order[i]].result]]
                           /\ d = [graph |-> g, den |-> den, order |-> order, made |-> made]
                           /\ e = Expressions(g, tensors, groups, root)
  OBVIOUS
<1>2. IsSequence(order) /\ l \in Nat /\ \A i \in 1 .. l : RegionNode(g, root, order[i])
  BY <1>1, RegionOrderIs
<1>3. DOMAIN order = 1 .. l
  BY <1>1, <1>2, SequenceOfItsItems
<1>4. PICK c, start : /\ c = [graph |-> g, tensors |-> tensors]
                      /\ start = [ok |-> TRUE, exprs |-> <<>>, temps |-> <<>>, elems |-> <<>>,
                                  params |-> <<>>, operands |-> <<>>]
  OBVIOUS
<1>5. c.graph = g /\ c.tensors = tensors
  BY <1>4
<1>6. e = EmitFold!Folded(c, start, order)
  BY <1>1, <1>4, <1>5 DEF Expressions, FoldLeft, MapThenFoldSet, Max, EmitStep, EmitFold!Folded, EmitFold!FoldTable
<1>7. EmitIs(d, start, 0)
  <2>1. EmissionForm(start) /\ start.exprs = <<>> /\ start.params = <<>> /\ start.temps = <<>>
    BY <1>4 DEF EmissionForm
  <2>2. DOMAIN <<>> = {}
    OBVIOUS
  <2>3. ScalarSlots(g, <<>>)
    BY EmptyIsSequence DEF ScalarSlots, Distinct, Holds
  <2>4. d.graph = g
    BY <1>1
  <2> QED BY <2>1, <2>2, <2>3, <2>4, EmptyIsSequence DEF EmitIs, TempsAre
<1>8. ASSUME NEW k \in 1 .. l, NEW s, EmitIs(d, s, k - 1) PROVE EmitIs(d, EmitStep(c, s, order[k]), k)
  <2>1. PICK t : t = Emit(g, tensors, s, order[k])
    OBVIOUS
  <2>2. made = [i \in 1 .. l |-> den[g.nodes[order[i]].result]]
    BY <1>1
  <2>3. d = [graph |-> g, den |-> den, order |-> order, made |-> made]
    BY <1>1
  <2>4. EmitIs(d, t, k)
    BY <1>2, <1>8, <2>1, <2>2, <2>3, EmitKeeps
  <2> QED BY <1>5, <2>1, <2>4 DEF EmitStep
<1>9. EmitIs(d, e, l)
  BY <1>2, <1>3, <1>6, <1>7, <1>8, EmitFold!FoldLeftInduction
<1>10. d = Emission(g, den, order)
  BY <1>1 DEF Emission
<1> QED BY <1>1, <1>9, <1>10

-----------------------------------------------------------------------------
(***************************************************************************)
(* The executor runs the expressions of a region over temporaries.         *)
(***************************************************************************)

\* The scalar that is passed for each parameter is what it denotes.
ScalarsAre(den, params, scalars) ==
  \A p \in 1 .. Len(params) : (IF p \in DOMAIN scalars THEN scalars[p] ELSE 0) = den[params[p]]

RunStep(c, temps, e) ==
  Append(temps, ApplyOp(e.op, ReadOperand(e.operands[1], temps, c.elems, c.scalars),
                        IF Len(e.operands) > 1 THEN ReadOperand(e.operands[2], temps, c.elems, c.scalars) ELSE 0))

RunIs(d, temps, k) == IsSequence(temps) /\ Len(temps) = k /\ \A i \in 1 .. k : temps[i] = d.made[i]

RunFold == INSTANCE InductionRules WITH Step <- RunStep, Inv <- RunIs, Def <- NoDef, P <- NoP

\* The temporaries that there are, m of them.
Holding(temps, made, m) == m \in Nat /\ DOMAIN temps = 1 .. m /\ \A i \in 1 .. m : temps[i] = made[i]

\* An operand is read as what it stands for.
LEMMA OperandRead ==
  ASSUME NEW den, NEW made, NEW m, NEW params, NEW o, NEW y, Fetches(den, made, m, params, o, y),
         NEW temps, Holding(temps, made, m),
         NEW elems, NEW scalars, ScalarsAre(den, params, scalars)
  PROVE  ReadOperand(o, temps, elems, scalars) = y
<1>1. CASE o.kind = "const" /\ o.at = y
  BY <1>1 DEF ReadOperand
<1>2. CASE o.kind = "temp" /\ o.at \in 1 .. m /\ made[o.at] = y
  BY <1>2 DEF ReadOperand, Holding
<1>3. CASE o.kind = "param" /\ o.at \in 1 .. Len(params) /\ den[params[o.at]] = y
  <2>1. (IF o.at \in DOMAIN scalars THEN scalars[o.at] ELSE 0) = y
    BY <1>3 DEF ScalarsAre
  <2> QED BY <1>3, <2>1 DEF ReadOperand
<1> QED BY <1>1, <1>2, <1>3 DEF Fetches

\* The chain of a region computes what its root denotes.
LEMMA ChainComputes ==
  ASSUME NEW g, Compilable(g), NEW x, NEW den, Denotes(g, x, den),
         NEW groups, NEW root, RegionNode(g, root, root), NEW order, order = RegionOrder(g, groups, root),
         NEW e, EmitIs(Emission(g, den, order), e, Len(order)), e.ok,
         NEW elems, NEW scalars, ScalarsAre(den, e.params, scalars)
  PROVE  RunChain(e.exprs, elems, scalars) = den[g.nodes[root].result]
<1>1. PICK l, made, d : /\ l = Len(order) /\ made = [i \in 1 .. l |-> den[g.nodes[order[i]].result]]
                        /\ d = [graph |-> g, den |-> den, order |-> order, made |-> made]
  OBVIOUS
<1>2. d.graph = g /\ d.den = den /\ d.order = order /\ d.made = made
  BY <1>1
<1>3. made = [i \in 1 .. l |-> den[g.nodes[order[i]].result]]
  BY <1>1
<1>4. EmitIs(d, e, l)
  BY <1>1 DEF Emission
<1>5. l \in Nat /\ l > 0 /\ order[l] = root /\ \A i \in 1 .. l : RegionNode(g, root, order[i])
  BY <1>1, RegionOrderIs
<1>6. PICK c, exprs, params, temps : /\ c = [elems |-> elems, scalars |-> scalars]
                                     /\ exprs = e.exprs /\ params = e.params
                                     /\ temps = RunFold!Folded(c, <<>>, exprs)
  OBVIOUS
<1>7. c.elems = elems /\ c.scalars = scalars
  BY <1>6
<1>8. RunChain(exprs, elems, scalars) = Last(temps)
  BY <1>6, <1>7 DEF RunChain, FoldLeft, MapThenFoldSet, Max, RunStep, RunFold!Folded, RunFold!FoldTable
<1>9. IsSequence(exprs) /\ Len(exprs) = l /\ \A i \in 1 .. l : ExprIs(d, params, exprs[i], i)
  BY <1>6, <1>4 DEF EmitIs
<1>10. DOMAIN exprs = 1 .. l
  BY <1>9, SequenceOfItsItems
<1>11. RunIs(d, <<>>, 0)
  BY EmptyIsSequence DEF RunIs
<1>12. ASSUME NEW k \in 1 .. l, NEW a, RunIs(d, a, k - 1) PROVE RunIs(d, RunStep(c, a, exprs[k]), k)
  <2>1. PICK m, n, node, expr, size : /\ m = k - 1 /\ n = order[k] /\ node = g.nodes[n] /\ expr = exprs[k]
                                      /\ size = Len(node.inputs)
    OBVIOUS
  <2>2. m \in Nat /\ m + 1 = k
    BY <1>5, <2>1
  <2>3. IsSequence(a) /\ Len(a) = m /\ \A i \in 1 .. m : a[i] = made[i]
    BY <1>2, <1>12, <2>1 DEF RunIs
  <2>4. DOMAIN a = 1 .. m
    BY <2>3, SequenceOfItsItems
  <2>5. n \in 1 .. Len(g.nodes) /\ ~node.dead /\ Elementwise(node.op)
    BY <1>5, <2>1 DEF RegionNode
  <2>6. size = 1 \/ size = 2
    BY <2>1, <2>5, OperandCount DEF Compilable
  <2>7. /\ expr.op = node.op /\ Len(expr.operands) = size
        /\ \A i \in 1 .. size : Fetches(den, made, m, params, expr.operands[i], den[node.inputs[i]])
    BY <1>2, <1>9, <2>1 DEF ExprIs
  <2>8. \A i \in 1 .. size : ReadOperand(expr.operands[i], a, elems, scalars) = den[node.inputs[i]]
    <3> SUFFICES ASSUME NEW i \in 1 .. size
                 PROVE  ReadOperand(expr.operands[i], a, elems, scalars) = den[node.inputs[i]]
      OBVIOUS
    <3>1. PICK o, y : o = expr.operands[i] /\ y = den[node.inputs[i]]
      OBVIOUS
    <3>2. Fetches(den, made, m, params, o, y)
      BY <2>7, <3>1
    <3>3. Holding(a, made, m)
      BY <2>2, <2>3, <2>4 DEF Holding
    <3>4. ScalarsAre(den, params, scalars)
      BY <1>6
    <3>5. ReadOperand(o, a, elems, scalars) = y
      BY <3>2, <3>3, <3>4, OperandRead
    <3> QED BY <3>1, <3>5
  <2>9. PICK first, second : /\ first = ReadOperand(expr.operands[1], a, elems, scalars)
                             /\ second = IF Len(expr.operands) > 1
                                         THEN ReadOperand(expr.operands[2], a, elems, scalars) ELSE 0
    OBVIOUS
  <2>10. first = den[node.inputs[1]] /\ second = IF size > 1 THEN den[node.inputs[2]] ELSE 0
    <3>1. 1 \in 1 .. size /\ (size > 1 => 2 \in 1 .. size)
      BY <2>6
    <3> QED BY <2>7, <2>8, <2>9, <3>1
  <2>11. ApplyOp(expr.op, first, second) = made[k]
    <3>1. ApplyOp(expr.op, first, second) = EvalScalar(node.op, first, second)
      BY <2>5, <2>7 DEF ApplyOp
    <3>2. EvalScalar(node.op, first, second) = NodeValue(node, den)
      BY <2>1, <2>10 DEF NodeValue
    <3>3. den[node.result] = NodeValue(node, den)
      BY <2>1, <2>5, LiveDenotes DEF Compilable
    <3>4. made[k] = den[node.result]
      BY <1>3, <2>1
    <3> QED BY <3>1, <3>2, <3>3, <3>4
  <2>12. PICK longer, y : longer = RunStep(c, a, expr) /\ y = made[k]
    OBVIOUS
  <2>13. longer = Append(a, y)
    BY <1>7, <2>9, <2>11, <2>12 DEF RunStep
  <2>14. IsSequence(longer)
    BY <2>3, <2>13, SequenceAppend
  <2>15. Len(longer) = m + 1
    BY <2>3, <2>13, SequenceAppend
  <2>16. longer[m + 1] = y
    BY <2>3, <2>13, SequenceAppend
  <2>17. \A i \in 1 .. m : longer[i] = a[i]
    BY <2>3, <2>13, SequenceAppend
  <2>18. \A i \in 1 .. k : longer[i] = made[i]
    <3>1. \A i \in 1 .. k : i \in 1 .. m \/ i = k
      BY <2>2
    <3> QED BY <2>2, <2>3, <2>12, <2>16, <2>17, <3>1
  <2> QED BY <1>2, <2>1, <2>2, <2>12, <2>14, <2>15, <2>18 DEF RunIs
<1>13. RunIs(d, temps, l)
  BY <1>6, <1>10, <1>11, <1>12, <1>5, RunFold!FoldLeftInduction
<1>14. Last(temps) = made[l]
  <2>1. l \in 1 .. l /\ Len(temps) = l /\ temps[l] = made[l]
    BY <1>2, <1>13, <1>5 DEF RunIs
  <2> QED BY <2>1 DEF Last
<1>15. made[l] = den[g.nodes[root].result]
  <2>1. l \in 1 .. l
    BY <1>5
  <2> QED BY <1>3, <1>5, <2>1
<1> QED BY <1>6, <1>8, <1>14, <1>15

-----------------------------------------------------------------------------
(***************************************************************************)
(* Scalars are passed in the order of the placeholders.                    *)
(***************************************************************************)

\* The placeholders, in the order of their values.
LEMMA PlaceholdersAre ==
  ASSUME NEW g, GraphOK(g), NEW list, list = Placeholders(g)
  PROVE  /\ IsSequence(list) /\ Ascending(list)
         /\ \A v : Holds(list, v) <=> v \in 1 .. Len(g.values) /\ g.values[v].kind = "placeholder"
<1>1. PICK ids, S : /\ ids = [v \in DOMAIN g.values |-> v]
                    /\ S = {v \in DOMAIN g.values : g.values[v].kind = "placeholder"}
  OBVIOUS
<1>2. list = Within(ids, S)
  BY <1>1 DEF Placeholders
<1>3. PICK m : m = Len(g.values)
  OBVIOUS
<1>4. m \in Nat /\ IsSequence(g.values) /\ DOMAIN g.values = 1 .. m
  BY <1>3, SoundTables DEF TablesOK
<1>5. IsSequence(ids) /\ Distinct(ids) /\ (\A v : Holds(ids, v) <=> v \in 1 .. m)
  BY <1>1, <1>3, <1>4, AllIds
<1>6. Ascending(ids)
  <2>1. Len(ids) = m
    BY <1>1, <1>4, FunctionIsSequence
  <2>2. \A i \in 1 .. m : ids[i] = i
    BY <1>1, <1>4
  <2> QED BY <2>1, <2>2 DEF Ascending
<1>7. IsSequence(list) /\ \A v : Holds(list, v) <=> Holds(ids, v) /\ v \in S
  BY <1>2, <1>5, WithinSelects
<1>8. Ascending(list)
  BY <1>2, <1>5, <1>6, WithinAscends
<1> QED BY <1>1, <1>3, <1>4, <1>5, <1>7, <1>8

\* v is the p-th placeholder.
PlaceholderAt(g, v, p) ==
  /\ v \in 1 .. Len(g.values) /\ g.values[v].kind = "placeholder"
  /\ Cardinality({w \in 1 .. v : g.values[w].kind = "placeholder"}) = p

\* The p-th placeholder is bound to the p-th input.
LEMMA PlaceholderPosition ==
  ASSUME NEW g, GraphOK(g), NEW list, list = Placeholders(g), NEW p \in 1 .. Len(list)
  PROVE  PlaceholderAt(g, list[p], p)
<1>1. PICK m : m = Len(g.values)
  OBVIOUS
<1>2. m \in Nat
  BY <1>1, SoundTables
<1>3. /\ IsSequence(list) /\ Ascending(list)
      /\ \A v : Holds(list, v) <=> v \in 1 .. m /\ g.values[v].kind = "placeholder"
  BY <1>1, PlaceholdersAre
<1>4. PICK l : l = Len(list)
  OBVIOUS
<1>5. l \in Nat /\ p \in 1 .. l
  BY <1>3, <1>4 DEF IsSequence
<1>6. \A q \in 1 .. l : list[q] \in 1 .. m /\ g.values[list[q]].kind = "placeholder"
  BY <1>3, <1>4 DEF Holds
<1>7. \A i, j \in 1 .. l : i < j => list[i] < list[j]
  BY <1>3, <1>4 DEF Ascending
<1>8. PICK v, before, f : /\ v = list[p] /\ before = {w \in 1 .. v : g.values[w].kind = "placeholder"}
                           /\ f = [q \in 1 .. p |-> list[q]]
  OBVIOUS
<1>9. \A q \in 1 .. p : q \in 1 .. l /\ f[q] = list[q] /\ f[q] \in before
  <2> SUFFICES ASSUME NEW q \in 1 .. p PROVE q \in 1 .. l /\ f[q] = list[q] /\ f[q] \in before
    OBVIOUS
  <2>1. q \in 1 .. l /\ f[q] = list[q]
    BY <1>5, <1>8
  <2>2. list[q] <= v
    <3>1. q = p \/ q < p
      BY <1>5
    <3> QED BY <1>5, <1>6, <1>7, <1>8, <2>1, <3>1
  <2>3. list[q] \in 1 .. v /\ g.values[list[q]].kind = "placeholder"
    BY <1>5, <1>6, <1>8, <2>1, <2>2
  <2> QED BY <1>8, <2>1, <2>3
<1>10. \A w \in before : \E q \in 1 .. p : f[q] = w
  <2> SUFFICES ASSUME NEW w \in before PROVE \E q \in 1 .. p : f[q] = w
    OBVIOUS
  <2>1. w \in 1 .. v /\ g.values[w].kind = "placeholder" /\ v \in 1 .. m
    BY <1>5, <1>6, <1>8
  <2>2. w \in 1 .. m /\ w <= v
    BY <1>2, <2>1
  <2>3. PICK q \in 1 .. l : list[q] = w
    BY <1>3, <1>4, <2>1, <2>2 DEF Holds
  <2>4. ~(p < q)
    <3>1. ASSUME p < q PROVE FALSE
      <4>1. v < w
        BY <1>5, <1>7, <1>8, <2>3, <3>1
      <4> QED BY <2>1, <2>2, <4>1
    <3> QED BY <3>1
  <2>5. q \in 1 .. p
    BY <1>5, <2>4
  <2> QED BY <1>9, <2>3, <2>5
<1>11. f \in Bijection(1 .. p, before)
  <2>1. f \in [1 .. p -> before]
    BY <1>8, <1>9
  <2>2. \A i, j \in 1 .. p : f[i] = f[j] => i = j
    <3> SUFFICES ASSUME NEW i \in 1 .. p, NEW j \in 1 .. p, f[i] = f[j] PROVE i = j
      OBVIOUS
    <3>1. list[i] = list[j] /\ list[i] \in Int /\ i \in 1 .. l /\ j \in 1 .. l
      BY <1>6, <1>9
    <3>2. ~(i < j) /\ ~(j < i)
      BY <1>7, <3>1
    <3> QED BY <3>2
  <2> QED BY <1>10, <2>1, <2>2 DEF Bijection, Injection, Surjection, IsInjective
<1>12. p \in Nat /\ ExistsBijection(1 .. p, before)
  BY <1>5, <1>11 DEF ExistsBijection
<1>13. Cardinality(before) = p
  BY <1>12, FS_CountingElements
<1>14. v \in 1 .. Len(g.values) /\ g.values[v].kind = "placeholder"
  BY <1>1, <1>5, <1>6, <1>8
<1> QED BY <1>8, <1>13, <1>14 DEF PlaceholderAt

\* Parameters that are the first placeholders, in their order.
LEMMA ScalarsBound ==
  ASSUME NEW g, GraphOK(g), NEW x, NEW den, Denotes(g, x, den),
         NEW params, IsSequence(params), IsPrefix(params, Placeholders(g))
  PROVE  ScalarsAre(den, params, x)
<1> SUFFICES ASSUME NEW p \in 1 .. Len(params)
             PROVE  (IF p \in DOMAIN x THEN x[p] ELSE 0) = den[params[p]]
  BY DEF ScalarsAre
<1>1. PICK list, n : list = Placeholders(g) /\ n = Len(params)
  OBVIOUS
<1>2. n \in Nat /\ n <= Len(list) /\ SubSeq(params, 1, n) = SubSeq(list, 1, n)
  BY <1>1 DEF IsPrefix, IsSequence
<1>3. IsSequence(list)
  BY <1>1, PlaceholdersAre
<1>4. p \in 1 .. Len(list) /\ list[p] = params[p]
  <2>1. Len(list) \in Nat /\ p \in 1 .. n
    BY <1>1, <1>3 DEF IsSequence
  <2>2. p \in 1 .. Len(list)
    BY <1>2, <2>1
  <2>3. PICK S, T : params \in Seq(S) /\ list \in Seq(T)
    BY <1>3, SequenceOfItsItems
  <2>4. SubSeq(params, 1, n)[p] = params[p]
    BY <1>1, <1>2, <2>1, <2>3
  <2>5. SubSeq(list, 1, n)[p] = list[p]
    BY <1>2, <2>1, <2>3
  <2> QED BY <1>2, <2>2, <2>4, <2>5
<1>5. PlaceholderAt(g, list[p], p)
  BY <1>1, <1>4, PlaceholderPosition
<1>6. den[list[p]] = BoundInput(g, x, list[p])
  BY <1>5 DEF Denotes, PlaceholderAt
<1> QED BY <1>4, <1>5, <1>6 DEF BoundInput, PlaceholderAt

\* A graph with one placeholder has no other scalar parameter.
LEMMA OneScalar ==
  ASSUME NEW g, GraphOK(g), Len(Placeholders(g)) <= 1, NEW params, ScalarSlots(g, params)
  PROVE  IsPrefix(params, Placeholders(g))
<1>1. PICK list, n, l : list = Placeholders(g) /\ n = Len(params) /\ l = Len(list)
  OBVIOUS
<1>2. /\ IsSequence(list) /\ IsSequence(params) /\ Distinct(params)
      /\ \A v : Holds(params, v) => Holds(list, v)
  BY <1>1, PlaceholdersAre DEF ScalarSlots
<1>3. n \in Nat /\ l \in Nat /\ l <= 1
  BY <1>1, <1>2 DEF IsSequence
<1>4. \A p \in 1 .. n : l = 1 /\ params[p] = list[1]
  <2> SUFFICES ASSUME NEW p \in 1 .. n PROVE l = 1 /\ params[p] = list[1]
    OBVIOUS
  <2>1. Holds(list, params[p])
    BY <1>1, <1>2 DEF Holds
  <2>2. PICK q \in 1 .. l : list[q] = params[p]
    BY <1>1, <2>1 DEF Holds
  <2>3. l = 1 /\ q = 1
    BY <1>3
  <2> QED BY <2>2, <2>3
<1>5. n <= l
  <2>1. ASSUME n > l PROVE FALSE
    <3>1. n >= 1 /\ 1 \in 1 .. n
      BY <1>3, <2>1
    <3>2. l = 1
      BY <1>4, <3>1
    <3>3. 2 \in 1 .. n
      BY <1>3, <2>1, <3>2
    <3>4. params[1] = params[2]
      BY <1>4, <3>1, <3>3
    <3> QED BY <1>1, <1>2, <3>1, <3>3, <3>4 DEF Distinct
  <2> QED BY <1>3, <2>1
<1>6. PICK S, T : params \in Seq(S) /\ list \in Seq(T)
  BY <1>2, SequenceOfItsItems
<1>7. \A p \in 1 .. n : params[p] = list[p]
  <2> SUFFICES ASSUME NEW p \in 1 .. n PROVE params[p] = list[p]
    OBVIOUS
  <2>1. p = 1
    BY <1>3, <1>5
  <2> QED BY <1>4, <2>1
<1>8. SubSeq(params, 1, n) = [p \in 1 .. n |-> params[p]]
  BY <1>1, <1>3, <1>6
<1>9. SubSeq(list, 1, n) = [p \in 1 .. n |-> list[p]]
  BY <1>1, <1>3, <1>5, <1>6
<1>10. SubSeq(params, 1, n) = SubSeq(list, 1, n)
  BY <1>7, <1>8, <1>9
<1> QED BY <1>1, <1>5, <1>10 DEF IsPrefix

-----------------------------------------------------------------------------
(***************************************************************************)
(* The kernel of a graph with one output: one loop, whose result the       *)
(* executor answers.                                                       *)
(***************************************************************************)

\* A fold over one item.
FirstIs(d, a, k) == a = IF k = 0 THEN d.base ELSE d.first

LowerStep(c, kernel, out) == LowerOutput(c.graph, c.tensors, c.groups, kernel, out)

LowerFold == INSTANCE InductionRules WITH Step <- LowerStep, Inv <- FirstIs, Def <- NoDef, P <- NoP

NodeStep(scalars, storage, node) == RunNode(storage, node, scalars)

NodeFold == INSTANCE InductionRules WITH Step <- NodeStep, Inv <- FirstIs, Def <- NoDef, P <- NoP

\* The kernel before its output is lowered.
EmptyKernel(inputs, outputs) ==
  [ok |-> TRUE, inputs |-> Len(inputs), buffers |-> inputs \o outputs,
   outs |-> [k \in DOMAIN outputs |-> Len(inputs) + k], nodes |-> <<>>]

\* A graph with one output is lowered by one step of the loop over the outputs.
LEMMA OneOutputLowered ==
  ASSUME NEW g, DOMAIN g.outputs = 1 .. 1, NEW tensors, NEW groups, NEW kernel, kernel = ToKernelIr(g, tensors, groups)
  PROVE  kernel = LowerOutput(g, tensors, groups,
                              EmptyKernel(InputBuffers(g, tensors), OutputBuffers(g, tensors)), g.outputs[1])
<1>1. PICK c, base, first, d :
        /\ c = [graph |-> g, tensors |-> tensors, groups |-> groups]
        /\ base = EmptyKernel(InputBuffers(g, tensors), OutputBuffers(g, tensors))
        /\ first = LowerOutput(g, tensors, groups, base, g.outputs[1])
        /\ d = [base |-> base, first |-> first]
  OBVIOUS
<1>2. c.graph = g /\ c.tensors = tensors /\ c.groups = groups /\ d.base = base /\ d.first = first
  BY <1>1
<1>3. kernel = LowerFold!Folded(c, base, g.outputs)
  BY <1>1, <1>2 DEF ToKernelIr, EmptyKernel, FoldLeft, MapThenFoldSet, Max, LowerStep, LowerFold!Folded, LowerFold!FoldTable
<1>4. FirstIs(d, base, 0)
  BY <1>2 DEF FirstIs
<1>5. ASSUME NEW k \in 1 .. 1, NEW a, FirstIs(d, a, k - 1) PROVE FirstIs(d, LowerStep(c, a, g.outputs[k]), k)
  <2>1. k = 1 /\ k - 1 = 0 /\ k # 0
    OBVIOUS
  <2>2. a = base
    BY <1>2, <1>5, <2>1 DEF FirstIs
  <2> QED BY <1>1, <1>2, <2>1, <2>2 DEF LowerStep, FirstIs
<1>6. FirstIs(d, kernel, 1)
  BY <1>3, <1>4, <1>5, LowerFold!FoldLeftInduction
<1> QED BY <1>1, <1>2, <1>6 DEF FirstIs

\* One loop that writes the first buffer.
LEMMA LoopExecuted ==
  ASSUME NEW kernel, IsSequence(kernel.buffers), Len(kernel.buffers) > 0,
         NEW node, DOMAIN kernel.nodes = 1 .. 1, kernel.nodes[1] = node, node.kind = "loop", node.writes = 1,
         IsSequence(kernel.outs), Len(kernel.outs) > 0, kernel.outs[1] = 1,
         NEW inputs, NEW scalars, NEW answers, answers = ExecuteOnBuffers(kernel, inputs, scalars)
  PROVE  /\ IsSequence(answers) /\ Len(answers) > 0
         /\ \E reads : answers[1] = RunChain(node.exprs, reads, scalars)
<1>1. PICK bound, reads, first, final, d :
        /\ bound = [b \in DOMAIN kernel.buffers |-> IF b <= kernel.inputs THEN inputs[b] ELSE 0]
        /\ reads = [k \in DOMAIN node.reads |-> bound[node.reads[k]]]
        /\ first = RunNode(bound, node, scalars)
        /\ final = NodeFold!Folded(scalars, bound, kernel.nodes)
        /\ d = [base |-> bound, first |-> first]
  OBVIOUS
<1>2. answers = [k \in DOMAIN kernel.outs |-> final[kernel.outs[k]]]
  BY <1>1 DEF ExecuteOnBuffers, FoldLeft, MapThenFoldSet, Max, NodeStep, NodeFold!Folded, NodeFold!FoldTable
<1>3. d.base = bound /\ d.first = first
  BY <1>1
<1>4. final = first
  <2>1. FirstIs(d, bound, 0)
    BY <1>3 DEF FirstIs
  <2>2. ASSUME NEW k \in 1 .. 1, NEW a, FirstIs(d, a, k - 1)
        PROVE  FirstIs(d, NodeStep(scalars, a, kernel.nodes[k]), k)
    <3>1. k = 1 /\ k - 1 = 0 /\ k # 0
      OBVIOUS
    <3>2. a = bound
      BY <1>3, <2>2, <3>1 DEF FirstIs
    <3> QED BY <1>1, <1>3, <3>1, <3>2 DEF NodeStep, FirstIs
  <2>3. FirstIs(d, final, 1)
    BY <1>1, <2>1, <2>2, NodeFold!FoldLeftInduction
  <2> QED BY <1>3, <2>3 DEF FirstIs
<1>5. first[1] = RunChain(node.exprs, reads, scalars)
  <2>1. DOMAIN kernel.buffers = 1 .. Len(kernel.buffers) /\ Len(kernel.buffers) \in Nat
    BY SequenceOfItsItems DEF IsSequence
  <2>2. 1 \in DOMAIN bound
    BY <1>1, <2>1
  <2>3. first = [bound EXCEPT ![1] = RunChain(node.exprs, reads, scalars)]
    BY <1>1 DEF RunNode
  <2> QED BY <2>2, <2>3
<1>6. PICK n : n = Len(kernel.outs)
  OBVIOUS
<1>7. n \in Nat /\ n > 0 /\ DOMAIN kernel.outs = 1 .. n
  BY <1>6, SequenceOfItsItems DEF IsSequence
<1>8. IsSequence(answers) /\ Len(answers) = n
  BY <1>2, <1>7, FunctionIsSequence
<1>9. answers[1] = first[1]
  BY <1>2, <1>4, <1>7
<1> QED BY <1>5, <1>7, <1>8, <1>9

\* The first item of a sequence, as a sequence.
LEMMA FirstOnly ==
  ASSUME NEW s, IsSequence(s), Len(s) > 0
  PROVE  SubSeq(s, 1, 1) = [k \in 1 .. 1 |-> s[1]]
<1>1. PICK n, S : n = Len(s) /\ S = {s[k] : k \in 1 .. Len(s)}
  OBVIOUS
<1>2. s \in Seq(S) /\ n \in Nat /\ n > 0
  BY <1>1, SequenceOfItsItems DEF IsSequence
<1>3. PICK u : u = SubSeq(s, 1, 1)
  OBVIOUS
<1>4. u \in Seq(S)
  BY <1>1, <1>2, <1>3
<1>5. Len(u) = 1
  BY <1>1, <1>2, <1>3
<1>6. u[1] = s[1]
  BY <1>1, <1>2, <1>3
<1>7. u = [k \in 1 .. Len(u) |-> u[k]]
  BY <1>4, SeqIsSequence DEF IsSequence
<1>8. u = [k \in 1 .. 1 |-> s[1]]
  <2>1. \A k \in 1 .. 1 : u[k] = s[1]
    BY <1>6
  <2> QED BY <1>5, <1>7, <2>1
<1> QED BY <1>3, <1>8

\* One loop that runs the expressions e and writes the first buffer.
LoopOf(kernel, e, root) ==
  /\ e.ok /\ IsSequence(kernel.buffers) /\ Len(kernel.buffers) > 0
  /\ IsSequence(kernel.outs) /\ Len(kernel.outs) > 0 /\ kernel.outs[1] = 1
  /\ DOMAIN kernel.nodes = 1 .. 1 /\ kernel.nodes[1].kind = "loop" /\ kernel.nodes[1].writes = 1
  /\ kernel.nodes[1].exprs = e.exprs /\ kernel.nodes[1].params = e.params /\ kernel.nodes[1].root = root

KernelForm(k) == k = [ok |-> k.ok, inputs |-> k.inputs, buffers |-> k.buffers, outs |-> k.outs, nodes |-> k.nodes]

\* The loop of the output.
LEMMA LoopLowered ==
  ASSUME NEW g, NEW tensors, NEW groups, NEW inputs, NEW outputs, NEW base, base = EmptyKernel(inputs, outputs),
         NEW root, NEW out, out = g.nodes[root].result, Representative(g, out) = out,
         IsSequence(inputs), Len(inputs) = 0, IsSequence(outputs), Len(outputs) = IF out \in tensors THEN 1 ELSE 0,
         LowerLoop(g, tensors, groups, base, root).ok
  PROVE  LoopOf(LowerLoop(g, tensors, groups, base, root), Expressions(g, tensors, groups, root), root)
<1>1. PICK kernel, e, n, size, buffers, outs :
        /\ kernel = LowerLoop(g, tensors, groups, base, root) /\ e = Expressions(g, tensors, groups, root)
        /\ n = Len(base.buffers) /\ size = Len(outputs)
        /\ buffers = inputs \o outputs /\ outs = [k \in DOMAIN outputs |-> Len(inputs) + k]
  OBVIOUS
<1>2. KernelForm(base) /\ base.buffers = buffers /\ base.outs = outs /\ base.nodes = <<>>
  BY <1>1 DEF EmptyKernel, KernelForm
<1>3. DOMAIN outputs = 1 .. size /\ size \in Nat
  BY <1>1, SequenceOfItsItems DEF IsSequence
<1>4. IsSequence(buffers) /\ Len(buffers) = size /\ n = size
  <2>1. PICK S, T : inputs \in Seq(S) /\ outputs \in Seq(T)
    BY SequenceOfItsItems
  <2>2. IsSequence(buffers)
    BY <1>1, ConcatHolds
  <2>3. Len(buffers) = size
    BY <1>1, <1>3, <2>1
  <2> QED BY <1>1, <1>2, <2>2, <2>3
<1>5. IsSequence(outs) /\ Len(outs) = size
  BY <1>1, <1>3, FunctionIsSequence, SMTT(30)
<1>6. PICK longer, y, more, made : /\ longer = Append(buffers, out) /\ y = n + 1 /\ more = Append(outs, y)
                                   /\ made = [base EXCEPT !.buffers = longer, !.outs = more]
  OBVIOUS
<1>7. PICK k : k = IF out \in tensors THEN base ELSE made
  OBVIOUS
<1>8. PICK node : node = [kind |-> "loop", root |-> root,
                          reads |-> [s \in DOMAIN e.elems |-> BufferOf(base, e.elems[s])],
                          exprs |-> e.exprs, params |-> e.params, writes |-> Output(k)]
  OBVIOUS
<1>9. kernel = IF ~e.ok THEN [base EXCEPT !.ok = FALSE] ELSE [k EXCEPT !.nodes = Append(@, node)]
  <2>1. made = [base EXCEPT !.buffers = Append(@, out), !.outs = Append(@, Len(base.buffers) + 1)]
    BY <1>1, <1>2, <1>6
  <2> QED BY <1>1, <1>7, <1>8, <2>1, ZenonT(40) DEF LowerLoop
<1>10. e.ok
  <2>1. ASSUME ~e.ok PROVE FALSE
    <3>1. kernel = [base EXCEPT !.ok = FALSE]
      BY <1>9, <2>1
    <3>2. ~kernel.ok
      BY <1>2, <3>1 DEF KernelForm
    <3> QED BY <1>1, <3>2
  <2> QED BY <2>1
<1>11. made = [ok |-> base.ok, inputs |-> base.inputs, buffers |-> longer, outs |-> more, nodes |-> base.nodes]
  BY <1>2, <1>6 DEF KernelForm
<1>12. /\ KernelForm(k) /\ k.nodes = <<>> /\ IsSequence(k.buffers) /\ Len(k.buffers) = 1
       /\ IsSequence(k.outs) /\ Len(k.outs) = 1 /\ k.outs[1] = 1
  <2>1. CASE out \in tensors
    <3>1. size = 1 /\ k = base
      BY <1>1, <1>7, <2>1
    <3>2. outs[1] = 1
      BY <1>1, <1>3, <3>1
    <3> QED BY <1>2, <1>4, <1>5, <3>1, <3>2
  <2>2. CASE out \notin tensors
    <3>1. size = 0 /\ k = made /\ n = 0 /\ y = 1
      BY <1>1, <1>4, <1>6, <1>7, <2>2
    <3>2. IsSequence(longer)
      BY <1>4, <1>6, SequenceAppend
    <3>3. Len(longer) = size + 1
      BY <1>4, <1>6, SequenceAppend
    <3>4. IsSequence(more)
      BY <1>5, <1>6, SequenceAppend
    <3>5. Len(more) = size + 1
      BY <1>5, <1>6, SequenceAppend
    <3>6. more[size + 1] = y
      BY <1>5, <1>6, SequenceAppend
    <3>7. KernelForm(k) /\ k.buffers = longer /\ k.outs = more /\ k.nodes = <<>>
      BY <1>2, <1>11, <3>1 DEF KernelForm
    <3> QED BY <3>1, <3>2, <3>3, <3>4, <3>5, <3>6, <3>7
  <2> QED BY <2>1, <2>2
<1>13. /\ kernel.nodes = <<node>> /\ kernel.buffers = k.buffers /\ kernel.outs = k.outs
  <2>1. kernel = [k EXCEPT !.nodes = Append(@, node)]
    BY <1>9, <1>10
  <2>2. PICK nodes : nodes = <<node>>
    OBVIOUS
  <2>3. Append(k.nodes, node) = nodes
    <3>1. Append(<<>>, node) = <<node>>
      OBVIOUS
    <3> QED BY <1>12, <2>2, <3>1
  <2>4. kernel = [k EXCEPT !.nodes = nodes]
    BY <2>1, <2>3
  <2>5. kernel = [ok |-> k.ok, inputs |-> k.inputs, buffers |-> k.buffers, outs |-> k.outs, nodes |-> nodes]
    BY <1>12, <2>4 DEF KernelForm
  <2> QED BY <2>2, <2>5
<1>14. DOMAIN kernel.nodes = 1 .. 1 /\ kernel.nodes[1] = node
  BY <1>13
<1>15. node.writes = 1
  BY <1>8, <1>12 DEF Output
<1> QED BY <1>1, <1>8, <1>10, <1>12, <1>13, <1>14, <1>15 DEF LoopOf

\* A kernel that the executor knows answers what the output denotes.
LEMMA KernelComputes ==
  ASSUME NEW g, Compilable(g), NEW x, NEW den, Denotes(g, x, den), NEW tensors, NEW groups,
         NEW kernel, kernel = ToKernelIr(g, tensors, groups), kernel.ok,
         Executable(g, kernel), OneKnownRegion(g, kernel),
         IsPrefix(kernel.nodes[1].params, Placeholders(g)) \/ Len(Placeholders(g)) <= 1
  PROVE  Execute(g, kernel, x) = [k \in 1 .. Len(g.outputs) |-> den[g.outputs[k]]]
<1>1. GraphOK(g) /\ Sound(g)
  BY DEF Compilable, Sound
<1>2. IsSequence(g.outputs) /\ Len(g.outputs) = 1 /\ DOMAIN g.outputs = 1 .. 1
  <2>1. IsSequence(g.outputs)
    BY <1>1 DEF GraphOK, TablesOK
  <2>2. Len(g.outputs) = 1
    BY DEF OneKnownRegion
  <2> QED BY <2>1, <2>2, SequenceOfItsItems
<1>3. PICK out, inputs, outputs, base : /\ out = g.outputs[1] /\ inputs = InputBuffers(g, tensors)
                                        /\ outputs = OutputBuffers(g, tensors)
                                        /\ base = EmptyKernel(inputs, outputs)
  OBVIOUS
<1>4. kernel = LowerOutput(g, tensors, groups, base, out)
  BY <1>2, <1>3, OneOutputLowered
<1>5. out \in Reachable(g) /\ out \in Reached(g) /\ Representative(g, out) = out
  <2>1. out \in Reachable(g)
    BY <1>2, <1>3, ReachableIs
  <2>2. out \in Reached(g)
    BY <2>1, ReachableIs
  <2> QED BY <2>1, <2>2, ReachedValue
<1>6. IsResult(g, out)
  BY <1>2, <1>3, <1>5 DEF Executable
<1>7. PICK root : MadeBy(g, out, root)
  BY <1>5, <1>6, ReachedValue
<1>8. base.ok /\ base.nodes = <<>>
  BY <1>3, SMTT(30) DEF EmptyKernel
<1>9. kernel = IF g.nodes[root].op = "matmul" THEN LowerProduct(g, base, root)
               ELSE LowerLoop(g, tensors, groups, base, root)
  BY <1>4, <1>5, <1>6, <1>7, <1>8 DEF LowerOutput, MadeBy
<1>10. g.nodes[root].op # "matmul"
  <2> SUFFICES ASSUME g.nodes[root].op = "matmul" PROVE FALSE
    OBVIOUS
  <2>1. PICK buffers, node : /\ buffers = OperandBuffers(g, base, root)
                             /\ node = [kind |-> "product", root |-> root, reads |-> buffers,
                                        exprs |-> <<>>, params |-> <<>>, writes |-> Output(base)]
    OBVIOUS
  <2>2. kernel = [base EXCEPT !.ok = FALSE] \/ kernel = [base EXCEPT !.nodes = Append(@, node)]
    BY <1>9, <2>1 DEF LowerProduct, AddProduct
  <2>3. CASE kernel = [base EXCEPT !.ok = FALSE]
    BY <1>3, <2>3 DEF EmptyKernel
  <2>4. CASE kernel = [base EXCEPT !.nodes = Append(@, node)]
    <3>1. Append(<<>>, node) = <<node>>
      OBVIOUS
    <3>2. kernel = [base EXCEPT !.nodes = <<node>>]
      BY <1>8, <2>4, <3>1
    <3>3. kernel.nodes = <<node>>
      BY <1>3, <3>2 DEF EmptyKernel
    <3>4. kernel.nodes[1].root = root
      BY <2>1, <3>3
    <3> QED BY <3>4 DEF OneKnownRegion, Elementwise
  <2> QED BY <2>2, <2>3, <2>4
<1>11. PICK e : e = Expressions(g, tensors, groups, root)
  OBVIOUS
<1>12. IsSequence(inputs) /\ Len(inputs) = 0 /\ NoTensorInput(g, tensors)
  <2>1. PICK placeholders : placeholders = Placeholders(g)
    OBVIOUS
  <2>2. /\ IsSequence(placeholders)
        /\ \A v : Holds(placeholders, v) <=> v \in 1 .. Len(g.values) /\ g.values[v].kind = "placeholder"
    BY <1>1, <2>1, PlaceholdersAre
  <2>3. inputs = Within(placeholders, tensors \intersect Reachable(g))
    BY <1>3, <2>1 DEF InputBuffers
  <2>4. /\ IsSequence(inputs)
        /\ \A v : Holds(inputs, v) <=> Holds(placeholders, v) /\ v \in tensors \intersect Reachable(g)
    BY <2>2, <2>3, WithinSelects
  <2>5. Len(inputs) = 0
    <3>1. base.inputs = Len(inputs)
      BY <1>3, SMTT(30) DEF EmptyKernel
    <3>2. kernel.inputs = base.inputs
      BY <1>3, <1>9, <1>10 DEF LowerLoop, EmptyKernel
    <3> QED BY <3>1, <3>2 DEF Executable
  <2>6. \A v : ~Holds(inputs, v)
    BY <2>5 DEF Holds
  <2>7. \A v \in Reachable(g) : v \in 1 .. Len(g.values)
    BY ReachableIs, ReachedValue
  <2> QED BY <2>2, <2>4, <2>5, <2>6, <2>7 DEF NoTensorInput
<1>13. IsSequence(outputs) /\ Len(outputs) = IF out \in tensors THEN 1 ELSE 0
  <2>1. PICK outs : outs = [k \in DOMAIN g.outputs |-> Representative(g, g.outputs[k])]
    OBVIOUS
  <2>2. IsSequence(outs) /\ Len(outs) = 1 /\ outs[1] = out
    <3>1. IsSequence(outs) /\ Len(outs) = 1
      BY <1>2, <2>1, FunctionIsSequence
    <3> QED BY <1>2, <1>3, <1>5, <2>1, <3>1
  <2>3. outputs = Within(outs, tensors)
    BY <1>3, <2>1 DEF OutputBuffers
  <2>4. Distinct(outs)
    BY <2>2 DEF Distinct
  <2>5. IsSequence(outputs) /\ Distinct(outputs) /\ \A v : Holds(outputs, v) <=> Holds(outs, v) /\ v \in tensors
    BY <2>2, <2>3, <2>4, WithinSelects
  <2>6. \A v : Holds(outs, v) <=> v = out
    BY <2>2 DEF Holds
  <2>7. ToSet(outputs) = IF out \in tensors THEN {out} ELSE {}
    BY <2>5, <2>6, HoldsIsMember
  <2>8. Cardinality({}) = 0 /\ Cardinality({out}) = 1
    BY FS_EmptySet, FS_Singleton
  <2> QED BY <2>5, <2>7, <2>8, DistinctLength
<1>14. out = g.nodes[root].result /\ root = g.values[out].producer /\ root \in 1 .. Len(g.nodes)
  BY <1>7 DEF MadeBy
<1>15. PICK node : node = kernel.nodes[1]
  OBVIOUS
<1>16. LoopOf(kernel, e, root)
  <2>1. base = EmptyKernel(inputs, outputs)
    BY <1>3, SMTT(30)
  <2>2. out = g.nodes[root].result /\ Representative(g, out) = out
    BY <1>5, <1>14
  <2>3. IsSequence(inputs) /\ Len(inputs) = 0 /\ IsSequence(outputs) /\ Len(outputs) = IF out \in tensors THEN 1 ELSE 0
    BY <1>12, <1>13
  <2>4. kernel = LowerLoop(g, tensors, groups, base, root)
    BY <1>9, <1>10
  <2>5. LowerLoop(g, tensors, groups, base, root).ok
    BY <2>4
  <2>6. LoopOf(LowerLoop(g, tensors, groups, base, root), Expressions(g, tensors, groups, root), root)
    BY <2>1, <2>2, <2>3, <2>5, LoopLowered
  <2> QED BY <1>11, <2>4, <2>6
<1>17. /\ e.ok /\ IsSequence(kernel.buffers) /\ Len(kernel.buffers) > 0
       /\ IsSequence(kernel.outs) /\ Len(kernel.outs) > 0 /\ kernel.outs[1] = 1
       /\ DOMAIN kernel.nodes = 1 .. 1 /\ node.kind = "loop" /\ node.writes = 1
       /\ node.exprs = e.exprs /\ node.params = e.params /\ node.root = root
  BY <1>15, <1>16, SMTT(30) DEF LoopOf
<1>18. RegionNode(g, root, root)
  <2>1. Elementwise(g.nodes[root].op)
    BY <1>15, <1>17 DEF OneKnownRegion
  <2>2. root <= root
    <3>1. \A n \in Int : n <= n
      OBVIOUS
    <3>2. root \in Int
      BY <1>7 DEF MadeBy
    <3> QED BY <3>1, <3>2, Zenon
  <2> QED BY <1>5, <1>7, <1>14, <2>1, <2>2 DEF RegionNode, MadeBy
<1>19. PICK order : order = RegionOrder(g, groups, root)
  OBVIOUS
<1>20. EmitIs(Emission(g, den, order), e, Len(order))
  BY <1>11, <1>12, <1>18, <1>19, ExpressionsAre
<1>21. ScalarsAre(den, e.params, x)
  <2>1. ScalarSlots(g, e.params) /\ IsSequence(e.params)
    <3>1. Emission(g, den, order).graph = g
      BY DEF Emission
    <3> QED BY <1>17, <1>20, <3>1 DEF EmitIs, ScalarSlots
  <2>2. IsPrefix(e.params, Placeholders(g))
    BY <1>1, <1>15, <1>17, <2>1, OneScalar
  <2> QED BY <1>1, <2>1, <2>2, ScalarsBound
<1>22. PICK answers : answers = ExecuteOnBuffers(kernel, <<>>, x)
  OBVIOUS
<1>23. IsSequence(answers) /\ Len(answers) > 0 /\ \E reads : answers[1] = RunChain(node.exprs, reads, x)
  BY <1>15, <1>17, <1>22, LoopExecuted, SMTT(30)
<1>24. answers[1] = den[out]
  <2>1. PICK reads : answers[1] = RunChain(node.exprs, reads, x)
    BY <1>23
  <2>2. RunChain(e.exprs, reads, x) = den[g.nodes[root].result]
    BY <1>17, <1>18, <1>19, <1>20, <1>21, ChainComputes
  <2> QED BY <1>14, <1>17, <2>1, <2>2
<1>25. Execute(g, kernel, x) = [k \in 1 .. 1 |-> answers[1]]
  BY <1>2, <1>22, <1>23, FirstOnly DEF Execute
<1>26. \A k \in 1 .. 1 : answers[1] = den[g.outputs[k]]
  BY <1>3, <1>24
<1> QED BY <1>2, <1>25, <1>26

\* Scalars are passed to a kernel as they are to the interpreter: its
\* parameters, in the order of their first use, are the first placeholders.
ScalarsInOrder ==
  \A groups \in Groupings(graph, <<>>) :
    LET kernel == CompiledKernel(graph, groups) IN
    (kernel.ok /\ Executable(graph, kernel) /\ OneKnownRegion(graph, kernel)) =>
      IsPrefix(kernel.nodes[1].params, Placeholders(graph))

\* The kernel of a verified graph in which nothing dead is reached.
LEMMA AnswerKernel ==
  AnswerInv /\ (ScalarsInOrder \/ Len(Placeholders(graph)) <= 1) =>
    KernelAnswersAsWritten \/ ("dce" \in interrupted /\ ReadsDeadNode(graph))
<1> SUFFICES ASSUME AnswerInv, ScalarsInOrder \/ Len(Placeholders(graph)) <= 1, phase = "between",
                    ~("dce" \in interrupted /\ ReadsDeadNode(graph)),
                    NEW groups \in Groupings(graph, <<>>),
                    NEW kernel, kernel = CompiledKernel(graph, groups),
                    kernel.ok, Executable(graph, kernel), OneKnownRegion(graph, kernel)
             PROVE  [inputs \in TestInputs |-> Execute(graph, kernel, inputs)] = wanted
  BY DEF KernelAnswersAsWritten
<1>1. Sound(graph) /\ VerifyGraph(graph)
  BY DEF AnswerInv, WellMade, VerifiedOK
<1>2. Covered(graph)
  <2>1. CASE "dce" \in interrupted
    BY <2>1, CoveredReadsNothingDead
  <2>2. CASE "dce" \notin interrupted
    <3>1. LiveBelow(graph)
      BY <2>2 DEF AnswerInv, LivesOK
    <3> QED BY <1>1, <3>1, LiveBelowCovers
  <2> QED BY <2>1, <2>2
<1>3. Compilable(graph)
  BY <1>1, <1>2 DEF Compilable
<1>4. IsPrefix(kernel.nodes[1].params, Placeholders(graph)) \/ Len(Placeholders(graph)) <= 1
  BY DEF ScalarsInOrder
<1>5. PICK tensors : kernel = ToKernelIr(graph, tensors, groups)
  BY DEF CompiledKernel
<1>6. \A x \in TestInputs : wanted[x] = Execute(graph, kernel, x)
  <2> SUFFICES ASSUME NEW x \in TestInputs PROVE wanted[x] = Execute(graph, kernel, x)
    OBVIOUS
  <2>1. PICK den : Denotes(graph, x, den) /\ wanted[x] = [k \in 1 .. Len(graph.outputs) |-> den[graph.outputs[k]]]
    BY DEF AnswerInv, AnswerKept
  <2>2. Execute(graph, kernel, x) = [k \in 1 .. Len(graph.outputs) |-> den[graph.outputs[k]]]
    BY <1>3, <1>4, <1>5, <2>1, KernelComputes
  <2> QED BY <2>1, <2>2
<1>7. wanted = [x \in TestInputs |-> wanted[x]]
  BY DEF AnswerInv, AnswerKept
<1> QED BY <1>6, <1>7

\* The kernel that a compilation makes between two passes, fused or not,
\* answers for every input as the frontend's graph did: the region is gathered
\* from the rewritten graph, emitted producers first, its expressions read
\* temporaries, constants and scalar parameters, and the executor runs them in
\* turn (lower.to_kernel_ir.cpp, execution.cpp). It is so for the scalar
\* kernels of one output that the executor knows, when their parameters are
\* the first placeholders in order, with the way out of MeaningPreserved.
THEOREM KernelsPreserveMeaning ==
  ASSUME "extract" \notin Passes, OneInputPerName
  PROVE  Spec => [](ScalarsInOrder => KernelAnswersAsWritten \/ ("dce" \in interrupted /\ ReadsDeadNode(graph)))
<1>1. Spec => []AnswerInv
  BY AnswerInvariant
<1> QED BY <1>1, AnswerKernel, PTL

\* The frontend has one input at most.
OneInput ==
  \A j, k \in 1 .. Len(Leaves) : Leaves[j].kind = "placeholder" /\ Leaves[k].kind = "placeholder" => j = k

\* One input then stands in the graph, whatever is done to it.
LEMMA OneInputOnly ==
  ASSUME OneInput, NEW g, GraphOK(g), NamesOnce(g)
  PROVE  Len(Placeholders(g)) <= 1
<1>1. PICK list, l : list = Placeholders(g) /\ l = Len(list)
  OBVIOUS
<1>2. /\ IsSequence(list) /\ Ascending(list)
      /\ \A v : Holds(list, v) <=> v \in 1 .. Len(g.values) /\ g.values[v].kind = "placeholder"
  BY <1>1, PlaceholdersAre
<1>3. l \in Nat
  BY <1>1, <1>2 DEF IsSequence
<1>4. ASSUME l > 1 PROVE FALSE
  <2>1. 1 \in 1 .. l /\ 2 \in 1 .. l
    BY <1>3, <1>4
  <2>2. Holds(list, list[1]) /\ Holds(list, list[2])
    BY <1>1, <2>1 DEF Holds
  <2>3. PICK v, w : v = list[1] /\ w = list[2]
    OBVIOUS
  <2>4. /\ v \in 1 .. Len(g.values) /\ g.values[v].kind = "placeholder"
        /\ w \in 1 .. Len(g.values) /\ g.values[w].kind = "placeholder"
    BY <1>2, <2>2, <2>3
  <2>5. g.values[v].payload \in InputNames /\ g.values[w].payload \in InputNames
    BY <2>4 DEF NamesOnce
  <2>6. \A x, y \in InputNames : x = y
    BY DEF OneInput, InputNames
  <2>7. v = w
    BY <2>4, <2>5, <2>6 DEF NamesOnce
  <2>8. v < w
    BY <1>1, <1>2, <2>1, <2>3 DEF Ascending
  <2> QED BY <2>4, <2>7, <2>8
<1> QED BY <1>1, <1>3, <1>4

\* With one input nothing can be out of order, and the kernel answers as the
\* frontend's graph did.
THEOREM OneInputKernels ==
  ASSUME "extract" \notin Passes, OneInput
  PROVE  Spec => [](KernelAnswersAsWritten \/ ("dce" \in interrupted /\ ReadsDeadNode(graph)))
<1>1. OneInputPerName
  BY DEF OneInput, OneInputPerName
<1>2. Spec => []AnswerInv
  BY <1>1, AnswerInvariant
<1>3. AnswerInv => Len(Placeholders(graph)) <= 1
  BY OneInputOnly DEF AnswerInv, WellMade, Sound
<1> QED BY <1>2, <1>3, AnswerKernel, PTL
=============================================================================
