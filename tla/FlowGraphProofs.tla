--------------------------- MODULE FlowGraphProofs --------------------------
(***************************************************************************)
(* Proofs about the flow graph for any nodes and flows: the matrix has all *)
(* the references, a stage only needs earlier ones, and the stages of a    *)
(* finished graph are exactly what the entry needs.                        *)
(***************************************************************************)
EXTENDS FlowGraph, FiniteSetTheorems, WellFoundedInduction, TLAPS

USE NodesAssumption DEF All, Input

-----------------------------------------------------------------------------
(* What a node refers to is what it needs. *)

LEMMA FlowFields ==
  ASSUME flow \in Flows
  PROVE  /\ flow.first \in [Nodes -> Nodes]
         /\ flow.conditional \in [Nodes -> BOOLEAN]
         /\ flow.condition \in [Nodes -> SUBSET (Nodes \union {Input})]
         /\ \A n \in Nodes : flow.conditional[n] \/ flow.condition[n] = {}
         /\ flow.refs \in [Nodes \union {Entry} -> SUBSET (Nodes \union {Input})]
  BY FlowsAssumption

LEMMA ReferencesType ==
  ASSUME flow \in Flows, NEW n \in All
  PROVE  References(n) \subseteq Nodes \union {Input} /\ Alternates(n) \subseteq Nodes
<1>1. TriedBefore(n) \subseteq Nodes /\ Alternates(n) \subseteq Nodes
  BY DEF TriedBefore, Alternates
<1>2. CASE n = Input
  BY <1>1, <1>2 DEF References
<1>3. CASE n # Input
  <2>1. flow.refs[n] \subseteq Nodes \union {Input}
    BY <1>3, FlowFields
  <2>2. \A m \in Nodes : flow.condition[m] \subseteq Nodes \union {Input}
    BY FlowFields
  <2>3. CASE n \in Nodes
    <3> DEFINE conditions == UNION {flow.condition[m] : m \in TriedBefore(n) \union {n}}
    <3>1. conditions \subseteq Nodes \union {Input}
      BY <1>1, <2>2, <2>3
    <3>2. References(n) = flow.refs[n] \union conditions
      BY <1>3, <2>3 DEF References
    <3>3. QED
      BY <1>1, <2>1, <3>1, <3>2
  <2>4. CASE n \notin Nodes
    BY <1>1, <1>3, <2>1, <2>4 DEF References
  <2>5. QED
    BY <2>3, <2>4
<1>4. QED
  BY <1>2, <1>3

LEMMA ChosenAreAlternates ==
  ASSUME flow \in Flows, NEW n \in All
  PROVE  Chosen(n) = Alternates(n)
<1>1. CASE n \notin Nodes
  BY <1>1 DEF Chosen, SameLabel, Alternates
<1>2. CASE n \in Nodes
  <2>1. ASSUME NEW m \in Nodes, flow.first[m] = flow.first[n], ~flow.conditional[m]
        PROVE  (\A k \in SameLabel(n) : ~flow.conditional[k] => k <= m)
                 <=> (\A k \in Nodes : k > m /\ flow.first[k] = flow.first[n]
                                         => flow.conditional[k])
    BY <1>2, <2>1 DEF SameLabel
  <2>2. QED
    BY <1>2, <2>1 DEF Chosen, SameLabel, Alternates
<1>3. QED
  BY <1>1, <1>2

LEMMA MentionsAreReferences ==
  ASSUME flow \in Flows, NEW n \in All
  PROVE  Mentions(n) = References(n)
<1>1. CASE n = Input
  BY <1>1 DEF Mentions, References, SameLabel
<1>2. CASE n = Entry
  <2>1. SameLabel(n) = {} /\ n # Input /\ n \notin Nodes
    BY <1>2 DEF SameLabel
  <2>2. QED
    BY <2>1 DEF Mentions, References
<1>3. CASE n \in Nodes
  <2> DEFINE tested == {k \in SameLabel(n) :
                          flow.conditional[k] /\ (k <= n \/ ~flow.conditional[n])}
             tried  == TriedBefore(n) \union {n}
  <2>1. n # Input
    BY <1>3
  <2>2. \A m \in tested : m \in tried
    BY <1>3, FlowFields DEF SameLabel, TriedBefore, Alternates
  <2>3. \A m \in tried : m \in tested \/ flow.condition[m] = {}
    BY <1>3, FlowFields DEF SameLabel, TriedBefore, Alternates
  <2>4. UNION {flow.condition[m] : m \in tested} = UNION {flow.condition[m] : m \in tried}
    <3> HIDE DEF tested, tried
    <3>1. QED
      BY <2>2, <2>3
  <2>5. Mentions(n) = flow.refs[n] \union UNION {flow.condition[m] : m \in tested}
    BY <2>1 DEF Mentions
  <2>6. References(n) = flow.refs[n] \union UNION {flow.condition[m] : m \in tried}
    BY <1>3, <2>1 DEF References
  <2>7. QED
    BY <2>4, <2>5, <2>6
<1>4. QED
  BY <1>1, <1>2, <1>3

(* The nodes a row of the matrix marks are those the node needs. *)
LEMMA RowIsNeeds ==
  ASSUME flow \in Flows, NEW n \in All
  PROVE  /\ Row(n) = {<<n, m>> : m \in Needs(n)}
         /\ Needs(n) = References(n) \union UNION {Alternates(k) : k \in References(n)}
<1>1. \A k \in References(n) : Chosen(k) = Alternates(k)
  BY ReferencesType, ChosenAreAlternates
<1>2. Needs(n) = UNION {{k} \union Chosen(k) : k \in References(n)}
  BY MentionsAreReferences DEF Needs
<1>3. Needs(n) = References(n) \union UNION {Alternates(k) : k \in References(n)}
  BY <1>1, <1>2
<1>4. QED
  BY <1>3 DEF Row

LEMMA NeedsType ==
  ASSUME flow \in Flows, NEW n \in All
  PROVE  Needs(n) \subseteq All /\ (n = Input => Needs(n) = {})
<1>1. Needs(n) \subseteq All
  <2>1. References(n) \subseteq All
    BY ReferencesType
  <2>2. \A k \in References(n) : Alternates(k) \subseteq All
    BY <2>1, ReferencesType
  <2>3. QED
    BY <2>1, <2>2, RowIsNeeds
<1>2. n = Input => References(n) = {}
  BY DEF References
<1>3. QED
  BY <1>1, <1>2, RowIsNeeds

(* Nothing but the flow decides what a node needs. *)
LEMMA SameFlow ==
  ASSUME UNCHANGED flow
  PROVE  /\ ClosedSets' = ClosedSets
         /\ \A n \in All : /\ References(n)' = References(n)
                           /\ Alternates(n)' = Alternates(n)
                           /\ Needs(n)' = Needs(n)
                           /\ Row(n)' = Row(n)
<1> USE DEF References, TriedBefore, Alternates, Needs, Mentions, Chosen, SameLabel, Row
<1>1. \A n \in All : References(n)' = References(n) /\ Alternates(n)' = Alternates(n)
  OBVIOUS
<1>2. \A n \in All : Needs(n)' = Needs(n)
  OBVIOUS
<1>3. \A n \in All : Row(n)' = Row(n)
  OBVIOUS
<1>4. ClosedSets' = ClosedSets
  BY DEF ClosedSets
<1>5. QED
  BY <1>1, <1>2, <1>3, <1>4

-----------------------------------------------------------------------------
(* Type correctness.  The strengthening: what is needed by a node that was
   looked at has been looked at or will be, and nothing else is built before
   all have been. *)

Looked ==
  /\ flow \in Flows
  /\ Entry \in used_nodes \union todo
  /\ \A n \in used_nodes : References(n) \union Alternates(n) \subseteq used_nodes \union todo
  /\ pc # "reach" => todo = {}
  /\ pc = "reach" => adjmat = {} /\ graph = <<>> /\ solved = {Input} /\ circular = {}

TypeInv == TypeOK /\ Looked

LEMMA InitTypeInv == Init => TypeInv
<1> SUFFICES ASSUME Init PROVE TypeInv
  OBVIOUS
<1>1. graph \in Seq(SUBSET used_nodes)
  BY DEF Init
<1>2. QED
  BY <1>1 DEF Init, TypeInv, TypeOK, Looked

LEMMA NeedsLooked ==
  ASSUME TypeInv, todo = {}, NEW n \in used_nodes
  PROVE  Needs(n) \subseteq used_nodes
<1>1. n \in All /\ flow \in Flows
  BY DEF TypeInv, TypeOK, Looked
<1>2. References(n) \subseteq used_nodes
  BY DEF TypeInv, Looked
<1>3. \A k \in References(n) : Alternates(k) \subseteq used_nodes
  BY <1>2 DEF TypeInv, Looked
<1>4. QED
  BY <1>1, <1>2, <1>3, RowIsNeeds

LEMMA RowsLooked ==
  ASSUME TypeInv, todo = {}
  PROVE  UNION {Row(n) : n \in used_nodes} \subseteq used_nodes \X used_nodes
<1>1. \A n \in used_nodes : n \in All /\ flow \in Flows
  BY DEF TypeInv, TypeOK, Looked
<1>2. \A n \in used_nodes : Row(n) = {<<n, m>> : m \in Needs(n)} /\ Needs(n) \subseteq used_nodes
  BY <1>1, RowIsNeeds, NeedsLooked
<1>3. QED
  BY <1>2

LEMMA ReachTypeInv ==
  ASSUME TypeInv, Reach
  PROVE  TypeInv'
<1>1. \A n \in All : References(n)' = References(n) /\ Alternates(n)' = Alternates(n)
  BY SameFlow DEF Reach
<1>2. CASE todo = {}
  <2>1. adjmat' \subseteq used_nodes \X used_nodes
    BY <1>2, RowsLooked DEF Reach
  <2>2. UNCHANGED <<flow, todo, used_nodes, graph, solved, distance, circular>> /\ pc' = "sweep"
    BY <1>2 DEF Reach
  <2>3. TypeOK'
    BY <2>1, <2>2 DEF TypeInv, TypeOK
  <2>4. \A n \in used_nodes : n \in All
    BY DEF TypeInv, TypeOK
  <2>5. Looked'
    BY <1>1, <1>2, <2>2, <2>4 DEF TypeInv, Looked
  <2>6. QED
    BY <2>3, <2>5 DEF TypeInv
<1>3. CASE todo # {}
  <2>1. PICK n \in todo :
          /\ used_nodes' = used_nodes \union {n}
          /\ todo' = (todo \union Alternates(n) \union References(n)) \ used_nodes'
    BY <1>3 DEF Reach
  <2>2. UNCHANGED <<flow, pc, adjmat, graph, solved, distance, circular>> /\ pc = "reach"
    BY <1>3 DEF Reach
  <2>3. n \in All /\ flow \in Flows
    BY DEF TypeInv, TypeOK, Looked
  <2>4. References(n) \subseteq All /\ Alternates(n) \subseteq All
    BY <2>3, ReferencesType
  <2>5. graph' \in Seq(SUBSET used_nodes')
    BY <2>2 DEF TypeInv, Looked
  <2>6. adjmat' = {} /\ circular' = {} /\ solved' = {Input}
    BY <2>2 DEF TypeInv, Looked
  <2>7. TypeOK'
    BY <2>1, <2>2, <2>3, <2>4, <2>5, <2>6 DEF TypeInv, TypeOK
  <2>8. used_nodes' \union todo' = used_nodes \union todo \union Alternates(n) \union References(n)
    BY <2>1
  <2>9. \A k \in used_nodes' : (References(k) \union Alternates(k))'
                                \subseteq used_nodes' \union todo'
    <3> SUFFICES ASSUME NEW k \in used_nodes'
                 PROVE  (References(k) \union Alternates(k))' \subseteq used_nodes' \union todo'
      OBVIOUS
    <3>1. k \in All /\ (k = n \/ k \in used_nodes)
      BY <2>1, <2>3 DEF TypeInv, TypeOK
    <3>2. References(k)' = References(k) /\ Alternates(k)' = Alternates(k)
      BY <3>1, <1>1
    <3>3. CASE k = n
      BY <2>8, <3>2, <3>3
    <3>4. CASE k \in used_nodes
      BY <2>8, <3>2, <3>4 DEF TypeInv, Looked
    <3>5. QED
      BY <3>1, <3>3, <3>4
  <2>10. Looked'
    BY <2>2, <2>8, <2>9 DEF TypeInv, Looked
  <2>11. QED
    BY <2>7, <2>10 DEF TypeInv
<1>4. QED
  BY <1>2, <1>3

LEMMA SweepTypeInv ==
  ASSUME TypeInv, Sweep
  PROVE  TypeInv'
<1>1. Solvable \subseteq used_nodes
  BY DEF Solvable
<1>2. UNCHANGED <<flow, todo, used_nodes, adjmat, distance, circular>> /\ pc = "sweep"
  BY DEF Sweep
<1>3. \A n \in used_nodes : References(n)' = References(n) /\ Alternates(n)' = Alternates(n)
  BY <1>2, SameFlow DEF TypeInv, TypeOK
<1>4. pc' \in {"sweep", "done", "circles"}
  BY DEF Sweep
<1>5. graph' \in Seq(SUBSET used_nodes) /\ solved' \subseteq used_nodes \union {Input}
  <2>1. graph \in Seq(SUBSET used_nodes) /\ solved \subseteq used_nodes \union {Input}
    BY DEF TypeInv, TypeOK
  <2>2. CASE Entry \in Solvable
    <3>1. UNCHANGED graph /\ solved' = solved \union {Entry} /\ Entry \in used_nodes
      BY <1>1, <2>2 DEF Sweep
    <3>2. QED
      BY <2>1, <3>1
  <2>3. CASE Entry \notin Solvable
    <3>1. graph' = Append(graph, Solvable) /\ solved' = solved \union Solvable
      BY <2>3 DEF Sweep
    <3>2. Solvable \in SUBSET used_nodes
      BY <1>1
    <3>3. graph' \in Seq(SUBSET used_nodes)
      BY <2>1, <3>1, <3>2
    <3>4. QED
      BY <2>1, <3>1, <3>2, <3>3
  <2>4. QED
    BY <2>2, <2>3
<1>6. TypeOK'
  BY <1>2, <1>4, <1>5 DEF TypeInv, TypeOK
<1>7. Looked'
  BY <1>2, <1>3, <1>4 DEF TypeInv, Looked
<1>8. QED
  BY <1>6, <1>7 DEF TypeInv

LEMMA FindCirclesTypeInv ==
  ASSUME TypeInv, FindCircles
  PROVE  TypeInv'
<1>1. UNCHANGED <<flow, todo, used_nodes, graph, solved>> /\ pc = "circles"
  BY DEF FindCircles
<1>2. \A n \in used_nodes : References(n)' = References(n) /\ Alternates(n)' = Alternates(n)
  BY <1>1, SameFlow DEF TypeInv, TypeOK
<1>3. pc' \in {"circles", "failed"}
  BY <1>1 DEF FindCircles
<1>4. Longer(adjmat) \subseteq used_nodes \X used_nodes
  BY DEF Longer
<1>5. adjmat' \subseteq used_nodes \X used_nodes /\ distance' \in Nat
  BY <1>4 DEF FindCircles, TypeInv, TypeOK
<1>6. Entry \in used_nodes
  BY <1>1 DEF TypeInv, Looked
<1>7. circular' \subseteq [node : used_nodes, what : {"itself", "circular", "failed"}]
  <2> DEFINE found == {y \in used_nodes : <<y, y>> \in adjmat /\ \A r \in circular : r.node # y}
             what  == IF distance = 0 THEN "itself" ELSE "circular"
  <2>1. circular \subseteq [node : used_nodes, what : {"itself", "circular", "failed"}]
    BY DEF TypeInv, TypeOK
  <2>2. \A x \in found : [node |-> x, what |-> what]
                           \in [node : used_nodes, what : {"itself", "circular", "failed"}]
    OBVIOUS
  <2>3. [node |-> Entry, what |-> "failed"]
           \in [node : used_nodes, what : {"itself", "circular", "failed"}]
    BY <1>6
  <2>4. CASE distance + 3 < Cardinality(used_nodes)
    <3>1. circular' = circular \union {[node |-> x, what |-> what] : x \in found}
      BY <2>4 DEF FindCircles
    <3> HIDE DEF found, what
    <3>2. QED
      BY <2>1, <2>2, <3>1
  <2>5. CASE ~(distance + 3 < Cardinality(used_nodes))
    BY <2>1, <2>3, <2>5 DEF FindCircles
  <2>6. QED
    BY <2>4, <2>5
<1>8. TypeOK'
  BY <1>1, <1>3, <1>5, <1>7 DEF TypeInv, TypeOK
<1>9. Looked'
  BY <1>1, <1>2, <1>3 DEF TypeInv, Looked
<1>10. QED
  BY <1>8, <1>9 DEF TypeInv

LEMMA NextTypeInv == TypeInv /\ [Next]_vars => TypeInv'
<1> SUFFICES ASSUME TypeInv, [Next]_vars PROVE TypeInv'
  OBVIOUS
<1>1. CASE Reach
  BY <1>1, ReachTypeInv
<1>2. CASE Sweep
  BY <1>2, SweepTypeInv
<1>3. CASE FindCircles
  BY <1>3, FindCirclesTypeInv
<1>4. CASE UNCHANGED vars
  <2>1. UNCHANGED flow
    BY <1>4 DEF vars
  <2>2. \A n \in used_nodes : References(n)' = References(n) /\ Alternates(n)' = Alternates(n)
    BY <2>1, SameFlow DEF TypeInv, TypeOK
  <2>3. QED
    BY <1>4, <2>2 DEF vars, TypeInv, TypeOK, Looked
<1>5. QED
  BY <1>1, <1>2, <1>3, <1>4 DEF Next

LEMMA TypeInvHolds == Spec => []TypeInv
  BY InitTypeInv, NextTypeInv, PTL DEF Spec

(* The variables keep their types, and the matrix only mentions nodes that
   have a column in it. *)
THEOREM TypeCorrect == Spec => []TypeOK
<1>1. TypeInv => TypeOK
  BY DEF TypeInv
<1>2. QED
  BY <1>1, TypeInvHolds, PTL

-----------------------------------------------------------------------------
(* The order of the stages.  The strengthening: `solved' is what the stages
   hold, and the entry is in none of them. *)

SolvedInv ==
  /\ pc = "sweep" => adjmat = UNION {Row(n) : n \in used_nodes}
  /\ pc \in {"reach", "sweep"} => solved = Before(Len(graph) + 1)
  /\ pc = "done" => Needs(Entry) \subseteq Before(Len(graph) + 1)
  /\ \A i \in DOMAIN graph : Entry \notin graph[i]

OrderInv == TypeInv /\ SolvedInv /\ StagesOrdered

LEMMA StagesType ==
  ASSUME TypeInv
  PROVE  /\ DOMAIN graph = 1 .. Len(graph) /\ Len(graph) \in Nat
         /\ \A i \in DOMAIN graph : graph[i] \subseteq used_nodes /\ graph[i] \subseteq All
<1>1. graph \in Seq(SUBSET used_nodes) /\ used_nodes \subseteq All
  BY DEF TypeInv, TypeOK
<1>2. DOMAIN graph = 1 .. Len(graph) /\ Len(graph) \in Nat
  BY <1>1
<1>3. \A i \in 1 .. Len(graph) : graph[i] \in SUBSET used_nodes
  BY <1>1
<1>4. QED
  BY <1>1, <1>2, <1>3

LEMMA BeforeAppend ==
  ASSUME NEW S, NEW L \in Nat, L = Len(graph), DOMAIN graph = 1 .. L,
         graph \in Seq(SUBSET used_nodes), graph' = Append(graph, S)
  PROVE  /\ Len(graph') = L + 1
         /\ DOMAIN graph' = 1 .. L + 1
         /\ \A i \in 1 .. L : graph'[i] = graph[i]
         /\ graph'[L + 1] = S
         /\ \A i \in 1 .. L + 1 : Before(i)' = Before(i)
         /\ Before(L + 2)' = Before(L + 1) \union S
<1>1. Len(graph') = L + 1 /\ DOMAIN graph' = 1 .. L + 1
  OBVIOUS
<1>2. \A i \in 1 .. L : graph'[i] = graph[i]
  OBVIOUS
<1>3. graph'[L + 1] = S
  OBVIOUS
<1>4. ASSUME NEW i \in 1 .. L + 1 PROVE Before(i)' = Before(i)
  <2>1. \A j \in 1 .. i - 1 : j \in 1 .. L
    OBVIOUS
  <2>2. \A j \in 1 .. i - 1 : graph'[j] = graph[j]
    BY <1>2, <2>1
  <2>3. UNION {graph'[j] : j \in 1 .. i - 1} = UNION {graph[j] : j \in 1 .. i - 1}
    BY <2>2
  <2>4. QED
    BY <2>3 DEF Before
<1>5. Before(L + 2)' = Before(L + 1) \union S
  <2>1. 1 .. (L + 2) - 1 = (1 .. L) \union {L + 1} /\ 1 .. (L + 1) - 1 = 1 .. L
    OBVIOUS
  <2>2. (UNION {graph'[j] : j \in (1 .. L) \union {L + 1}})
          = (UNION {graph[j] : j \in 1 .. L}) \union S
    BY <1>2, <1>3
  <2>3. Before(L + 2)' = {Input} \union UNION {graph'[j] : j \in (1 .. L) \union {L + 1}}
    BY <2>1 DEF Before
  <2>4. Before(L + 1) = {Input} \union UNION {graph[j] : j \in 1 .. L}
    BY <2>1 DEF Before
  <2>5. QED
    BY <2>2, <2>3, <2>4
<1>6. QED
  BY <1>1, <1>2, <1>3, <1>4, <1>5

LEMMA InitOrderInv == Init => OrderInv
<1> SUFFICES ASSUME Init PROVE OrderInv
  OBVIOUS
<1>1. graph = <<>> /\ DOMAIN graph = {} /\ Len(graph) = 0
  BY DEF Init
<1>2. Before(Len(graph) + 1) = {Input}
  BY <1>1 DEF Before
<1>3. QED
  BY <1>1, <1>2, InitTypeInv DEF Init, OrderInv, SolvedInv, StagesOrdered

(* A step that leaves the flow and the stages alone leaves their order. *)
LEMMA SameStages ==
  ASSUME OrderInv, UNCHANGED <<flow, graph>>
  PROVE  /\ \A i \in DOMAIN graph' : Entry \notin graph'[i]
         /\ \A i \in Nat : Before(i)' = Before(i)
         /\ StagesOrdered'
<1>1. \A n \in All : Needs(n)' = Needs(n)
  BY SameFlow
<1>2. \A i \in Nat : Before(i)' = Before(i)
  BY DEF Before
<1>3. \A i \in DOMAIN graph : i \in Nat /\ graph[i] \subseteq All
  BY StagesType DEF OrderInv
<1>4. StagesOrdered'
  <2> SUFFICES ASSUME NEW i \in DOMAIN graph, NEW n \in graph[i]
               PROVE  Needs(n)' \subseteq Before(i)' /\ n \notin Before(i)'
    BY DEF StagesOrdered
  <2>1. Needs(n)' = Needs(n) /\ Before(i)' = Before(i)
    BY <1>1, <1>2, <1>3
  <2>2. QED
    BY <2>1 DEF OrderInv, StagesOrdered
<1>5. QED
  BY <1>2, <1>4 DEF OrderInv, SolvedInv

(* The solvable nodes need nothing that is not in the stages so far. *)
LEMMA SolvableNeeds ==
  ASSUME OrderInv, pc = "sweep", NEW x \in Solvable
  PROVE  x \in used_nodes /\ x \notin Before(Len(graph) + 1)
         /\ Needs(x) \subseteq Before(Len(graph) + 1)
<1>1. x \in used_nodes /\ x \notin solved /\ todo = {} /\ flow \in Flows
  BY DEF Solvable, OrderInv, TypeInv, Looked
<1>2. x \in All
  BY <1>1 DEF OrderInv, TypeInv, TypeOK
<1>3. solved = Before(Len(graph) + 1) /\ adjmat = UNION {Row(n) : n \in used_nodes}
  BY DEF OrderInv, SolvedInv
<1>4. Needs(x) \subseteq used_nodes
  BY <1>1, NeedsLooked DEF OrderInv
<1>5. \A m \in Needs(x) : <<x, m>> \in adjmat
  BY <1>1, <1>2, <1>3, RowIsNeeds
<1>6. \A m \in Needs(x) : m \in solved
  BY <1>4, <1>5 DEF Solvable
<1>7. QED
  BY <1>1, <1>3, <1>6

LEMMA SweepOrderInv ==
  ASSUME OrderInv, Sweep
  PROVE  OrderInv'
<1>1. UNCHANGED <<flow, todo, used_nodes, adjmat, distance, circular>> /\ pc = "sweep"
  BY DEF Sweep
<1>2. TypeInv' /\ graph \in Seq(SUBSET used_nodes) /\ Len(graph) \in Nat
  BY SweepTypeInv DEF OrderInv, TypeInv, TypeOK
<1>3. \A n \in All : Needs(n)' = Needs(n) /\ Row(n)' = Row(n)
  BY <1>1, SameFlow
<1>4. used_nodes \subseteq All
  BY DEF OrderInv, TypeInv, TypeOK
<1>5. adjmat' = (UNION {Row(n) : n \in used_nodes})'
  BY <1>1, <1>3, <1>4 DEF OrderInv, SolvedInv
<1>6. CASE Entry \in Solvable
  <2>1. UNCHANGED graph /\ pc' = "done"
    BY <1>6 DEF Sweep
  <2>2. Needs(Entry)' \subseteq Before(Len(graph) + 1)'
    BY <1>1, <1>2, <1>3, <1>6, <2>1, SolvableNeeds, SameStages
  <2>3. SolvedInv'
    BY <1>1, <1>2, <2>1, <2>2, SameStages DEF SolvedInv
  <2>4. QED
    BY <1>1, <1>2, <2>1, <2>3, SameStages DEF OrderInv
<1>7. CASE Entry \notin Solvable
  <2>1. graph' = Append(graph, Solvable) /\ solved' = solved \union Solvable
    BY <1>7 DEF Sweep
  <2>2. PICK L \in Nat : L = Len(graph) /\ DOMAIN graph = 1 .. L
    BY StagesType DEF OrderInv
  <2>3. /\ Len(graph') = L + 1 /\ DOMAIN graph' = 1 .. L + 1
        /\ \A i \in 1 .. L : graph'[i] = graph[i]
        /\ graph'[L + 1] = Solvable
        /\ \A i \in 1 .. L + 1 : Before(i)' = Before(i)
        /\ Before(L + 2)' = Before(L + 1) \union Solvable
    BY <1>2, <2>1, <2>2, BeforeAppend
  <2>4. \A i \in DOMAIN graph' : i \in DOMAIN graph \/ i = L + 1
    BY <2>2, <2>3
  <2>5. \A i \in DOMAIN graph' : Entry \notin graph'[i]
    BY <1>7, <2>2, <2>3, <2>4 DEF OrderInv, SolvedInv
  <2>6. solved' = Before(L + 2)'
    BY <1>1, <2>1, <2>2, <2>3 DEF OrderInv, SolvedInv
  <2>7. pc' \in {"sweep", "circles"}
    BY <1>7 DEF Sweep
  <2>8. L + 2 = Len(graph') + 1
    BY <2>3
  <2>9. SolvedInv'
    BY <1>5, <2>5, <2>6, <2>7, <2>8 DEF SolvedInv
  <2>10. StagesOrdered'
    <3> SUFFICES ASSUME NEW i \in DOMAIN graph', NEW n \in graph'[i]
                 PROVE  Needs(n)' \subseteq Before(i)' /\ n \notin Before(i)'
      BY DEF StagesOrdered
    <3>1. CASE i \in DOMAIN graph
      <4>1. graph'[i] = graph[i] /\ Before(i)' = Before(i)
        BY <2>2, <2>3, <3>1
      <4>2. n \in All
        BY <3>1, <4>1, StagesType DEF OrderInv
      <4>3. QED
        BY <1>3, <3>1, <4>1, <4>2 DEF OrderInv, StagesOrdered
    <3>2. CASE i = L + 1
      <4>1. n \in Solvable /\ Before(i)' = Before(L + 1)
        BY <2>3, <3>2
      <4>2. n \in All /\ Needs(n)' = Needs(n)
        BY <1>3, <1>4, <4>1 DEF Solvable
      <4>3. Needs(n) \subseteq Before(L + 1) /\ n \notin Before(L + 1)
        BY <1>1, <2>2, <4>1, SolvableNeeds
      <4>4. QED
        BY <4>1, <4>2, <4>3
    <3>3. QED
      BY <2>4, <3>1, <3>2
  <2>11. QED
    BY <1>2, <2>9, <2>10 DEF OrderInv
<1>8. QED
  BY <1>6, <1>7

LEMMA NextOrderInv == OrderInv /\ [Next]_vars => OrderInv'
<1> SUFFICES ASSUME OrderInv, [Next]_vars PROVE OrderInv'
  OBVIOUS
<1>1. TypeInv'
  BY NextTypeInv DEF OrderInv
<1>2. CASE Reach
  <2>1. UNCHANGED <<flow, graph, solved>> /\ pc = "reach" /\ graph = <<>> /\ solved = {Input}
    BY <1>2 DEF Reach, OrderInv, TypeInv, Looked
  <2>2. Len(graph) = 0 /\ solved' = Before(Len(graph) + 1)'
    BY <2>1, SameStages DEF OrderInv, SolvedInv
  <2>3. pc' \in {"reach", "sweep"}
    BY <1>2 DEF Reach
  <2>4. pc' = "sweep" => adjmat' = (UNION {Row(n) : n \in used_nodes})'
    <3> SUFFICES ASSUME pc' = "sweep" PROVE adjmat' = (UNION {Row(n) : n \in used_nodes})'
      OBVIOUS
    <3>1. adjmat' = UNION {Row(n) : n \in used_nodes} /\ UNCHANGED used_nodes
      BY <1>2, <2>1 DEF Reach
    <3>2. \A n \in used_nodes : n \in All
      BY DEF OrderInv, TypeInv, TypeOK
    <3>3. \A n \in used_nodes : Row(n)' = Row(n)
      BY <2>1, <3>2, SameFlow
    <3>4. QED
      BY <3>1, <3>3
  <2>5. SolvedInv'
    BY <2>1, <2>2, <2>3, <2>4, SameStages DEF SolvedInv
  <2>6. QED
    BY <1>1, <2>1, <2>5, SameStages DEF OrderInv
<1>3. CASE Sweep
  BY <1>3, SweepOrderInv
<1>4. CASE FindCircles
  <2>1. UNCHANGED <<flow, graph>> /\ pc' \notin {"reach", "sweep", "done"}
    BY <1>4 DEF FindCircles
  <2>2. SolvedInv'
    BY <2>1, SameStages DEF SolvedInv
  <2>3. QED
    BY <1>1, <2>1, <2>2, SameStages DEF OrderInv
<1>5. CASE UNCHANGED vars
  <2>1. UNCHANGED <<flow, graph, pc, adjmat, used_nodes, solved>>
    BY <1>5 DEF vars
  <2>2. /\ Needs(Entry)' = Needs(Entry)
        /\ \A n \in used_nodes : Row(n)' = Row(n)
    BY <2>1, SameFlow DEF OrderInv, TypeInv, TypeOK
  <2>3. Before(Len(graph) + 1)' = Before(Len(graph) + 1)
    BY <2>1 DEF Before
  <2>4. SolvedInv'
    BY <2>1, <2>2, <2>3 DEF OrderInv, SolvedInv
  <2>5. QED
    BY <1>1, <2>1, <2>4, SameStages DEF OrderInv
<1>6. QED
  BY <1>2, <1>3, <1>4, <1>5 DEF Next

LEMMA OrderInvHolds == Spec => []OrderInv
  BY InitOrderInv, NextOrderInv, PTL DEF Spec

(* In every flow, a stage only needs the input and the stages before it, and
   no node is in two stages. *)
THEOREM StagesOrderedHolds == Spec => []StagesOrdered
<1>1. OrderInv => StagesOrdered
  BY DEF OrderInv
<1>2. QED
  BY <1>1, OrderInvHolds, PTL

-----------------------------------------------------------------------------
(* Completeness.  The strengthening: all that was looked at is in every set
   that holds the entry and is closed, and so are its alternates. *)

NeededInv ==
  \A S \in ClosedSets : Entry \in S =>
    \A n \in used_nodes \union todo : n \in S /\ Alternates(n) \subseteq S

LEMMA ClosedSetsDef ==
  ASSUME flow \in Flows, NEW S \in SUBSET All
  PROVE  S \in ClosedSets <=> \A n \in S : Needs(n) \subseteq S
<1> DEFINE needed == UNION {{<<n, m>> : m \in Needs(n)} : n \in All}
<1>1. \A p \in needed : p[1] \in All /\ p[2] \in Needs(p[1])
  OBVIOUS
<1>2. \A n \in All : \A m \in Needs(n) : <<n, m>> \in needed
  OBVIOUS
<1>3. ClosedSets = {T \in SUBSET All : \A p \in needed : p[1] \in T => p[2] \in T}
  BY DEF ClosedSets
<1> HIDE DEF needed
<1>4. ASSUME S \in ClosedSets, NEW n \in S PROVE Needs(n) \subseteq S
  <2> SUFFICES ASSUME NEW m \in Needs(n) PROVE m \in S
    OBVIOUS
  <2>1. <<n, m>> \in needed /\ <<n, m>>[1] = n /\ <<n, m>>[2] = m
    BY <1>2
  <2>2. QED
    BY <1>3, <1>4, <2>1
<1>5. ASSUME \A n \in S : Needs(n) \subseteq S PROVE S \in ClosedSets
  BY <1>1, <1>3, <1>5
<1>6. QED
  BY <1>4, <1>5

(* Alternates are alternates of each other. *)
LEMMA SameAlternates ==
  ASSUME flow \in Flows, NEW n \in All, NEW m \in Alternates(n)
  PROVE  m \in All /\ Alternates(m) = Alternates(n)
  BY DEF Alternates

LEMMA ReachNeededInv ==
  ASSUME TypeInv, NeededInv, Reach
  PROVE  NeededInv'
<1>1. flow \in Flows /\ UNCHANGED flow
  BY DEF TypeInv, Looked, Reach
<1>2. ClosedSets' = ClosedSets /\ \A n \in All : Alternates(n)' = Alternates(n)
  BY <1>1, SameFlow
<1>3. used_nodes \union todo \subseteq All
  BY DEF TypeInv, TypeOK
<1>4. CASE todo = {}
  <2>1. UNCHANGED <<used_nodes, todo>>
    BY <1>4 DEF Reach
  <2> SUFFICES ASSUME NEW S \in ClosedSets, Entry \in S, NEW k \in used_nodes \union todo
               PROVE  k \in S /\ Alternates(k)' \subseteq S
    BY <1>2, <2>1 DEF NeededInv
  <2>2. Alternates(k)' = Alternates(k)
    BY <1>2, <1>3
  <2>3. k \in S /\ Alternates(k) \subseteq S
    BY DEF NeededInv
  <2>4. QED
    BY <2>2, <2>3
<1>5. CASE todo # {}
  <2>1. PICK n \in todo :
          /\ used_nodes' = used_nodes \union {n}
          /\ todo' = (todo \union Alternates(n) \union References(n)) \ used_nodes'
    BY <1>5 DEF Reach
  <2>2. n \in All
    BY <1>3
  <2> SUFFICES ASSUME NEW S \in ClosedSets, Entry \in S,
                      NEW k \in used_nodes' \union todo'
               PROVE  k \in S /\ Alternates(k)' \subseteq S
    BY <1>2 DEF NeededInv
  <2>3. k \in used_nodes \union todo \/ k \in Alternates(n) \/ k \in References(n)
    BY <2>1
  <2>4. n \in S /\ Alternates(n) \subseteq S
    BY DEF NeededInv
  <2>5. Needs(n) \subseteq S
    BY <1>1, <2>4, ClosedSetsDef DEF ClosedSets
  <2>6. CASE k \in used_nodes \union todo
    <3>1. Alternates(k)' = Alternates(k)
      BY <1>2, <1>3, <2>6
    <3>2. k \in S /\ Alternates(k) \subseteq S
      BY <2>6 DEF NeededInv
    <3>3. QED
      BY <3>1, <3>2
  <2>7. CASE k \in Alternates(n)
    <3>1. k \in All /\ Alternates(k) = Alternates(n)
      BY <1>1, <2>2, <2>7, SameAlternates
    <3>2. QED
      BY <1>2, <2>4, <2>7, <3>1
  <2>8. CASE k \in References(n)
    <3>1. k \in All
      BY <1>1, <2>2, <2>8, ReferencesType
    <3>2. k \in Needs(n) /\ Alternates(k) \subseteq Needs(n)
      BY <1>1, <2>2, <2>8, RowIsNeeds
    <3>3. QED
      BY <1>2, <2>5, <3>1, <3>2
  <2>9. QED
    BY <2>3, <2>6, <2>7, <2>8
<1>6. QED
  BY <1>4, <1>5

LEMMA NextNeededInv == TypeInv /\ NeededInv /\ [Next]_vars => NeededInv'
<1> SUFFICES ASSUME TypeInv, NeededInv, [Next]_vars PROVE NeededInv'
  OBVIOUS
<1>1. CASE Reach
  BY <1>1, ReachNeededInv
<1>2. CASE UNCHANGED <<flow, used_nodes, todo>>
  <2>1. ClosedSets' = ClosedSets /\ \A n \in All : Alternates(n)' = Alternates(n)
    BY <1>2, SameFlow
  <2> SUFFICES ASSUME NEW S \in ClosedSets, Entry \in S, NEW k \in used_nodes \union todo
               PROVE  k \in S /\ Alternates(k)' \subseteq S
    BY <1>2, <2>1 DEF NeededInv
  <2>2. k \in All
    BY DEF TypeInv, TypeOK
  <2>3. Alternates(k)' = Alternates(k)
    BY <2>1, <2>2
  <2>4. k \in S /\ Alternates(k) \subseteq S
    BY DEF NeededInv
  <2>5. QED
    BY <2>3, <2>4
<1>3. QED
  BY <1>1, <1>2 DEF Next, Sweep, FindCircles, vars

LEMMA NeededInvHolds == Spec => []NeededInv
<1>1. Init => NeededInv
  BY DEF Init, NeededInv, Alternates
<1>2. QED
  BY <1>1, NextNeededInv, TypeInvHolds, PTL DEF Spec

LEMMA CompleteFromInvariants == OrderInv /\ NeededInv => StagesComplete
<1> SUFFICES ASSUME OrderInv, NeededInv, pc = "done" PROVE StagesComplete
  BY DEF StagesComplete
<1> DEFINE staged == UNION {graph[i] : i \in DOMAIN graph}
           needed == {n \in All \ {Entry, Input} : \A S \in ClosedSets : Entry \in S => n \in S}
           closed == Before(Len(graph) + 1) \union {Entry}
<1>1. /\ flow \in Flows /\ DOMAIN graph = 1 .. Len(graph) /\ Len(graph) \in Nat
      /\ \A i \in DOMAIN graph : graph[i] \subseteq used_nodes /\ graph[i] \subseteq All
  BY StagesType DEF OrderInv, TypeInv, Looked
<1>2. closed = {Input, Entry} \union staged
  BY <1>1 DEF Before
<1>3. closed \in ClosedSets
  <2>1. closed \subseteq All
    BY <1>1, <1>2
  <2> SUFFICES ASSUME NEW n \in closed PROVE Needs(n) \subseteq closed
    BY <1>1, <2>1, ClosedSetsDef
  <2>2. CASE n = Input
    BY <1>1, <2>2, NeedsType
  <2>3. CASE n = Entry
    BY <2>3 DEF OrderInv, SolvedInv
  <2>4. ASSUME NEW i \in DOMAIN graph, n \in graph[i] PROVE Needs(n) \subseteq closed
    <3>1. Needs(n) \subseteq Before(i)
      BY <2>4 DEF OrderInv, StagesOrdered
    <3>2. 1 .. i - 1 \subseteq DOMAIN graph
      BY <1>1
    <3>3. Before(i) \subseteq {Input} \union staged
      BY <3>2 DEF Before
    <3>4. QED
      BY <1>2, <3>1, <3>3
  <2>5. QED
    BY <1>2, <2>2, <2>3, <2>4
<1>4. needed \subseteq staged \ {Input}
  BY <1>2, <1>3
<1>5. staged \ {Input} \subseteq needed
  <2> SUFFICES ASSUME NEW i \in DOMAIN graph, NEW n \in graph[i], n # Input
               PROVE  n \in needed
    OBVIOUS
  <2>1. n \in All /\ n \in used_nodes /\ n # Entry
    BY <1>1 DEF OrderInv, SolvedInv
  <2>2. \A S \in ClosedSets : Entry \in S => n \in S
    BY <2>1 DEF NeededInv
  <2>3. QED
    BY <2>1, <2>2
<1>6. QED
  BY <1>4, <1>5 DEF StagesComplete

(* In every flow whose graph is finished, the stages hold exactly what the
   entry needs, directly or not. *)
THEOREM StagesCompleteHolds == Spec => []StagesComplete
  BY CompleteFromInvariants, OrderInvHolds, NeededInvHolds, PTL


-----------------------------------------------------------------------------
(* Stages are tight.  The strengthening: what is not in a stage yet needs    *)
(* something that is not in the stages before the last.                      *)

Unsolved == used_nodes \ solved

TightInv ==
  /\ StagesTight
  /\ pc = "sweep" /\ graph # <<>> =>
       \A n \in Unsolved : ~ (Needs(n) \subseteq Before(Len(graph)))

(* A node that is not solvable needs one that is not in a stage. *)
LEMMA UnsolvableNeeds ==
  ASSUME OrderInv, pc = "sweep", NEW n \in Unsolved \ Solvable
  PROVE  \E m \in Unsolved : m \in Needs(n)
<1>1. n \in used_nodes /\ n \in All /\ flow \in Flows
  BY DEF Unsolved, OrderInv, TypeInv, TypeOK, Looked
<1>2. PICK m \in used_nodes : <<n, m>> \in adjmat /\ m \notin solved
  BY DEF Unsolved, Solvable
<1>3. adjmat = UNION {Row(k) : k \in used_nodes} /\ used_nodes \subseteq All
  BY DEF OrderInv, SolvedInv, TypeInv, TypeOK
<1>4. PICK k \in used_nodes : <<n, m>> \in Row(k)
  BY <1>2, <1>3
<1>5. k \in All /\ Row(k) = {<<k, j>> : j \in Needs(k)}
  BY <1>1, <1>3, RowIsNeeds
<1>6. k = n /\ m \in Needs(k)
  BY <1>4, <1>5
<1>7. QED
  BY <1>2, <1>6 DEF Unsolved

LEMMA SweepTightInv ==
  ASSUME OrderInv, TightInv, Sweep
  PROVE  TightInv'
<1>1. UNCHANGED <<flow, used_nodes>> /\ pc = "sweep" /\ used_nodes \subseteq All
  BY DEF Sweep, OrderInv, TypeInv, TypeOK
<1>2. \A n \in All : Needs(n)' = Needs(n)
  BY <1>1, SameFlow
<1>3. graph \in Seq(SUBSET used_nodes) /\ solved = Before(Len(graph) + 1)
  BY <1>1 DEF OrderInv, SolvedInv, TypeInv, TypeOK
<1>4. PICK L \in Nat : L = Len(graph) /\ DOMAIN graph = 1 .. L
  BY StagesType DEF OrderInv
<1>5. CASE Entry \in Solvable
  <2>1. UNCHANGED graph /\ pc' = "done"
    BY <1>5 DEF Sweep
  <2>2. \A i \in DOMAIN graph : graph[i] \subseteq All
    BY StagesType DEF OrderInv
  <2>3. StagesTight'
    <3> SUFFICES ASSUME NEW i \in DOMAIN graph, i > 1, NEW n \in graph[i]
                 PROVE  Needs(n)' \cap graph[i - 1] # {}
      BY <2>1 DEF StagesTight
    <3>1. Needs(n)' = Needs(n)
      BY <1>2, <2>2
    <3>2. QED
      BY <3>1 DEF TightInv, StagesTight
  <2>4. QED
    BY <2>1, <2>3 DEF TightInv
<1>6. CASE Entry \notin Solvable
  <2>1. graph' = Append(graph, Solvable) /\ solved' = solved \union Solvable
    BY <1>6 DEF Sweep
  <2>2. /\ Len(graph') = L + 1 /\ DOMAIN graph' = 1 .. L + 1
        /\ \A i \in 1 .. L : graph'[i] = graph[i]
        /\ graph'[L + 1] = Solvable
        /\ \A i \in 1 .. L + 1 : Before(i)' = Before(i)
    BY <1>3, <1>4, <2>1, BeforeAppend
  <2>3. ASSUME NEW n \in Unsolved' PROVE ~ (Needs(n)' \subseteq Before(Len(graph))')
    <3>1. n \in Unsolved \ Solvable /\ n \in All
      BY <1>1, <2>1 DEF Unsolved
    <3>2. PICK m \in Unsolved : m \in Needs(n)
      BY <1>1, <3>1, UnsolvableNeeds
    <3>3. m \notin Before(L + 1)
      BY <1>3, <1>4, <3>2 DEF Unsolved
    <3>4. Before(Len(graph))' = Before(L + 1)
      <4>1. L + 1 \in 1 .. L + 1
        OBVIOUS
      <4>2. Before(Len(graph))' = Before(L + 1)'
        BY <2>2 DEF Before
      <4>3. QED
        BY <2>2, <4>1, <4>2
    <3>5. Needs(n)' = Needs(n)
      BY <1>2, <3>1
    <3>6. QED
      BY <3>2, <3>3, <3>4, <3>5
  <2>4. StagesTight'
    <3> SUFFICES ASSUME NEW i \in 1 .. L + 1, i > 1, NEW n \in graph'[i]
                 PROVE  Needs(n)' \cap graph'[i - 1] # {}
      BY <2>2 DEF StagesTight
    <3>1. i - 1 \in 1 .. L /\ graph'[i - 1] = graph[i - 1]
      BY <2>2
    <3>2. CASE i \in 1 .. L
      <4>1. n \in graph[i] /\ i \in DOMAIN graph
        BY <1>4, <2>2, <3>2
      <4>2. n \in All
        BY <4>1, StagesType DEF OrderInv
      <4>3. Needs(n) \cap graph[i - 1] # {}
        BY <4>1 DEF TightInv, StagesTight
      <4>4. QED
        BY <1>2, <3>1, <4>2, <4>3
    <3>3. CASE i = L + 1
      <4>1. n \in Solvable /\ n \in Unsolved /\ n \in All
        BY <1>1, <2>2, <3>3 DEF Solvable, Unsolved
      <4>2. L \in DOMAIN graph /\ graph # <<>>
        BY <1>3, <1>4, <3>1, <3>3
      <4>3. Needs(n) \subseteq Before(L + 1)
        BY <1>1, <1>4, <4>1, SolvableNeeds
      <4>4. ~ (Needs(n) \subseteq Before(L))
        BY <1>1, <1>4, <4>1, <4>2 DEF TightInv
      <4>5. Before(L + 1) = Before(L) \union graph[L]
        <5>1. 1 .. (L + 1) - 1 = (1 .. L - 1) \union {L}
          BY <1>4, <4>2
        <5>2. QED
          BY <5>1 DEF Before
      <4>6. Needs(n) \cap graph[L] # {}
        BY <4>3, <4>4, <4>5
      <4>7. i - 1 = L
        BY <3>3
      <4>8. QED
        BY <1>2, <3>1, <4>1, <4>6, <4>7
    <3>4. QED
      BY <3>2, <3>3
  <2>5. QED
    BY <2>3, <2>4 DEF TightInv
<1>7. QED
  BY <1>5, <1>6

LEMMA NextTightInv == OrderInv /\ TightInv /\ [Next]_vars => TightInv'
<1> SUFFICES ASSUME OrderInv, TightInv, [Next]_vars PROVE TightInv'
  OBVIOUS
<1>1. CASE Sweep
  BY <1>1, SweepTightInv
<1>2. ASSUME UNCHANGED <<flow, graph>>,
             pc' = "sweep" => graph = <<>> \/ UNCHANGED <<pc, used_nodes, solved>>
      PROVE  TightInv'
  <2>1. \A n \in All : Needs(n)' = Needs(n)
    BY <1>2, SameFlow
  <2>2. \A i \in DOMAIN graph : graph[i] \subseteq All
    BY StagesType DEF OrderInv
  <2>3. used_nodes \subseteq All /\ Before(Len(graph))' = Before(Len(graph))
    BY <1>2 DEF OrderInv, TypeInv, TypeOK, Before
  <2>4. StagesTight'
    <3> SUFFICES ASSUME NEW i \in DOMAIN graph, i > 1, NEW n \in graph[i]
                 PROVE  Needs(n)' \cap graph[i - 1] # {}
      BY <1>2 DEF StagesTight
    <3>1. Needs(n)' = Needs(n)
      BY <2>1, <2>2
    <3>2. QED
      BY <3>1 DEF TightInv, StagesTight
  <2>5. ASSUME pc' = "sweep", graph # <<>>, NEW n \in Unsolved'
        PROVE  ~ (Needs(n)' \subseteq Before(Len(graph))')
    <3>1. n \in Unsolved /\ n \in All /\ pc = "sweep"
      BY <1>2, <2>3, <2>5 DEF Unsolved
    <3>2. Needs(n)' = Needs(n)
      BY <2>1, <3>1
    <3>3. QED
      BY <2>3, <2>5, <3>1, <3>2 DEF TightInv
  <2>6. QED
    BY <1>2, <2>4, <2>5 DEF TightInv
<1>3. CASE Reach
  BY <1>2, <1>3 DEF Reach, OrderInv, TypeInv, Looked
<1>4. CASE FindCircles
  BY <1>2, <1>4 DEF FindCircles
<1>5. CASE UNCHANGED vars
  BY <1>2, <1>5 DEF vars
<1>6. QED
  BY <1>1, <1>3, <1>4, <1>5 DEF Next

(* In every flow, each node of a stage needs a node of the stage before. *)
THEOREM StagesTightHolds == Spec => []StagesTight
<1>1. Init => TightInv
  BY DEF Init, TightInv, StagesTight
<1>2. TightInv => StagesTight
  BY DEF TightInv
<1>3. QED
  BY <1>1, <1>2, NextTightInv, OrderInvHolds, PTL DEF Spec


-----------------------------------------------------------------------------
(* Circles.  What a node needs, directly or not, is the least closed set     *)
(* that holds what it needs; a node is on a circle when it is one of those.  *)

Reached(n) == {m \in All : \A S \in ClosedSets : Needs(n) \subseteq S => m \in S}

LEMMA ReachedFacts ==
  ASSUME flow \in Flows, NEW n \in All
  PROVE  /\ Needs(n) \subseteq Reached(n)
         /\ \A m \in Reached(n) : Reached(m) \subseteq Reached(n)
         /\ n \in used_nodes => (n \in OnCircle <=> n \in Reached(n))
<1>1. Needs(n) \subseteq Reached(n)
  BY NeedsType DEF Reached
<1>2. ASSUME NEW m \in Reached(n), NEW k \in Reached(m) PROVE k \in Reached(n)
  <2> SUFFICES ASSUME NEW S \in ClosedSets, Needs(n) \subseteq S PROVE k \in S
    BY <1>2 DEF Reached
  <2>1. m \in S
    BY <1>2 DEF Reached
  <2>2. Needs(m) \subseteq S
    BY <2>1, ClosedSetsDef DEF ClosedSets
  <2>3. QED
    BY <1>2, <2>2 DEF Reached
<1>3. n \in used_nodes => (n \in OnCircle <=> n \in Reached(n))
  BY DEF OnCircle, Reached
<1>4. QED
  BY <1>1, <1>2, <1>3

(* If every node of some set needs one of the set, one of them is on a
   circle: the one from which the fewest nodes are reached. *)
LEMMA CircleExists ==
  ASSUME flow \in Flows, used_nodes \subseteq All,
         NEW U \in SUBSET used_nodes, U # {},
         \A n \in U : \E m \in U : m \in Needs(n)
  PROVE  OnCircle # {}
<1> DEFINE reach == {Reached(n) : n \in U}
           R     == StrictSubsetOrdering(All)
<1>1. IsFiniteSet(All)
  <2>1. IsFiniteSet({Entry, Input})
    <3>1. IsFiniteSet({Entry})
      BY FS_Singleton
    <3>2. IsFiniteSet({Entry} \union {Input})
      BY <3>1, FS_AddElement
    <3>3. {Entry, Input} = {Entry} \union {Input}
      OBVIOUS
    <3>4. QED
      BY <3>2, <3>3
  <2>2. All = Nodes \union {Entry, Input}
    OBVIOUS
  <2>3. QED
    BY <2>1, <2>2, FS_Union
<1>2. \A n \in U : Reached(n) \subseteq All
  BY DEF Reached
<1>3. reach \subseteq FiniteSubsetsOf(All) /\ reach # {}
  <2>1. \A n \in U : IsFiniteSet(Reached(n))
    <3> HIDE DEF All
    <3>1. QED
      BY <1>1, <1>2, FS_Subset
  <2>2. PICK k \in U : TRUE
    OBVIOUS
  <2>3. ASSUME NEW n \in U PROVE Reached(n) \in FiniteSubsetsOf(All)
    <3> HIDE DEF All
    <3>1. QED
      BY <1>2, <2>1 DEF FiniteSubsetsOf
  <2>4. Reached(k) \in reach
    BY <2>2
  <2>5. reach \subseteq FiniteSubsetsOf(All)
    BY <2>3
  <2>6. QED
    BY <2>4, <2>5
<1>4. IsWellFoundedOn(R, FiniteSubsetsOf(All))
  BY FS_StrictSubsetOrderingWellFounded
<1> HIDE DEF reach, R
<1>5. \E x \in reach : \A y \in reach : ~ (<<y, x>> \in R)
  BY <1>3, <1>4, WFMin
<1>6. PICK n \in U : \A m \in U : ~ (<<Reached(m), Reached(n)>> \in R)
  BY <1>5 DEF reach
<1>7. PICK m \in U : m \in Needs(n)
  BY <1>6
<1>8. n \in All /\ m \in All /\ m \in used_nodes
  BY <1>6, <1>7
<1>9. m \in Reached(n) /\ Reached(m) \subseteq Reached(n)
  BY <1>7, <1>8, ReachedFacts
<1>10. Reached(m) = Reached(n)
  BY <1>2, <1>6, <1>7, <1>9 DEF R, StrictSubsetOrdering
<1>11. m \in OnCircle
  BY <1>8, <1>9, <1>10, ReachedFacts
<1>12. QED
  BY <1>11

(* The strengthening: in the matrix are pairs of a node and one it needs,
   directly or not; every stage but the last has a node. *)
PathsInv == \A p \in adjmat : p[2] \in Reached(p[1])

StagesFilled == pc = "sweep" => Len(graph) <= Cardinality(solved \ {Input})

Reported ==
  /\ pc = "circles" => OnCircle # {}
  /\ pc = "failed" => circular # {}
  /\ \A r \in circular : r.what # "failed" => r.node \in OnCircle

CirclesInv == PathsInv /\ StagesFilled /\ Reported

LEMMA SameReached ==
  ASSUME UNCHANGED flow
  PROVE  /\ \A n \in All : Reached(n)' = Reached(n)
         /\ used_nodes \subseteq All /\ UNCHANGED used_nodes => OnCircle' = OnCircle
<1>1. ClosedSets' = ClosedSets /\ \A n \in All : Needs(n)' = Needs(n)
  BY SameFlow
<1>2. \A n \in All : Reached(n)' = Reached(n)
  BY <1>1 DEF Reached
<1>3. used_nodes \subseteq All /\ UNCHANGED used_nodes => OnCircle' = OnCircle
  BY <1>1 DEF OnCircle
<1>4. QED
  BY <1>2, <1>3

(* What the rows of the matrix say is reached. *)
LEMMA RowsReached ==
  ASSUME flow \in Flows, used_nodes \subseteq All,
         NEW p \in UNION {Row(n) : n \in used_nodes}
  PROVE  p[1] \in used_nodes /\ p[2] \in Needs(p[1]) /\ p[2] \in Reached(p[1])
<1>1. PICK n \in used_nodes : p \in Row(n)
  OBVIOUS
<1>2. n \in All /\ Row(n) = {<<n, m>> : m \in Needs(n)} /\ Needs(n) \subseteq Reached(n)
  BY RowIsNeeds, ReachedFacts
<1>3. QED
  BY <1>1, <1>2

(* When the stages hold the entry nothing that was looked at is on a circle. *)
LEMMA DoneHasNoCircle ==
  ASSUME OrderInv, NeededInv, pc = "done"
  PROVE  OnCircle = {}
<1> SUFFICES ASSUME NEW n \in OnCircle PROVE FALSE
  OBVIOUS
<1>1. n \in used_nodes /\ n \in All /\ flow \in Flows
  BY DEF OnCircle, OrderInv, TypeInv, TypeOK, Looked
<1>2. PICK L \in Nat : L = Len(graph) /\ DOMAIN graph = 1 .. L
  BY StagesType DEF OrderInv
<1>3. \A i \in 1 .. L : graph[i] \subseteq All
  BY <1>2, StagesType DEF OrderInv
<1>4. ASSUME NEW i \in 1 .. L + 1 PROVE Before(i) \in ClosedSets
  <2>1. Before(i) \subseteq All
    <3>1. \A j \in 1 .. i - 1 : graph[j] \subseteq All
      BY <1>3
    <3>2. QED
      BY <3>1 DEF Before
  <2> SUFFICES ASSUME NEW k \in Before(i) PROVE Needs(k) \subseteq Before(i)
    BY <1>1, <2>1, ClosedSetsDef
  <2>2. CASE k = Input
    BY <1>1, <2>2, NeedsType
  <2>3. ASSUME NEW j \in 1 .. i - 1, k \in graph[j] PROVE Needs(k) \subseteq Before(i)
    <3>1. j \in DOMAIN graph
      BY <1>2
    <3>2. Needs(k) \subseteq Before(j)
      BY <2>3, <3>1 DEF OrderInv, StagesOrdered
    <3>3. 1 .. j - 1 \subseteq 1 .. i - 1
      OBVIOUS
    <3>4. QED
      BY <3>2, <3>3 DEF Before
  <2>4. QED
    BY <2>2, <2>3 DEF Before
<1>5. ASSUME NEW S \in ClosedSets, Needs(n) \subseteq S, n \notin S PROVE FALSE
  BY <1>5 DEF OnCircle
<1>6. CASE n = Input
  <2>1. Needs(n) = {} /\ {} \in ClosedSets
    BY <1>1, <1>6, NeedsType, ClosedSetsDef
  <2>2. QED
    BY <1>5, <2>1
<1>7. CASE n = Entry
  <2>1. L + 1 \in 1 .. L + 1 /\ Needs(n) \subseteq Before(L + 1)
    BY <1>2, <1>7 DEF OrderInv, SolvedInv
  <2>2. Entry \notin Before(L + 1)
    <3>1. \A j \in 1 .. L : Entry \notin graph[j]
      BY <1>2 DEF OrderInv, SolvedInv
    <3>2. 1 .. (L + 1) - 1 = 1 .. L
      OBVIOUS
    <3>3. QED
      BY <3>1, <3>2 DEF Before
  <2>3. QED
    BY <1>4, <1>5, <1>7, <2>1, <2>2
<1>8. ASSUME NEW i \in 1 .. L, n \in graph[i] PROVE FALSE
  <2>1. Needs(n) \subseteq Before(i) /\ n \notin Before(i)
    BY <1>2, <1>8 DEF OrderInv, StagesOrdered
  <2>2. Before(i) \in ClosedSets
    BY <1>4
  <2>3. QED
    BY <1>5, <2>1, <2>2
<1>9. n \in Before(L + 1) \union {Entry}
  <2>1. L + 1 \in 1 .. L + 1
    OBVIOUS
  <2>2. Before(L + 1) \in ClosedSets /\ Needs(Entry) \subseteq Before(L + 1)
    BY <1>2, <1>4, <2>1 DEF OrderInv, SolvedInv
  <2>3. Before(L + 1) \subseteq All
    BY <2>2 DEF ClosedSets
  <2>4. Before(L + 1) \union {Entry} \in ClosedSets
    <3>1. \A k \in Before(L + 1) : Needs(k) \subseteq Before(L + 1)
      BY <1>1, <2>2, <2>3, ClosedSetsDef
    <3>2. \A k \in Before(L + 1) \union {Entry} : Needs(k) \subseteq Before(L + 1) \union {Entry}
      BY <2>2, <3>1
    <3>3. Before(L + 1) \union {Entry} \in SUBSET All
      BY <2>3
    <3> DEFINE T == Before(L + 1) \union {Entry}
    <3> HIDE DEF T
    <3>4. T \in SUBSET All /\ \A k \in T : Needs(k) \subseteq T
      BY <3>2, <3>3 DEF T
    <3>5. T \in ClosedSets
      BY <1>1, <3>4, ClosedSetsDef
    <3>6. QED
      BY <3>5 DEF T
  <2>5. QED
    BY <1>1, <2>4 DEF NeededInv
<1>10. n = Input \/ n = Entry \/ \E i \in 1 .. L : n \in graph[i]
  <2>1. 1 .. (L + 1) - 1 = 1 .. L
    OBVIOUS
  <2>2. QED
    BY <1>9, <2>1 DEF Before
<1>11. QED
  BY <1>6, <1>7, <1>8, <1>10


(* A stage with a node does not end the sweep: there are fewer such stages
   than nodes, as the entry is in none. *)
LEMMA FilledStage ==
  ASSUME OrderInv, StagesFilled, Sweep, Entry \notin Solvable, Solvable # {}
  PROVE  pc' = "sweep" /\ StagesFilled'
<1>1. /\ pc = "sweep" /\ UNCHANGED used_nodes
      /\ graph' = Append(graph, Solvable) /\ solved' = solved \union Solvable
      /\ pc' = IF Len(graph') = Cardinality(used_nodes) THEN "circles" ELSE "sweep"
  BY DEF Sweep
<1>2. used_nodes \subseteq All /\ solved \subseteq used_nodes \union {Input}
      /\ graph \in Seq(SUBSET used_nodes) /\ Entry \in used_nodes /\ Entry # Input
  BY <1>1 DEF OrderInv, TypeInv, TypeOK, Looked
<1>3. Len(graph) \in Nat /\ Len(graph') = Len(graph) + 1
  BY <1>1, <1>2
<1>4. Entry \notin solved
  <2>1. \A i \in DOMAIN graph : Entry \notin graph[i]
    BY DEF OrderInv, SolvedInv
  <2>2. DOMAIN graph = 1 .. Len(graph)
    BY <1>2
  <2>3. 1 .. (Len(graph) + 1) - 1 = 1 .. Len(graph)
    BY <1>3
  <2>4. solved = Before(Len(graph) + 1)
    BY <1>1 DEF OrderInv, SolvedInv
  <2>5. QED
    BY <1>2, <2>1, <2>2, <2>3, <2>4 DEF Before
<1>5. IsFiniteSet(used_nodes)
  <2>1. IsFiniteSet(Nodes \union {Entry})
    BY FS_AddElement
  <2>2. IsFiniteSet((Nodes \union {Entry}) \union {Input})
    BY <2>1, FS_AddElement
  <2>3. used_nodes \in SUBSET ((Nodes \union {Entry}) \union {Input})
    BY <1>2
  <2>4. QED
    BY <2>2, <2>3, FS_Subset
<1> DEFINE A == solved \ {Input}
           B == solved' \ {Input}
           C == used_nodes \ {Entry}
<1>6. PICK x : x \in Solvable
  OBVIOUS
<1>7. x \in used_nodes /\ x \notin solved /\ x # Input
  <2>1. Input \in solved
    BY <1>1 DEF OrderInv, SolvedInv, Before
  <2>2. QED
    BY <1>6, <2>1 DEF Solvable
<1>8. A \union {x} \in SUBSET B /\ B \in SUBSET C /\ x \notin A
  BY <1>1, <1>2, <1>4, <1>6, <1>7 DEF Solvable
<1>9. IsFiniteSet(C) /\ Cardinality(C) = Cardinality(used_nodes) - 1
  BY <1>2, <1>5, FS_RemoveElement
<1> HIDE DEF B, C
<1>10. IsFiniteSet(B) /\ Cardinality(B) <= Cardinality(C)
  BY <1>8, <1>9, FS_Subset
<1>11. IsFiniteSet(A \union {x}) /\ Cardinality(A \union {x}) <= Cardinality(B)
  BY <1>8, <1>10, FS_Subset
<1>12. IsFiniteSet(A)
  <2>1. A \in SUBSET (A \union {x})
    OBVIOUS
  <2> HIDE DEF A
  <2>2. QED
    BY <1>11, <2>1, FS_Subset
<1>13. Cardinality(A \union {x}) = Cardinality(A) + 1
  BY <1>8, <1>12, FS_AddElement
<1>14. /\ Cardinality(A) \in Nat /\ Cardinality(B) \in Nat /\ Cardinality(C) \in Nat
       /\ Cardinality(used_nodes) \in Nat
  BY <1>5, <1>9, <1>10, <1>12, FS_CardinalityType
<1>15. Len(graph) <= Cardinality(A)
  BY <1>1 DEF StagesFilled
<1>16. Len(graph') <= Cardinality(B) /\ Len(graph') < Cardinality(used_nodes)
  BY <1>3, <1>9, <1>10, <1>11, <1>13, <1>14, <1>15
<1>17. pc' = "sweep"
  BY <1>1, <1>3, <1>14, <1>16
<1>18. QED
  BY <1>16, <1>17 DEF StagesFilled, B

LEMMA SweepCirclesInv ==
  ASSUME OrderInv, CirclesInv, Sweep
  PROVE  CirclesInv'
<1>1. UNCHANGED <<flow, used_nodes, adjmat, circular>> /\ pc = "sweep"
  BY DEF Sweep
<1>2. used_nodes \subseteq All /\ adjmat \subseteq used_nodes \X used_nodes /\ flow \in Flows
  BY DEF OrderInv, TypeInv, TypeOK, Looked
<1>3. OnCircle' = OnCircle /\ \A n \in All : Reached(n)' = Reached(n)
  BY <1>1, <1>2, SameReached
<1>4. PathsInv'
  BY <1>1, <1>2, <1>3 DEF CirclesInv, PathsInv
<1>5. \A r \in circular' : r.what # "failed" => r.node \in OnCircle'
  BY <1>1, <1>3 DEF CirclesInv, Reported
<1>6. CASE Entry \in Solvable
  <2>1. pc' = "done"
    BY <1>6 DEF Sweep
  <2>2. QED
    BY <1>4, <1>5, <2>1 DEF CirclesInv, Reported, StagesFilled
<1>7. CASE Entry \notin Solvable /\ Solvable # {}
  <2>1. pc' = "sweep" /\ StagesFilled'
    BY <1>7, FilledStage DEF CirclesInv
  <2>2. QED
    BY <1>4, <1>5, <2>1 DEF CirclesInv, Reported
<1>8. CASE Entry \notin Solvable /\ Solvable = {}
  <2>1. pc' = "circles"
    BY <1>8 DEF Sweep
  <2>2. Unsolved \in SUBSET used_nodes
    BY DEF Unsolved
  <2>3. Unsolved # {}
    <3>1. Entry \in used_nodes
      BY <1>1 DEF OrderInv, TypeInv, Looked
    <3>2. Entry \notin solved
      <4>1. DOMAIN graph = 1 .. Len(graph) /\ Len(graph) \in Nat
        BY StagesType DEF OrderInv
      <4>2. 1 .. (Len(graph) + 1) - 1 = DOMAIN graph
        BY <4>1
      <4>3. solved = Before(Len(graph) + 1) /\ \A i \in DOMAIN graph : Entry \notin graph[i]
        BY <1>1 DEF OrderInv, SolvedInv
      <4>4. QED
        BY <4>2, <4>3 DEF Before
    <3>3. QED
      BY <3>1, <3>2 DEF Unsolved
  <2>4. \A n \in Unsolved : \E m \in Unsolved : m \in Needs(n)
    BY <1>1, <1>8, UnsolvableNeeds
  <2>5. OnCircle # {}
    BY <1>2, <2>2, <2>3, <2>4, CircleExists
  <2>6. QED
    BY <1>3, <1>4, <1>5, <2>1, <2>5 DEF CirclesInv, Reported, StagesFilled
<1>9. QED
  BY <1>6, <1>7, <1>8

LEMMA FindCirclesInv ==
  ASSUME OrderInv, CirclesInv, FindCircles
  PROVE  CirclesInv'
<1>1. UNCHANGED <<flow, used_nodes>> /\ pc = "circles" /\ pc' \in {"circles", "failed"}
  BY DEF FindCircles
<1>2. used_nodes \subseteq All /\ adjmat \subseteq used_nodes \X used_nodes /\ flow \in Flows
  BY DEF OrderInv, TypeInv, TypeOK, Looked
<1>3. OnCircle' = OnCircle /\ \A n \in All : Reached(n)' = Reached(n)
  BY <1>1, <1>2, SameReached
<1>4. \A p \in adjmat : p[1] \in used_nodes /\ p[2] \in Reached(p[1])
  BY <1>2 DEF CirclesInv, PathsInv
<1>5. PathsInv'
  <2>1. ASSUME NEW p \in Longer(adjmat) PROVE p[1] \in All /\ p[2] \in Reached(p[1])
    <3>1. PICK z \in used_nodes :
            <<p[1], z>> \in adjmat /\ <<z, p[2]>> \in UNION {Row(n) : n \in used_nodes}
      BY <2>1 DEF Longer
    <3>2. p[1] \in All /\ p[1] \in used_nodes
      BY <1>2, <2>1 DEF Longer
    <3>3. z \in Reached(p[1])
      BY <1>4, <3>1
    <3>4. p[2] \in Reached(z)
      BY <1>2, <3>1, RowsReached
    <3>5. Reached(z) \subseteq Reached(p[1])
      BY <1>2, <3>2, <3>3, ReachedFacts
    <3>6. QED
      BY <3>2, <3>4, <3>5
  <2>2. adjmat' = Longer(adjmat) \/ adjmat' = adjmat
    BY DEF FindCircles
  <2>3. \A p \in adjmat' : p[1] \in All /\ p[2] \in Reached(p[1])
    BY <1>2, <1>4, <2>1, <2>2
  <2>4. QED
    BY <1>3, <2>3 DEF PathsInv
<1>6. Reported'
  <2>1. OnCircle' # {}
    BY <1>1, <1>3 DEF CirclesInv, Reported
  <2>2. pc' = "failed" => circular' # {}
    BY DEF FindCircles
  <2>3. ASSUME NEW r \in circular', r.what # "failed" PROVE r.node \in OnCircle
    <3>1. CASE r \in circular
      BY <2>3, <3>1 DEF CirclesInv, Reported
    <3>2. CASE r \notin circular
      <4>1. PICK x \in used_nodes : <<x, x>> \in adjmat /\ r.node = x
        BY <2>3, <3>2 DEF FindCircles
      <4>2. x \in All /\ x \in Reached(x)
        BY <1>2, <1>4, <4>1
      <4>3. QED
        BY <1>2, <4>1, <4>2, ReachedFacts
    <3>3. QED
      BY <3>1, <3>2
  <2>4. QED
    BY <1>3, <2>1, <2>2, <2>3 DEF Reported
<1>7. QED
  BY <1>1, <1>5, <1>6 DEF CirclesInv, StagesFilled

LEMMA ReachCirclesInv ==
  ASSUME OrderInv, CirclesInv, Reach
  PROVE  CirclesInv'
<1>1. UNCHANGED <<flow, graph, solved, circular>> /\ pc = "reach" /\ adjmat = {}
      /\ circular = {} /\ graph = <<>> /\ solved = {Input} /\ flow \in Flows
      /\ used_nodes \subseteq All
  BY DEF Reach, OrderInv, TypeInv, TypeOK, Looked
<1>2. \A n \in All : Reached(n)' = Reached(n)
  BY <1>1, SameReached
<1>3. pc' \in {"reach", "sweep"}
  BY DEF Reach
<1>4. StagesFilled'
  <2>1. solved' \ {Input} = {} /\ Len(graph') = 0
    BY <1>1
  <2>2. Cardinality({}) = 0
    BY FS_EmptySet
  <2>3. Cardinality(solved' \ {Input}) = 0
    BY ONLY <2>1, <2>2
  <2>4. Len(graph') <= Cardinality(solved' \ {Input})
    BY <2>1, <2>3
  <2>5. QED
    BY <2>4 DEF StagesFilled
<1>5. adjmat' = {} \/ adjmat' = UNION {Row(n) : n \in used_nodes}
  BY <1>1 DEF Reach
<1>6. \A p \in adjmat' : p[1] \in All /\ p[2] \in Reached(p[1])
  BY <1>1, <1>5, RowsReached
<1>7. PathsInv'
  BY <1>2, <1>6 DEF PathsInv
<1>8. QED
  BY <1>1, <1>3, <1>4, <1>7 DEF CirclesInv, Reported

LEMMA NextCirclesInv == OrderInv /\ CirclesInv /\ [Next]_vars => CirclesInv'
<1> SUFFICES ASSUME OrderInv, CirclesInv, [Next]_vars PROVE CirclesInv'
  OBVIOUS
<1>1. CASE Reach
  BY <1>1, ReachCirclesInv
<1>2. CASE Sweep
  BY <1>2, SweepCirclesInv
<1>3. CASE FindCircles
  BY <1>3, FindCirclesInv
<1>4. CASE UNCHANGED vars
  <2>1. UNCHANGED <<flow, pc, used_nodes, adjmat, graph, solved, circular>>
    BY <1>4 DEF vars
  <2>2. adjmat \subseteq used_nodes \X used_nodes /\ used_nodes \subseteq All
    BY DEF OrderInv, TypeInv, TypeOK
  <2>3. OnCircle' = OnCircle /\ \A n \in All : Reached(n)' = Reached(n)
    BY <2>1, <2>2, SameReached
  <2>4. PathsInv'
    BY <2>1, <2>2, <2>3 DEF CirclesInv, PathsInv
  <2>5. StagesFilled' /\ Reported'
    BY <2>1, <2>3 DEF CirclesInv, StagesFilled, Reported
  <2>6. QED
    BY <2>4, <2>5 DEF CirclesInv
<1>5. QED
  BY <1>1, <1>2, <1>3, <1>4 DEF Next

LEMMA InitCirclesInv == Init => CirclesInv
<1> SUFFICES ASSUME Init PROVE CirclesInv
  OBVIOUS
<1>1. pc = "reach" /\ adjmat = {} /\ circular = {}
  BY DEF Init
<1>2. QED
  BY <1>1 DEF CirclesInv, PathsInv, StagesFilled, Reported

(* In every flow, the graph fails exactly when something the entry needs,
   needs itself, and only such nodes are reported. *)
THEOREM CirclesReportedHolds == Spec => []CirclesReported
<1>1. OrderInv /\ NeededInv /\ CirclesInv => CirclesReported
  BY DoneHasNoCircle DEF CirclesInv, Reported, CirclesReported
<1>2. OrderInv /\ CirclesInv /\ [Next]_vars => CirclesInv'
  BY NextCirclesInv
<1>3. QED
  BY <1>1, <1>2, InitCirclesInv, OrderInvHolds, NeededInvHolds, PTL DEF Spec
=============================================================================
