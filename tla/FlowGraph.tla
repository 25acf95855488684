----------------------------- MODULE FlowGraph ------------------------------
(***************************************************************************)
(* flow_compiler::build_flow_graph() of flow-compiler.C: from the nodes of *)
(* a flow and what they refer to, the stages in which an entry runs them,  *)
(* or the circular references that make that impossible.                   *)
(*                                                                         *)
(* A node is a number greater than 0 - its position in the source - and 0  *)
(* stands for the input.  Nodes with the same label are alternates: those  *)
(* with a condition are tried in source order, before the one without.  A  *)
(* flow says of every node the first node with its label, whether it has a *)
(* condition, and which labels (again, their first nodes) its condition    *)
(* and the rest of it refer to.                                            *)
(***************************************************************************)
EXTENDS Integers, Sequences, FiniteSets

CONSTANTS
  Nodes,   \* the nodes of the flow
  Entry,   \* the entry the graph is for
  Flows    \* the flows that are looked at

Input == 0
All   == Nodes \union {Entry, Input}

ASSUME NodesAssumption ==
  /\ IsFiniteSet(Nodes) /\ Nodes \subseteq Nat \ {0}
  /\ Entry \in Nat \ (Nodes \union {0})
ASSUME FlowsAssumption ==
  \A f \in Flows :
    /\ f.first \in [Nodes -> Nodes] /\ f.conditional \in [Nodes -> BOOLEAN]
    /\ f.condition \in [Nodes -> SUBSET (Nodes \union {Input})]
    /\ \A n \in Nodes : f.conditional[n] \/ f.condition[n] = {}
    /\ f.refs \in [Nodes \union {Entry} -> SUBSET (Nodes \union {Input})]

VARIABLES
  flow,         \* what is compiled
  pc,
  todo,         \* the nodes still to be looked at
  used_nodes,   \* those reached from the entry
  adjmat,       \* the pairs <<x, y>> where x refers to y, later closed over steps
  graph,        \* the stages
  solved,       \* the nodes in a stage, and the input
  distance,     \* i of the loop that looks for circles
  circular      \* the nodes reported, and how

vars == <<flow, pc, todo, used_nodes, adjmat, graph, solved, distance, circular>>

Init ==
  /\ flow \in Flows
  /\ pc = "reach"
  /\ todo = {Entry} /\ used_nodes = {}
  /\ adjmat = {}
  /\ graph = <<>> /\ solved = {Input}
  /\ distance = 0 /\ circular = {}

-----------------------------------------------------------------------------
(* A bug the checks must notice: the alternate without condition is left out. *)
OnlyConditional(n) ==
  {m \in Nodes : n \in Nodes /\ flow.first[m] = flow.first[n] /\ flow.conditional[m]}

(* get_all_nodes(): the alternates of a node, of those without a condition
   only the last in the source. *)
Alternates(n) ==
  {m \in Nodes :
     /\ n \in Nodes /\ flow.first[m] = flow.first[n]
     /\ flow.conditional[m] \/ \A k \in Nodes :
          k > m /\ flow.first[k] = flow.first[m] => flow.conditional[k]}

(* The alternates tried before n.  All of them, when n is not one itself. *)
TriedBefore(n) ==
  {m \in Alternates(n) \ {n} :
     \/ n \notin Alternates(n)
     \/ flow.conditional[m] /\ (flow.conditional[n] => m < n)}

(* A bug the checks must notice: earlier conditions are not looked at. *)
OwnReferences(n) ==
  IF n = Input THEN {}
  ELSE flow.refs[n] \union (IF n \in Nodes THEN flow.condition[n] ELSE {})

(* get_referenced_node_types(): the references in the node, and those in the
   conditions that were tried before its own. *)
References(n) ==
  IF n = Input THEN {}
  ELSE flow.refs[n] \union
         (IF n \in Nodes
          THEN UNION {flow.condition[m] : m \in TriedBefore(n) \union {n}} ELSE {})

(* The row of a node in the adjacency matrix. *)
Row(n) == {<<n, m>> : m \in References(n) \union UNION {Alternates(k) : k \in References(n)}}

(* A bug the checks must notice: alternates are not looked at themselves. *)
ReachReferences ==
  /\ pc = "reach"
  /\ IF todo = {}
     THEN /\ adjmat' = UNION {Row(n) : n \in used_nodes}
          /\ pc' = "sweep"
          /\ UNCHANGED <<todo, used_nodes>>
     ELSE /\ \E n \in todo :
               /\ used_nodes' = used_nodes \union {n}
               /\ todo' = (todo \union References(n)) \ used_nodes'
          /\ UNCHANGED <<adjmat, pc>>
  /\ UNCHANGED <<flow, graph, solved, distance, circular>>

(* One turn of the loop over the stack; the set it ends with does not depend
   on the order, so any node may be next.  At the end the matrix is made. *)
Reach ==
  /\ pc = "reach"
  /\ IF todo = {}
     THEN /\ adjmat' = UNION {Row(n) : n \in used_nodes}
          /\ pc' = "sweep"
          /\ UNCHANGED <<todo, used_nodes>>
     ELSE /\ \E n \in todo :
               /\ used_nodes' = used_nodes \union {n}
               /\ todo' = (todo \union Alternates(n) \union References(n)) \ used_nodes'
          /\ UNCHANGED <<adjmat, pc>>
  /\ UNCHANGED <<flow, graph, solved, distance, circular>>

(* A bug the checks must notice: a stage ends with its first node. *)
OneAtATime ==
  {x \in used_nodes \ solved :
     /\ \A y \in used_nodes : <<x, y>> \in adjmat => y \in solved
     /\ \A z \in used_nodes \ solved : z < x =>
          \E y \in used_nodes \ solved : <<z, y>> \in adjmat}

(* The nodes that refer to solved nodes only. *)
Solvable ==
  {x \in used_nodes \ solved : \A y \in used_nodes : <<x, y>> \in adjmat => y \in solved}

(* One stage: the loop ends when there is none or when it holds the entry,
   and after as many turns as there are nodes. *)
Sweep ==
  /\ pc = "sweep"
  /\ IF Entry \in Solvable
     THEN /\ solved' = solved \union {Entry}
          /\ pc' = "done"
          /\ UNCHANGED graph
     ELSE /\ graph' = Append(graph, Solvable)
          /\ solved' = solved \union Solvable
          /\ pc' = IF Solvable = {} \/ Len(graph') = Cardinality(used_nodes)
                   THEN "circles" ELSE "sweep"
  /\ UNCHANGED <<flow, todo, used_nodes, adjmat, distance, circular>>

(* A bug the checks must notice: or instead of and. *)
LongerEither(a) ==
  LET one == UNION {Row(n) : n \in used_nodes}
  IN  {p \in used_nodes \X used_nodes :
         \E z \in used_nodes : <<p[1], z>> \in a \/ <<z, p[2]>> \in one}

(* The matrix of the paths that are one step longer. *)
Longer(a) ==
  LET one == UNION {Row(n) : n \in used_nodes}
  IN  {p \in used_nodes \X used_nodes :
         \E z \in used_nodes : <<p[1], z>> \in a /\ <<z, p[2]>> \in one}

(* One turn of the search for circles, which stops at the number of nodes
   less three.  If none was found the graph as a whole is reported. *)
FindCircles ==
  /\ pc = "circles"
  /\ IF distance + 3 < Cardinality(used_nodes)
     THEN /\ circular' = circular \union
               {[node |-> x, what |-> IF distance = 0 THEN "itself" ELSE "circular"] :
                  x \in {y \in used_nodes :
                           <<y, y>> \in adjmat /\ \A r \in circular : r.node # y}}
          /\ adjmat' = Longer(adjmat)
          /\ distance' = distance + 1
          /\ UNCHANGED pc
     ELSE /\ circular' = IF circular = {} THEN {[node |-> Entry, what |-> "failed"]}
                         ELSE circular
          /\ pc' = "failed"
          /\ UNCHANGED <<adjmat, distance>>
  /\ UNCHANGED <<flow, todo, used_nodes, graph, solved>>

Next == Reach \/ Sweep \/ FindCircles

Spec == Init /\ [][Next]_vars

-----------------------------------------------------------------------------
(* Properties. *)

(* Every reference in the matrix is to a node it has a column for. *)
TypeOK ==
  /\ pc \in {"reach", "sweep", "done", "circles", "failed"}
  /\ todo \subseteq All /\ used_nodes \subseteq All
  /\ adjmat \subseteq used_nodes \X used_nodes
  /\ graph \in Seq(SUBSET used_nodes) /\ solved \subseteq used_nodes \union {Input}
  /\ distance \in Nat
  /\ circular \subseteq [node : used_nodes, what : {"itself", "circular", "failed"}]

(* What has to be known before a node can run: whatever can give a value to
   one of the labels it mentions, or that are mentioned in the conditions
   that are tested before it is chosen. *)
SameLabel(n) == {m \in Nodes : n \in Nodes /\ flow.first[m] = flow.first[n]}
Mentions(n) ==
  (IF n = Input THEN {} ELSE flow.refs[n]) \union
  UNION {flow.condition[m] : m \in {k \in SameLabel(n) :
           flow.conditional[k] /\ (k <= n \/ ~flow.conditional[n])}}
Chosen(n) ==
  {m \in SameLabel(n) : flow.conditional[m]} \union
  {m \in SameLabel(n) : ~flow.conditional[m] /\
     \A k \in SameLabel(n) : ~flow.conditional[k] => k <= m}
Needs(n) == UNION {{k} \union Chosen(k) : k \in Mentions(n)}

Before(i) == {Input} \union UNION {graph[j] : j \in 1 .. i - 1}

(* A stage only needs the input and earlier stages, and no node runs in two
   stages. *)
StagesOrdered ==
  \A i \in DOMAIN graph : \A n \in graph[i] :
    Needs(n) \subseteq Before(i) /\ n \notin Before(i)

(* A node runs as early as it can: it needs a node of the stage before. *)
StagesTight ==
  \A i \in DOMAIN graph : i > 1 => \A n \in graph[i] : Needs(n) \cap graph[i - 1] # {}

(* The sets that hold, of all their nodes, what those need. *)
ClosedSets ==
  LET needed == UNION {{<<n, m>> : m \in Needs(n)} : n \in All}
  IN  {S \in SUBSET All : \A p \in needed : p[1] \in S => p[2] \in S}

(* When the graph is done the stages hold everything the entry needs,
   directly or not, and nothing else. *)
StagesComplete ==
  pc = "done" =>
    LET staged == UNION {graph[i] : i \in DOMAIN graph}
    IN  {n \in All \ {Entry, Input} : \A S \in ClosedSets : Entry \in S => n \in S}
          = staged \ {Input}

(* The nodes that need themselves: every closed set with what such a node
   needs has the node. *)
OnCircle ==
  LET closed == ClosedSets
  IN  {n \in used_nodes : \A S \in closed : Needs(n) \subseteq S => n \in S}

(* The graph fails exactly when something the entry needs, needs itself, and
   the nodes reported as circular do. *)
CirclesReported ==
  /\ pc = "done" => OnCircle = {}
  /\ pc = "circles" => OnCircle # {}
  /\ pc = "failed" =>
       /\ circular # {}
       /\ \A r \in circular : r.what # "failed" => r.node \in OnCircle
=============================================================================
