---------------------------- MODULE CompilerProofs ---------------------------
(***************************************************************************)
(* Proofs about the compiler, and flowc as a whole, for any nodes, flows,  *)
(* programs and requests.                                                  *)
(***************************************************************************)
EXTENDS Driver, FlowGraphProofs

-----------------------------------------------------------------------------
(* Assignments to fields, for all pairs of types. *)

LEMMA BasicTypes ==
  ASSUME NEW t \in FieldTypes
  PROVE  /\ BasicType(t) \in {"int", "float", "enum", "string"}
         /\ BasicType(t) = "enum" <=> t \in Enumeration
         /\ BasicType(t) = "string" <=> t = "string"
  BY DEF FieldTypes, Integer, Floating, Enumeration, BasicType

(* An enumeration only takes another, or a Boolean. *)
LEMMA EnumerationRefuses ==
  ASSUME NEW left \in Enumeration, NEW right \in FieldTypes, right \notin Enumeration,
         right # "bool"
  PROVE  ~Accepted(left, right)
<1>1. left \in FieldTypes /\ left \notin {"string", "bool"}
  BY DEF FieldTypes, Enumeration
<1>2. BasicType(left) # BasicType(right)
  BY <1>1, BasicTypes
<1>3. TypeSize(left) = 4 /\ TypeSize(right) \in {4, 8, 100}
  BY DEF TypeSize, FieldTypes, Enumeration, Integer, Floating
<1>4. CheckAssign(left, right) = "refused"
  BY <1>1, <1>2, <1>3 DEF CheckAssign
<1>5. QED
  BY <1>4 DEF Accepted

LEMMA FieldAlwaysConverts ==
  ASSUME NEW left \in FieldTypes, NEW right \in FieldTypes
  PROVE  FieldConverts(left, right)
<1> SUFFICES ASSUME Accepted(left, right), ~(left \in Enumeration /\ right = "bool")
             PROVE  LET op == ConversionOf(right, left)
                    IN  /\ op # <<>> => op[1] = BasicType(right)
                        /\ Compiles(ValueOf(op, right, left), left)
  BY DEF FieldConverts
<1>1. left \in Enumeration => right \in Enumeration
  BY EnumerationRefuses
<1>2. BasicType(left) = "enum" => BasicType(right) = "enum"
  BY <1>1, BasicTypes
<1>3. CASE right = left /\ left \notin Enumeration \union {"bool"}
  <2>1. ConversionOf(right, left) = <<>>
    BY <1>2, <1>3 DEF ConversionOf
  <2>2. ValueOf(<<>>, right, left) = left
    BY <1>3 DEF ValueOf
  <2>3. QED
    BY <2>1, <2>2 DEF Compiles
<1>4. CASE ~(right = left /\ left \notin Enumeration \union {"bool"})
  <2> DEFINE made == IF left = "bool" THEN "bool" ELSE BasicType(left)
  <2>1. ConversionOf(right, left) = <<BasicType(right), made>>
    BY <1>2, <1>4 DEF ConversionOf
  <2>2. made \in {"bool", "string"} => made = left
    BY BasicTypes
  <2> HIDE DEF made
  <2>3. <<BasicType(right), made>> # <<>>
    OBVIOUS
  <2>4. ValueOf(<<BasicType(right), made>>, right, left) = left
    BY <2>2, <2>3 DEF ValueOf
  <2>5. QED
    BY <2>1, <2>4 DEF Compiles
<1>5. QED
  BY <1>3, <1>4

LEMMA LiteralAlwaysConverts ==
  ASSUME NEW left \in FieldTypes, NEW lit,
         lit.type \in {"int32", "float", "string"} \union Enumeration
  PROVE  LiteralConverts(left, lit)
<1> SUFFICES ASSUME WrittenLiteral(left, lit) # "refused",
                    ~(lit.type = "string" /\ BasicType(left) \in {"int", "float"} /\ left # "bool")
             PROVE  Compiles(WrittenLiteral(left, lit), left)
  BY DEF LiteralConverts
<1>1. CASE left \in {"string", "bool"} \union Enumeration
  <2>1. WrittenLiteral(left, lit) = left
    BY <1>1 DEF WrittenLiteral, Enumeration
  <2>2. QED
    BY <2>1 DEF Compiles
<1>2. CASE left \notin {"string", "bool"} \union Enumeration
  <2>1. left \in Integer \union Floating /\ BasicType(left) \in {"int", "float"}
    BY <1>2 DEF FieldTypes, BasicType
  <2>2. WrittenLiteral(left, lit) = lit.type /\ lit.type # "string"
    BY <1>2, <2>1 DEF WrittenLiteral
  <2>3. QED
    BY <2>1, <2>2 DEF Compiles
<1>3. QED
  BY <1>1, <1>2


-----------------------------------------------------------------------------
(* The inductive invariant, part by part. *)

Identified == {"names", "graph", "dimensions", "stages", "compiled"}
Checked    == {"graph", "dimensions", "stages", "compiled"}
Building   == {"stages", "compiled"}

(* The graph is done before dimensions are looked at, and nothing is written
   before that. *)
ProgramInv ==
  /\ source \in Programs(flow)
  /\ phase \in {"declarations", "rejected"} \union Identified
  /\ phase \in {"dimensions"} \union Building => pc = "done"
  /\ phase \in {"declarations", "names", "graph", "dimensions"} =>
       icode = <<>> /\ errnc = {} /\ fava = {Input} /\ stage = 0

(* Ids tell the nodes of a label apart: those given at once, the others when
   all are. *)
NamesInv ==
  /\ phase \in Identified =>
       /\ ids \in [Nodes -> Nat]
       /\ \A n, m \in Nodes : n # m /\ Label(n) = Label(m) /\ ids[n] # 0 => ids[n] # ids[m]
  /\ phase \in Checked =>
       /\ \A n, m \in Nodes : n # m /\ Label(n) = Label(m) => ids[n] # 0
       /\ ~TypesRejected(source.nodes)

(* The code of a node tests the alternates before it that were not written when
   it was, and all nodes of the stages that are over are written. *)
IsNode(i, n) == icode[i].is = "node" /\ icode[i].node = n
NodeEntry(i) ==
  LET n == icode[i].node
  IN  /\ n \in GraphNodes
      /\ icode[i].name = <<Label(n), ids[n]>>
      /\ icode[i].own = flow.conditional[n]
      /\ icode[i].type = ResultType(source.nodes, n)
      /\ icode[i].untested =
           {m \in TriedBefore(n) : flow.conditional[m] /\ \A j \in 1 .. i - 1 : ~IsNode(j, m)}
NodesInv ==
  /\ \A i \in DOMAIN icode : icode[i].is = "node" => NodeEntry(i)
  /\ \A s \in 1 .. stage : \A n \in graph[s] : \E i \in DOMAIN icode : IsNode(i, n)

(* Checks that are written are so once, and in the first stage they could be;
   the others could be in none so far. *)
IsCheck(i, c) == icode[i].is = "check" /\ icode[i].check = c
Placeable(c, s) ==
  /\ {r.label : r \in source.checks[c]} \subseteq FinalBefore(s)
  /\ \A r \in source.checks[c] : r.whole
CheckEntry(i) ==
  /\ icode[i].check \in errnc /\ icode[i].stage \in DOMAIN graph
  /\ Placeable(icode[i].check, icode[i].stage)
  /\ \A s \in 1 .. icode[i].stage - 1 : ~Placeable(icode[i].check, s)
ChecksInv ==
  /\ fava = FinalBefore(stage + 1) /\ errnc \subseteq DOMAIN source.checks
  /\ \A c \in DOMAIN source.checks \ errnc : \A s \in 1 .. stage : ~Placeable(c, s)
  /\ \A i \in DOMAIN icode : icode[i].is = "check" => CheckEntry(i)
  /\ \A c \in errnc : \E i \in DOMAIN icode : IsCheck(i, c)
  /\ \A i, j \in DOMAIN icode : \A c \in errnc : IsCheck(i, c) /\ IsCheck(j, c) => i = j

CodeInv ==
  phase \in Building =>
    /\ icode \in Seq(Range(icode)) /\ stage \in 0 .. Len(graph)
    /\ phase = "compiled" => stage = Len(graph)
    /\ NodesInv /\ ChecksInv

CompileInv == ProgramInv /\ NamesInv /\ CodeInv


-----------------------------------------------------------------------------
(* Facts about the operators. *)

(* A set of numbers that is not empty has a least element. *)
LEMMA MinIn ==
  ASSUME NEW S \in SUBSET Nat, S # {}
  PROVE  Min(S) \in S /\ \A x \in S : Min(S) <= x
<1> DEFINE upto == {0 .. k : k \in S}
           R    == StrictSubsetOrdering(Nat)
<1>1. \A k \in S : IsFiniteSet(0 .. k) /\ 0 .. k \in SUBSET Nat
  BY FS_Interval
<1>2. upto \subseteq FiniteSubsetsOf(Nat) /\ upto # {}
  BY <1>1 DEF FiniteSubsetsOf
<1>3. IsWellFoundedOn(R, FiniteSubsetsOf(Nat))
  BY FS_StrictSubsetOrderingWellFounded
<1> HIDE DEF upto, R
<1>4. \E x \in upto : \A y \in upto : ~ (<<y, x>> \in R)
  BY <1>2, <1>3, WFMin
<1>5. PICK k \in S : \A j \in S : ~ (<<0 .. j, 0 .. k>> \in R)
  BY <1>4 DEF upto
<1>6. \A j \in S : k <= j
  <2> SUFFICES ASSUME NEW j \in S, j < k PROVE FALSE
    OBVIOUS
  <2>1. 0 .. j \subseteq 0 .. k /\ k \in 0 .. k /\ k \notin 0 .. j
    OBVIOUS
  <2>2. 0 .. j \in SUBSET Nat /\ 0 .. k \in SUBSET Nat /\ 0 .. j # 0 .. k
    BY <2>1
  <2>3. <<0 .. j, 0 .. k>> \in R
    BY <2>1, <2>2 DEF R, StrictSubsetOrdering
  <2>4. QED
    BY <1>5, <2>3
<1>7. QED
  BY <1>6 DEF Min

LEMMA AppendCode ==
  ASSUME NEW s, s \in Seq(Range(s)), NEW e, NEW t, t = Append(s, e)
  PROVE  /\ Len(s) \in Nat /\ DOMAIN s = 1 .. Len(s)
         /\ t \in Seq(Range(t)) /\ Len(t) = Len(s) + 1 /\ DOMAIN t = 1 .. Len(s) + 1
         /\ \A i \in 1 .. Len(s) : t[i] = s[i]
         /\ t[Len(s) + 1] = e
<1> DEFINE S == Range(s) \union {e}
<1>1. s \in Seq(S) /\ e \in S
  <2>1. Range(s) \subseteq S
    OBVIOUS
  <2> HIDE DEF S
  <2>2. s \in Seq(S)
    BY <2>1
  <2>3. QED
    BY <2>2 DEF S
<1> HIDE DEF S
<1>2. Len(s) \in Nat /\ DOMAIN s = 1 .. Len(s)
  BY <1>1
<1>3. Len(t) = Len(s) + 1 /\ t \in Seq(S)
  BY <1>1
<1>4. DOMAIN t = 1 .. Len(s) + 1
  BY <1>3
<1>5. \A i \in 1 .. Len(s) : t[i] = s[i]
  BY <1>1
<1>6. t[Len(s) + 1] = e
  BY <1>1
<1>7. \A i \in 1 .. Len(t) : t[i] \in Range(t)
  BY <1>3, <1>4 DEF Range
<1>8. t \in Seq(Range(t))
  BY <1>3, <1>7
<1>9. QED
  BY <1>2, <1>3, <1>4, <1>5, <1>6, <1>8

LEMMA ProgramFacts ==
  ASSUME flow \in Flows, source \in Programs(flow)
  PROVE  /\ source.nodes \in Seq(Range(source.nodes)) /\ DOMAIN source.nodes = Nodes
         /\ Nodes = 1 .. Len(source.nodes) /\ Len(source.nodes) \in Nat
         /\ flow.first \in [Nodes -> Nodes]
         /\ \A n \in Nodes :
              /\ Label(n) \in Nodes /\ Label(Label(n)) = Label(n)
              /\ source.nodes[n].label = Label(n)
              /\ source.nodes[n].ids \in Seq(Nat \ {0})
              /\ Group(source.nodes, n) = {m \in Nodes : Label(m) = Label(n)}
         /\ source.checks \in Seq(SUBSET [label : Nodes \union {Input}, whole : BOOLEAN])
<1>1. /\ source.nodes \in Seq(Range(source.nodes)) /\ DOMAIN source.nodes = Nodes
      /\ \A n \in Nodes :
           /\ source.nodes[n].label = flow.first[n] /\ flow.first[flow.first[n]] = flow.first[n]
           /\ source.nodes[n].ids \in Seq(Nat \ {0})
      /\ source.checks \in Seq(SUBSET [label : Nodes \union {Input}, whole : BOOLEAN])
  BY ProgramsAssumption
<1>2. flow.first \in [Nodes -> Nodes]
  BY FlowFields
<1>3. \A n \in Nodes : Group(source.nodes, n) = {m \in Nodes : Label(m) = Label(n)}
  BY <1>1 DEF Group, Label
<1>4. Nodes = 1 .. Len(source.nodes) /\ Len(source.nodes) \in Nat
  BY <1>1
<1>5. QED
  BY <1>1, <1>2, <1>3, <1>4 DEF Label


-----------------------------------------------------------------------------
(* Names. *)

LEMMA GivenApart ==
  ASSUME flow \in Flows, source \in Programs(flow), ~NamesRejected(source.nodes)
  PROVE  LET given == GivenIds(source.nodes)
         IN  /\ given \in [Nodes -> Nat]
             /\ \A n, m \in Nodes : n # m /\ Label(n) = Label(m) /\ given[n] # 0 => given[n] # given[m]
<1> DEFINE given == GivenIds(source.nodes)
<1>1. DOMAIN source.nodes = Nodes /\ \A n \in Nodes : source.nodes[n].ids \in Seq(Nat \ {0})
  BY ProgramFacts
<1>2. ASSUME NEW n \in Nodes
      PROVE  Given(source.nodes[n]) \in Nat
  <2>1. CASE source.nodes[n].ids = <<>>
    BY <2>1 DEF Given
  <2>2. CASE source.nodes[n].ids # <<>>
    <3>1. source.nodes[n].ids[1] \in Nat \ {0}
      BY <1>1, <2>2
    <3>2. QED
      BY <2>2, <3>1 DEF Given
  <2>3. QED
    BY <2>1, <2>2
<1>3. given \in [Nodes -> Nat] /\ \A n \in Nodes : given[n] = Given(source.nodes[n])
  BY <1>1, <1>2 DEF GivenIds
<1>4. ASSUME NEW n \in Nodes, NEW m \in Nodes, Label(n) = Label(m), m < n, given[n] # 0
      PROVE  given[n] # given[m]
  <2>1. m \in Group(source.nodes, n)
    BY <1>4, ProgramFacts
  <2>2. ~Reused(source.nodes)
    BY DEF NamesRejected
  <2>3. QED
    BY <1>1, <1>3, <1>4, <2>1, <2>2 DEF Reused
<1>5. ASSUME NEW n \in Nodes, NEW m \in Nodes, n # m, Label(n) = Label(m), given[n] # 0
      PROVE  given[n] # given[m]
  <2> HIDE DEF given
  <2>1. m < n \/ n < m
    BY <1>5, NodesAssumption
  <2>2. CASE m < n
    BY <1>4, <1>5, <2>2
  <2>3. CASE n < m
    BY <1>4, <1>5, <2>3
  <2>4. QED
    BY <2>1, <2>2, <2>3
<1>6. QED
  BY <1>3, <1>5

(* There are as many numbers to be tried as nodes: one of them is free. *)
LEMMA FreeId ==
  ASSUME flow \in Flows, source \in Programs(flow), ids \in [Nodes -> Nat],
         NEW n \in Nodes, ids[n] = 0
  PROVE  /\ FirstFree(source.nodes, ids, n) \in Nat \ {0}
         /\ \A m \in Nodes : Label(m) = Label(n) => ids[m] # FirstFree(source.nodes, ids, n)
<1> DEFINE L    == Len(source.nodes)
           G    == Group(source.nodes, n)
           free == {i \in 1 .. L : \A m \in G : ids[m] # i}
<1>1. Nodes = 1 .. L /\ L \in Nat /\ G = {m \in Nodes : Label(m) = Label(n)}
  BY ProgramFacts
<1>2. FirstFree(source.nodes, ids, n) = Min(free)
  BY DEF FirstFree
<1> HIDE DEF L, G, free
<1>3. free # {}
  <2> SUFFICES ASSUME free = {} PROVE FALSE
    OBVIOUS
  <2> DEFINE T == Nodes \ {n}
             f == [i \in 1 .. L |-> CHOOSE m \in T : ids[m] = i]
  <2>1. ASSUME NEW i \in 1 .. L PROVE \E m \in T : ids[m] = i
    <3>1. \E m \in G : ids[m] = i
      BY DEF free
    <3>2. i # 0
      BY <1>1
    <3>3. QED
      BY <1>1, <3>1, <3>2
  <2>2. f \in [1 .. L -> T] /\ \A i \in 1 .. L : ids[f[i]] = i
    BY <2>1
  <2>3. IsFiniteSet(1 .. L) /\ Cardinality(1 .. L) = L
    <3>1. 1 \in Int /\ L \in Int /\ (1 > L => L = 0)
      BY <1>1
    <3>2. QED
      BY <3>1, FS_Interval, <1>1
  <2> HIDE DEF f
  <2>4. IsFiniteSet(T) /\ Cardinality(T) = L - 1
    <3>1. IsFiniteSet(Nodes) /\ Cardinality(Nodes) = L
      BY <1>1, <2>3
    <3> DEFINE N == Nodes
    <3>2. IsFiniteSet(N) /\ n \in N
      BY <3>1
    <3> HIDE DEF N
    <3>3. IsFiniteSet(N \ {n}) /\ Cardinality(N \ {n}) = Cardinality(N) - 1
      BY <3>2, FS_RemoveElement
    <3>4. T = N \ {n}
      BY DEF N
    <3> HIDE DEF T
    <3>5. QED
      BY <3>1, <3>3, <3>4 DEF N
  <2>5. Cardinality(T) < Cardinality(1 .. L)
    BY <1>1, <2>3, <2>4
  <2> HIDE DEF T
  <2> DEFINE S == 1 .. L
  <2>6. IsFiniteSet(S) /\ f \in [S -> T] /\ Cardinality(T) < Cardinality(S)
    BY <2>2, <2>3, <2>5
  <2> HIDE DEF S
  <2>7. \E x, y \in S : x # y /\ f[x] = f[y]
    BY <2>4, <2>6, FS_PigeonHole
  <2>8. QED
    BY <2>2, <2>7 DEF S
<1>4. free \subseteq Nat
  BY <1>1 DEF free
<1>5. Min(free) \in free
  BY <1>3, <1>4, MinIn
<1>6. QED
  BY <1>1, <1>2, <1>5 DEF free

LEMMA AllNamed ==
  ASSUME flow \in Flows, source \in Programs(flow), Unnamed(source.nodes, ids) = {},
         NEW n \in Nodes, NEW m \in Nodes, n # m, Label(n) = Label(m)
  PROVE  ids[n] # 0
<1> DEFINE G == Group(source.nodes, n)
<1>1. {n, m} \subseteq G /\ G \subseteq Nodes /\ DOMAIN source.nodes = Nodes
  BY ProgramFacts
<1> HIDE DEF G
<1>2. IsFiniteSet(G)
  BY <1>1, NodesAssumption, FS_Subset
<1>3. Cardinality({n, m}) = 2
  <2>1. IsFiniteSet({n}) /\ Cardinality({n}) = 1
    BY FS_Singleton
  <2>2. Cardinality({n} \union {m}) = 2
    BY <2>1, FS_AddElement
  <2>3. {n} \union {m} = {n, m}
    OBVIOUS
  <2>4. QED
    BY <2>2, <2>3
<1>4. Cardinality({n, m}) <= Cardinality(G) /\ Cardinality(G) \in Nat
  BY <1>1, <1>2, FS_Subset, FS_CardinalityType
<1>5. Cardinality(G) > 1
  BY <1>3, <1>4
<1>6. QED
  BY <1>1, <1>5 DEF Unnamed, G


-----------------------------------------------------------------------------
(* The steps of the compiler are steps of the graph, or leave it alone. *)

LEMMA InitImpliesInit == CompileInit => Init
  BY DEF CompileInit

LEMMA GraphStep == [CompileNext]_all_vars => [Next]_vars
<1> SUFFICES ASSUME [CompileNext]_all_vars PROVE [Next]_vars
  OBVIOUS
<1>1. CASE BuildFlowGraph
  BY <1>1 DEF BuildFlowGraph
<1>2. CASE UNCHANGED vars
  BY <1>2
<1>3. QED
  BY <1>1, <1>2 DEF CompileNext, all_vars, CheckNodeIds, AssignNodeId, FixupProtoRefs,
     UpdateDimensions, EmitCheck, EmitNode, EndStage, EmitReply

LEMMA SameProgram ==
  ASSUME [CompileNext]_all_vars
  PROVE  UNCHANGED <<flow, source>>
<1>1. CASE BuildFlowGraph
  BY <1>1 DEF BuildFlowGraph, Next, Reach, Sweep, FindCircles
<1>2. CASE ~BuildFlowGraph
  BY <1>2 DEF CompileNext, all_vars, compile_vars, vars, CheckNodeIds, AssignNodeId,
     FixupProtoRefs, UpdateDimensions, EmitCheck, EmitNode, EndStage, EmitReply
<1>3. QED
  BY <1>1, <1>2

LEMMA InitCompileInv == CompileInit => CompileInv
  BY DEF CompileInit, Init, CompileInv, ProgramInv, NamesInv, CodeInv, Identified, Checked, Building

LEMMA NextProgramInv == ProgramInv /\ [CompileNext]_all_vars => ProgramInv'
<1> SUFFICES ASSUME ProgramInv, [CompileNext]_all_vars PROVE ProgramInv'
  OBVIOUS
<1> USE DEF ProgramInv, Identified, Building
<1>1. (source \in Programs(flow))'
  BY SameProgram
<1>2. CASE CheckNodeIds
  BY <1>1, <1>2 DEF CheckNodeIds, vars
<1>3. CASE AssignNodeId
  BY <1>1, <1>3 DEF AssignNodeId, vars
<1>4. CASE FixupProtoRefs
  BY <1>1, <1>4 DEF FixupProtoRefs, vars
<1>5. CASE BuildFlowGraph
  <2>1. /\ phase = "graph" /\ phase' \in {"graph", "dimensions", "rejected"}
        /\ phase' = "dimensions" => pc' = "done"
        /\ UNCHANGED <<icode, errnc, fava, stage>>
    BY <1>5 DEF BuildFlowGraph
  <2>2. QED
    BY <1>1, <2>1
<1>6. CASE UpdateDimensions
  <2>1. /\ phase = "dimensions" /\ phase' \in {"rejected", "stages"}
        /\ UNCHANGED pc
    BY <1>6 DEF UpdateDimensions, vars
  <2>2. QED
    BY <1>1, <2>1
<1>7. CASE EmitCheck \/ EmitNode \/ EndStage
  <2>1. phase = "stages" /\ phase' = "stages" /\ UNCHANGED pc
    BY <1>7 DEF EmitCheck, EmitNode, EndStage, vars
  <2>2. QED
    BY <1>1, <2>1
<1>8. CASE EmitReply
  <2>1. phase = "stages" /\ phase' \in {"rejected", "compiled"} /\ UNCHANGED pc
    BY <1>8 DEF EmitReply, vars
  <2>2. QED
    BY <1>1, <2>1
<1>9. CASE UNCHANGED all_vars
  BY <1>1, <1>9 DEF all_vars, compile_vars, vars
<1>10. QED
  BY <1>2, <1>3, <1>4, <1>5, <1>6, <1>7, <1>8, <1>9 DEF CompileNext

LEMMA NextNamesInv ==
  ASSUME flow \in Flows, ProgramInv, NamesInv, [CompileNext]_all_vars
  PROVE  NamesInv'
<1>1. UNCHANGED <<flow, source>> /\ source \in Programs(flow)
  BY SameProgram DEF ProgramInv
<1>2. \A n \in Nodes : Label(n)' = Label(n)
  BY <1>1 DEF Label
<1>3. DOMAIN source.nodes = Nodes /\ Nodes \subseteq Nat
  BY <1>1, ProgramFacts, NodesAssumption
<1>4. CASE CheckNodeIds
  <2>1. phase' \in {"rejected", "names"}
    BY <1>4 DEF CheckNodeIds
  <2>2. phase' = "names" => ~NamesRejected(source.nodes) /\ ids' = GivenIds(source.nodes)
    BY <1>4 DEF CheckNodeIds
  <2>3. phase' = "names" =>
          /\ ids' \in [Nodes -> Nat]
          /\ \A n, m \in Nodes : n # m /\ Label(n) = Label(m) /\ ids'[n] # 0 => ids'[n] # ids'[m]
    BY <1>1, <2>2, GivenApart
  <2>4. QED
    BY <1>2, <2>1, <2>3 DEF NamesInv, Identified, Checked
<1>5. CASE AssignNodeId
  <2> DEFINE n == Min(Unnamed(source.nodes, ids))
             free == FirstFree(source.nodes, ids, n)
  <2>1. phase = "names" /\ phase' = "names" /\ ids' = [ids EXCEPT ![n] = free]
    BY <1>5 DEF AssignNodeId
  <2>2. n \in Unnamed(source.nodes, ids)
    <3>1. Unnamed(source.nodes, ids) \subseteq Nat /\ Unnamed(source.nodes, ids) # {}
      BY <1>3, <1>5 DEF AssignNodeId, Unnamed
    <3>2. QED
      BY <3>1, MinIn
  <2>3. n \in Nodes /\ ids[n] = 0
    BY <1>3, <2>2 DEF Unnamed
  <2> HIDE DEF n
  <2>4. /\ ids \in [Nodes -> Nat]
        /\ \A k, m \in Nodes : k # m /\ Label(k) = Label(m) /\ ids[k] # 0 => ids[k] # ids[m]
    BY <2>1 DEF NamesInv, Identified
  <2>5. free \in Nat \ {0} /\ \A m \in Nodes : Label(m) = Label(n) => ids[m] # free
    BY <1>1, <2>3, <2>4, FreeId
  <2> HIDE DEF free
  <2>6. ids' \in [Nodes -> Nat] /\ ids'[n] = free /\ \A m \in Nodes \ {n} : ids'[m] = ids[m]
    BY <2>1, <2>3, <2>4, <2>5
  <2>7. ASSUME NEW k \in Nodes, NEW m \in Nodes, k # m, Label(k) = Label(m), ids'[k] # 0
        PROVE  ids'[k] # ids'[m]
    <3>1. CASE k = n
      BY <2>5, <2>6, <2>7, <3>1
    <3>2. CASE m = n
      BY <2>5, <2>6, <2>7, <3>2
    <3>3. CASE k # n /\ m # n
      BY <2>4, <2>6, <2>7, <3>3
    <3>4. QED
      BY <3>1, <3>2, <3>3
  <2>8. QED
    BY <1>2, <2>1, <2>6, <2>7 DEF NamesInv, Identified, Checked
<1>6. CASE FixupProtoRefs
  <2>1. phase = "names" /\ phase' \in {"rejected", "graph"} /\ UNCHANGED ids
    BY <1>6 DEF FixupProtoRefs
  <2>2. phase' = "graph" =>
          ~TypesRejected(source.nodes) /\ Unnamed(source.nodes, ids) = {}
    BY <1>6 DEF FixupProtoRefs
  <2>3. phase' = "graph" =>
          \A n, m \in Nodes : n # m /\ Label(n) = Label(m) => ids[n] # 0
    BY <1>1, <2>2, AllNamed
  <2>4. QED
    BY <1>1, <1>2, <2>1, <2>2, <2>3 DEF NamesInv, Identified, Checked
<1>7. CASE /\ UNCHANGED ids
           /\ phase' \in Identified => phase \in Identified
           /\ phase' \in Checked => phase \in Checked
  BY <1>1, <1>2, <1>7 DEF NamesInv
<1>8. CASE BuildFlowGraph \/ UpdateDimensions
  BY <1>7, <1>8 DEF BuildFlowGraph, UpdateDimensions, Identified, Checked
<1>9. CASE EmitCheck \/ EmitNode \/ EndStage \/ EmitReply
  BY <1>7, <1>9 DEF EmitCheck, EmitNode, EndStage, EmitReply, Identified, Checked
<1>10. CASE UNCHANGED all_vars
  BY <1>7, <1>10 DEF all_vars, compile_vars
<1>11. QED
  BY <1>4, <1>5, <1>6, <1>8, <1>9, <1>10 DEF CompileNext

-----------------------------------------------------------------------------
(* The code. *)

(* The stages only hold nodes. *)
LEMMA GraphFacts ==
  ASSUME OrderInv
  PROVE  /\ flow \in Flows /\ DOMAIN graph = 1 .. Len(graph) /\ Len(graph) \in Nat
         /\ GraphNodes \subseteq Nodes
         /\ \A i \in DOMAIN graph : graph[i] \subseteq GraphNodes
<1>1. /\ flow \in Flows /\ DOMAIN graph = 1 .. Len(graph) /\ Len(graph) \in Nat
      /\ \A i \in DOMAIN graph : graph[i] \subseteq All
  BY StagesType DEF OrderInv, TypeInv, Looked
<1>2. ASSUME NEW i \in DOMAIN graph, NEW n \in graph[i]
      PROVE  n \in Nodes
  <2>1. n # Entry
    BY <1>2 DEF OrderInv, SolvedInv
  <2>2. n # Input
    BY <1>2 DEF OrderInv, StagesOrdered, Before
  <2>3. QED
    BY <1>1, <2>1, <2>2 DEF All
<1>3. GraphNodes \subseteq Nodes
  BY <1>2 DEF GraphNodes
<1>4. \A i \in DOMAIN graph : graph[i] \subseteq GraphNodes
  BY DEF GraphNodes
<1>5. QED
  BY <1>1, <1>3, <1>4

LEMMA SameGraph ==
  ASSUME UNCHANGED <<flow, graph, source>>
  PROVE  /\ Len(graph') = Len(graph)
         /\ GraphNodes' = GraphNodes
         /\ \A n : Label(n)' = Label(n) /\ TriedBefore(n)' = TriedBefore(n)
         /\ \A s : FinalBefore(s)' = FinalBefore(s)
         /\ \A c, s : Placeable(c, s)' = Placeable(c, s)
<1>1. GraphNodes' = GraphNodes
  BY DEF GraphNodes
<1>2. \A n : Label(n)' = Label(n)
  BY DEF Label
<1>3. \A n : TriedBefore(n)' = TriedBefore(n)
  <2>1. \A n : Alternates(n)' = Alternates(n)
    BY DEF Alternates
  <2>2. QED
    BY <2>1 DEF TriedBefore
<1>4. Labels' = Labels
  BY <1>1, <1>2 DEF Labels
<1>5. \A s : FinalBefore(s)' = FinalBefore(s)
  BY <1>2, <1>4 DEF FinalBefore
<1>6. \A c, s : Placeable(c, s)' = Placeable(c, s)
  BY <1>5 DEF Placeable
<1>7. QED
  BY <1>1, <1>2, <1>3, <1>5, <1>6

(* What is appended leaves the code before it as it was. *)
LEMMA SameEntries ==
  ASSUME UNCHANGED <<flow, graph, source, ids>>, NEW L \in Nat,
         DOMAIN icode = 1 .. L, \A i \in 1 .. L : icode'[i] = icode[i],
         NEW i \in 1 .. L
  PROVE  /\ \A n : IsNode(i, n)' = IsNode(i, n)
         /\ NodeEntry(i) => NodeEntry(i)'
         /\ \A c : IsCheck(i, c)' = IsCheck(i, c)
<1>1. icode'[i] = icode[i]
  OBVIOUS
<1>2. \A n : IsNode(i, n)' = IsNode(i, n)
  BY <1>1 DEF IsNode
<1>3. \A c : IsCheck(i, c)' = IsCheck(i, c)
  BY <1>1 DEF IsCheck
<1>4. ASSUME NodeEntry(i) PROVE NodeEntry(i)'
  <2> DEFINE n == icode[i].node
  <2>1. icode'[i].node = n
    BY <1>1
  <2>2. \A m : \A j \in 1 .. i - 1 : IsNode(j, m)' = IsNode(j, m)
    <3>1. \A j \in 1 .. i - 1 : icode'[j] = icode[j]
      OBVIOUS
    <3>2. QED
      BY <3>1 DEF IsNode
  <2>3. /\ n \in GraphNodes' /\ icode'[i].name = <<Label(n)', ids'[n]>>
        /\ icode'[i].own = flow'.conditional[n] /\ icode'[i].type = ResultType(source'.nodes, n)
    BY <1>1, <1>4, SameGraph DEF NodeEntry
  <2>4. icode'[i].untested =
          {m \in TriedBefore(n)' : flow'.conditional[m] /\ \A j \in 1 .. i - 1 : ~IsNode(j, m)'}
    <3>1. icode[i].untested =
            {m \in TriedBefore(n) : flow.conditional[m] /\ \A j \in 1 .. i - 1 : ~IsNode(j, m)}
      BY <1>4 DEF NodeEntry
    <3>2. TriedBefore(n)' = TriedBefore(n)
      BY SameGraph
    <3>3. QED
      BY <1>1, <2>2, <3>1, <3>2
  <2>5. QED
    BY <2>1, <2>3, <2>4 DEF NodeEntry
<1>5. QED
  BY <1>2, <1>3, <1>4

LEMMA AppendNodesInv ==
  ASSUME NodesInv, UNCHANGED <<flow, graph, source, ids, stage>>,
         icode \in Seq(Range(icode)), NEW e, icode' = Append(icode, e),
         NEW L, L = Len(icode), e.is = "node" => NodeEntry(L + 1)'
  PROVE  NodesInv'
<1>1. /\ L \in Nat /\ DOMAIN icode = 1 .. L /\ DOMAIN icode' = 1 .. L + 1
      /\ \A i \in 1 .. L : icode'[i] = icode[i]
      /\ icode'[L + 1] = e
  BY AppendCode
<1>2. \A i \in 1 .. L : /\ \A n : IsNode(i, n)' = IsNode(i, n)
                        /\ NodeEntry(i) => NodeEntry(i)'
  BY <1>1, SameEntries
<1>3. ASSUME NEW i \in DOMAIN icode', icode'[i].is = "node" PROVE NodeEntry(i)'
  <2>1. CASE i = L + 1
    BY <1>1, <1>3, <2>1
  <2>2. CASE i \in 1 .. L
    <3>1. NodeEntry(i)
      BY <1>1, <1>3, <2>2 DEF NodesInv
    <3>2. QED
      BY <1>2, <2>2, <3>1
  <2>3. QED
    BY <1>1, <2>1, <2>2
<1>4. ASSUME NEW s \in 1 .. stage', NEW n \in graph'[s]
      PROVE  \E i \in DOMAIN icode' : IsNode(i, n)'
  <2>1. PICK i \in 1 .. L : IsNode(i, n)
    BY <1>1, <1>4 DEF NodesInv
  <2>2. IsNode(i, n)' /\ i \in DOMAIN icode'
    BY <1>1, <1>2, <2>1
  <2>3. QED
    BY <2>2
<1>5. QED
  BY <1>3, <1>4 DEF NodesInv

LEMMA AppendChecksInv ==
  ASSUME ChecksInv, UNCHANGED <<flow, graph, source, ids, stage, errnc, fava>>,
         icode \in Seq(Range(icode)), NEW e, icode' = Append(icode, e), e.is # "check",
         NEW L, L = Len(icode)
  PROVE  ChecksInv'
<1>1. /\ L \in Nat /\ DOMAIN icode = 1 .. L /\ DOMAIN icode' = 1 .. L + 1
      /\ \A i \in 1 .. L : icode'[i] = icode[i]
      /\ icode'[L + 1] = e
  BY AppendCode
<1>2. \A i \in 1 .. L : \A c : IsCheck(i, c)' = IsCheck(i, c)
  BY <1>1, SameEntries
<1>3. \A c : ~IsCheck(L + 1, c)'
  BY <1>1 DEF IsCheck
<1>4. /\ fava' = FinalBefore(stage + 1)' /\ errnc' \subseteq DOMAIN source'.checks
      /\ \A c \in DOMAIN source'.checks \ errnc' : \A s \in 1 .. stage' : ~Placeable(c, s)'
  BY SameGraph DEF ChecksInv
<1>5. ASSUME NEW i \in DOMAIN icode', icode'[i].is = "check" PROVE CheckEntry(i)'
  <2>1. i \in 1 .. L /\ icode'[i] = icode[i]
    BY <1>1, <1>5
  <2>2. CheckEntry(i)
    BY <1>1, <1>5, <2>1 DEF ChecksInv
  <2>3. QED
    BY <2>1, <2>2, SameGraph DEF CheckEntry
<1>6. \A c \in errnc' : \E i \in DOMAIN icode' : IsCheck(i, c)'
  BY <1>1, <1>2 DEF ChecksInv
<1>7. \A i, j \in DOMAIN icode' : \A c \in errnc' : IsCheck(i, c)' /\ IsCheck(j, c)' => i = j
  BY <1>1, <1>2, <1>3 DEF ChecksInv
<1>8. QED
  BY <1>4, <1>5, <1>6, <1>7 DEF ChecksInv

(* What has been available since the start is the input. *)
LEMMA NothingFinal ==
  ASSUME OrderInv
  PROVE  FinalBefore(1) = {Input}
<1> SUFFICES ASSUME NEW l \in Labels
             PROVE  \E i \in 1 .. Len(graph) : \E n \in graph[i] : Label(n) = l
  BY DEF FinalBefore
<1>1. PICK n \in GraphNodes : Label(n) = l
  BY DEF Labels
<1>2. PICK i \in DOMAIN graph : n \in graph[i]
  BY DEF GraphNodes
<1>3. QED
  BY <1>1, <1>2, GraphFacts

(* When a stage is over, what it was the last to hold is final too. *)
LEMMA FinalAfter ==
  ASSUME OrderInv, NEW s \in DOMAIN graph
  PROVE  FinalBefore(s + 1) = FinalBefore(s) \union FinalLabels(s)
<1> DEFINE after == s + 1 .. Len(graph)
           open  == {l \in Labels : \A i \in after : \A n \in graph[i] : Label(n) # l}
<1>1. s \in 1 .. Len(graph) /\ Len(graph) \in Nat /\ s .. Len(graph) = {s} \union after
  BY GraphFacts
<1>2. FinalBefore(s + 1) = {Input} \union open
  BY DEF FinalBefore
<1>3. FinalBefore(s) = {Input} \union {l \in open : \A n \in graph[s] : Label(n) # l}
  <2> HIDE DEF after
  <2>1. FinalBefore(s) = {Input} \union
          {l \in Labels : \A i \in {s} \union after : \A n \in graph[i] : Label(n) # l}
    BY <1>1 DEF FinalBefore
  <2>2. QED
    BY <2>1
<1>4. FinalLabels(s) = {l \in open : \E n \in graph[s] : Label(n) = l}
  <2> HIDE DEF after
  <2> DEFINE later == {Label(n) : n \in UNION {graph[i] : i \in after}}
  <2>1. FinalLabels(s) = {Label(n) : n \in graph[s]} \ later
    BY DEF FinalLabels, after
  <2>2. {Label(n) : n \in graph[s]} \subseteq Labels
    BY GraphFacts DEF Labels
  <2>3. \A l : l \in later <=> \E i \in after : \E n \in graph[i] : Label(n) = l
    OBVIOUS
  <2> HIDE DEF later
  <2>4. QED
    BY <2>1, <2>2, <2>3
<1>5. QED
  BY <1>2, <1>3, <1>4

(* The checks that are ready are those that could be placed in the stage. *)
LEMMA ReadyArePlaceable ==
  ASSUME ChecksInv
  PROVE  ReadyChecks = {c \in DOMAIN source.checks \ errnc : Placeable(c, stage + 1)}
<1>1. fava = FinalBefore(stage + 1)
  BY DEF ChecksInv
<1>2. ASSUME NEW c
      PROVE  Placeable(c, stage + 1) <=>
               \A r \in source.checks[c] : r.label \in fava /\ r.whole
  BY <1>1 DEF Placeable
<1>3. QED
  BY <1>2 DEF ReadyChecks

LEMMA StagesBegin ==
  ASSUME OrderInv, ProgramInv, UpdateDimensions
  PROVE  CodeInv'
<1>1. /\ icode = <<>> /\ errnc = {} /\ fava = {Input} /\ stage = 0
      /\ phase' \in {"rejected", "stages"}
      /\ UNCHANGED <<flow, graph, source, ids, stage, icode, errnc, fava>>
  BY DEF ProgramInv, UpdateDimensions, vars
<1>2. Len(graph') \in Nat
  BY <1>1, GraphFacts
<1>3. NodesInv'
  BY <1>1 DEF NodesInv
<1>4. ChecksInv'
  <2>1. stage + 1 = 1 /\ FinalBefore(1)' = {Input}
    BY <1>1, NothingFinal, SameGraph
  <2>2. fava' = FinalBefore(stage + 1)'
    BY <1>1, <2>1
  <2>3. QED
    BY <1>1, <2>2 DEF ChecksInv
<1>5. icode' \in Seq(Range(icode')) /\ stage' \in 0 .. Len(graph')
  BY <1>1, <1>2
<1>6. QED
  BY <1>1, <1>3, <1>4, <1>5 DEF CodeInv, Building

LEMMA CheckEmitted ==
  ASSUME OrderInv, ProgramInv, CodeInv, EmitCheck
  PROVE  CodeInv'
<1> DEFINE c0 == Min(ReadyChecks)
           e0 == CheckCode(c0)
<1>1. /\ phase = "stages" /\ phase' = "stages" /\ stage < Len(graph) /\ ReadyChecks # {}
      /\ icode' = Append(icode, e0) /\ errnc' = errnc \union {c0}
      /\ UNCHANGED <<flow, graph, source, ids, stage, fava>>
  BY DEF EmitCheck, vars
<1>2. /\ icode \in Seq(Range(icode)) /\ stage \in 0 .. Len(graph)
      /\ NodesInv /\ ChecksInv
  BY <1>1 DEF CodeInv, Building
<1>3. /\ source.checks \in Seq(SUBSET [label : Nodes \union {Input}, whole : BOOLEAN])
      /\ flow \in Flows /\ DOMAIN graph = 1 .. Len(graph) /\ Len(graph) \in Nat
  BY GraphFacts, ProgramFacts DEF ProgramInv
<1>4. ReadyChecks = {c \in DOMAIN source.checks \ errnc : Placeable(c, stage + 1)}
  BY <1>2, ReadyArePlaceable
<1>5. c0 \in ReadyChecks
  <2>1. DOMAIN source.checks \subseteq Nat
    BY <1>3
  <2>2. ReadyChecks \subseteq Nat
    BY <1>4, <2>1
  <2>3. QED
    BY <1>1, <2>2, MinIn
<1> HIDE DEF c0
<1>6. PICK c : c = c0
  OBVIOUS
<1>7. PICK e : e = e0
  OBVIOUS
<1>8. PICK L : L = Len(icode)
  OBVIOUS
<1>9. /\ c \in DOMAIN source.checks /\ c \notin errnc /\ Placeable(c, stage + 1)
      /\ errnc' = errnc \union {c} /\ icode' = Append(icode, e)
      /\ e.is = "check" /\ e.check = c /\ e.stage = stage + 1
  BY <1>1, <1>4, <1>5, <1>6, <1>7 DEF CheckCode
<1> HIDE DEF e0
<1>10. /\ L \in Nat /\ DOMAIN icode = 1 .. L /\ DOMAIN icode' = 1 .. L + 1
       /\ \A i \in 1 .. L : icode'[i] = icode[i]
       /\ icode'[L + 1] = e /\ icode' \in Seq(Range(icode'))
  <2>1. icode \in Seq(Range(icode)) /\ icode' = Append(icode, e)
    BY <1>2, <1>9
  <2>2. icode' \in Seq(Range(icode'))
    BY <2>1, AppendCode
  <2>3. QED
    BY <1>8, <2>1, <2>2, AppendCode
<1>11. NodesInv'
  BY <1>1, <1>2, <1>8, <1>9, AppendNodesInv
<1>12. \A i \in 1 .. L : \A d : IsCheck(i, d)' = IsCheck(i, d)
  BY <1>1, <1>10, SameEntries
<1>13. \A d : IsCheck(L + 1, d)' <=> d = c
  BY <1>9, <1>10 DEF IsCheck
<1>14. \A i \in 1 .. L : ~IsCheck(i, c)
  BY <1>2, <1>9, <1>10 DEF ChecksInv, IsCheck, CheckEntry
<1>15. /\ fava' = FinalBefore(stage + 1)' /\ errnc' \subseteq DOMAIN source'.checks
       /\ \A d \in DOMAIN source'.checks \ errnc' : \A s \in 1 .. stage' : ~Placeable(d, s)'
  BY <1>1, <1>2, <1>9, SameGraph DEF ChecksInv
<1>16. ASSUME NEW i \in DOMAIN icode', icode'[i].is = "check" PROVE CheckEntry(i)'
  <2>1. CASE i \in 1 .. L
    <3>1. CheckEntry(i) /\ icode'[i] = icode[i]
      BY <1>2, <1>10, <1>16, <2>1 DEF ChecksInv
    <3>2. QED
      BY <1>1, <1>9, <3>1, SameGraph DEF CheckEntry
  <2>2. CASE i = L + 1
    <3>1. icode'[i].check = c /\ icode'[i].stage = stage + 1
      BY <1>9, <1>10, <2>2
    <3>2. stage + 1 \in DOMAIN graph /\ (stage + 1) - 1 = stage
      BY <1>1, <1>2, <1>3
    <3>3. \A s \in 1 .. stage : ~Placeable(c, s)
      BY <1>2, <1>9 DEF ChecksInv
    <3>4. QED
      BY <1>1, <1>9, <3>1, <3>2, <3>3, SameGraph DEF CheckEntry
  <2>3. QED
    BY <1>10, <2>1, <2>2
<1>17. ASSUME NEW d \in errnc' PROVE \E i \in DOMAIN icode' : IsCheck(i, d)'
  <2>1. CASE d = c
    <3>1. L + 1 \in DOMAIN icode' /\ IsCheck(L + 1, d)'
      BY <1>10, <1>13, <2>1
    <3>2. QED
      BY <3>1
  <2>2. CASE d \in errnc
    BY <1>2, <1>10, <1>12, <2>2 DEF ChecksInv
  <2>3. QED
    BY <1>9, <2>1, <2>2
<1>18. ASSUME NEW i \in DOMAIN icode', NEW j \in DOMAIN icode', NEW d \in errnc',
              IsCheck(i, d)', IsCheck(j, d)'
       PROVE  i = j
  <2>1. CASE d = c
    BY <1>10, <1>12, <1>14, <1>18, <2>1
  <2>2. CASE d # c
    <3>1. d \in errnc /\ i \in 1 .. L /\ j \in 1 .. L
      BY <1>9, <1>10, <1>13, <1>18, <2>2
    <3>2. QED
      BY <1>2, <1>10, <1>12, <1>18, <3>1 DEF ChecksInv
  <2>3. QED
    BY <2>1, <2>2
<1>19. ChecksInv'
  BY <1>15, <1>16, <1>17, <1>18 DEF ChecksInv
<1>20. QED
  BY <1>1, <1>2, <1>10, <1>11, <1>19 DEF CodeInv

LEMMA NodeEmitted ==
  ASSUME OrderInv, ProgramInv, CodeInv, EmitNode
  PROVE  CodeInv'
<1> DEFINE n0 == NextNode
           e0 == NodeCode(n0, icode)
<1>1. /\ phase = "stages" /\ phase' = "stages" /\ stage < Len(graph) /\ Pending # {}
      /\ icode' = Append(icode, e0)
      /\ UNCHANGED <<flow, graph, source, ids, stage, errnc, fava>>
  BY DEF EmitNode, vars
<1>2. /\ icode \in Seq(Range(icode)) /\ stage \in 0 .. Len(graph)
      /\ NodesInv /\ ChecksInv
  BY <1>1 DEF CodeInv, Building
<1>3. Pending \subseteq GraphNodes /\ Pending \subseteq Nat
  <2>1. stage + 1 \in DOMAIN graph
    BY <1>1, <1>2, GraphFacts
  <2>2. Nodes \subseteq Nat
    BY NodesAssumption
  <2>3. QED
    BY <2>1, <2>2, GraphFacts DEF Pending
<1>4. n0 \in Pending
  <2> DEFINE building == Pending \ Calls(source.nodes)
  <2>1. CASE building # {}
    <3>1. n0 = Min(building)
      BY <2>1 DEF NextNode
    <3>2. QED
      BY <1>3, <2>1, <3>1, MinIn
  <2>2. CASE building = {}
    <3>1. n0 = Min(Pending)
      BY <2>2 DEF NextNode
    <3>2. QED
      BY <1>1, <1>3, <3>1, MinIn
  <2>3. QED
    BY <2>1, <2>2
<1> HIDE DEF n0
<1>5. PICK n : n = n0
  OBVIOUS
<1>6. PICK e : e = e0
  OBVIOUS
<1>7. PICK L : L = Len(icode)
  OBVIOUS
<1>8. icode' = Append(icode, e) /\ e = NodeCode(n, icode) /\ n \in GraphNodes
  BY <1>1, <1>3, <1>4, <1>5, <1>6
<1> HIDE DEF e0
<1>9. icode \in Seq(Range(icode))
  BY <1>2
<1>10. /\ L \in Nat /\ DOMAIN icode = 1 .. L /\ DOMAIN icode' = 1 .. L + 1
       /\ \A i \in 1 .. L : icode'[i] = icode[i]
       /\ icode'[L + 1] = e /\ icode' \in Seq(Range(icode'))
  <2>1. icode' = Append(icode, e)
    BY <1>8
  <2>2. icode' \in Seq(Range(icode'))
    BY <1>9, <2>1, AppendCode
  <2>3. QED
    BY <1>7, <1>9, <2>1, <2>2, AppendCode
<1>11. e.untested = {m \in TriedBefore(n) : flow.conditional[m] /\ \A j \in 1 .. L : ~IsNode(j, m)}
  <2>1. \A m : m \in Written(icode) <=> \E j \in 1 .. L : IsNode(j, m)
    BY <1>10 DEF Written, IsNode
  <2>2. e.untested = {m \in TriedBefore(n) \ Written(icode) : flow.conditional[m]}
    BY <1>8 DEF NodeCode, Untested
  <2>3. QED
    BY <2>1, <2>2
<1>12. NodeEntry(L + 1)'
  <2>1. icode'[L + 1] = e /\ (L + 1) - 1 = L
    BY <1>10
  <2>2. \A m : \A j \in 1 .. L : IsNode(j, m)' = IsNode(j, m)
    BY <1>1, <1>10, SameEntries
  <2>3. /\ e.node = n /\ e.name = <<Label(n), ids[n]>> /\ e.own = flow.conditional[n]
        /\ e.type = ResultType(source.nodes, n)
    BY <1>8 DEF NodeCode
  <2>4. /\ e.node \in GraphNodes' /\ e.name = <<Label(e.node)', ids'[e.node]>>
        /\ e.own = flow'.conditional[e.node] /\ e.type = ResultType(source'.nodes, e.node)
    BY <1>1, <1>8, <2>3, SameGraph
  <2>5. e.untested =
          {m \in TriedBefore(e.node)' : flow'.conditional[m] /\ \A j \in 1 .. L : ~IsNode(j, m)'}
    <3>1. TriedBefore(e.node)' = TriedBefore(n) /\ flow' = flow
      BY <1>1, <2>3, SameGraph
    <3>2. QED
      BY <1>11, <2>2, <3>1
  <2>6. QED
    BY <2>1, <2>4, <2>5 DEF NodeEntry
<1>13. NodesInv'
  BY <1>1, <1>2, <1>7, <1>8, <1>12, AppendNodesInv
<1>14. ChecksInv'
  <2>1. e.is # "check"
    BY <1>8 DEF NodeCode
  <2>2. QED
    BY <1>1, <1>2, <1>7, <1>8, <2>1, AppendChecksInv
<1>15. QED
  BY <1>1, <1>2, <1>10, <1>13, <1>14 DEF CodeInv

LEMMA StageEnded ==
  ASSUME OrderInv, ProgramInv, CodeInv, EndStage
  PROVE  CodeInv'
<1>1. /\ phase = "stages" /\ phase' = "stages" /\ stage < Len(graph)
      /\ ReadyChecks = {} /\ Pending = {}
      /\ fava' = fava \union FinalLabels(stage + 1) /\ stage' = stage + 1
      /\ UNCHANGED <<flow, graph, source, ids, icode, errnc>>
  BY DEF EndStage, vars
<1>2. /\ icode \in Seq(Range(icode)) /\ stage \in 0 .. Len(graph)
      /\ NodesInv /\ ChecksInv
  BY <1>1 DEF CodeInv, Building
<1>3. PICK s : s = stage + 1
  OBVIOUS
<1>4. s \in DOMAIN graph /\ s \in Nat /\ 1 .. s = (1 .. stage) \union {s} /\ stage' = s
  BY <1>1, <1>2, <1>3, GraphFacts
<1>5. DOMAIN icode = 1 .. Len(icode) /\ Len(icode) \in Nat
  BY <1>2
<1>6. \A i \in 1 .. Len(icode) : /\ \A n : IsNode(i, n)' = IsNode(i, n)
                                 /\ NodeEntry(i) => NodeEntry(i)'
                                 /\ \A c : IsCheck(i, c)' = IsCheck(i, c)
  BY <1>1, <1>5, SameEntries
<1>7. \A n \in graph[s] : \E i \in DOMAIN icode : IsNode(i, n)
  <2>1. graph[s] \subseteq Written(icode)
    BY <1>1, <1>3 DEF Pending
  <2>2. QED
    BY <2>1 DEF Written, IsNode
<1>8. NodesInv'
  <2>1. \A i \in DOMAIN icode' : icode'[i].is = "node" => NodeEntry(i)'
    BY <1>1, <1>2, <1>5, <1>6 DEF NodesInv
  <2>2. \A t \in 1 .. s : \A n \in graph[t] : \E i \in DOMAIN icode : IsNode(i, n)
    BY <1>2, <1>4, <1>7 DEF NodesInv
  <2>3. \A t \in 1 .. stage' : \A n \in graph'[t] : \E i \in DOMAIN icode' : IsNode(i, n)'
    BY <1>1, <1>4, <1>5, <1>6, <2>2
  <2>4. QED
    BY <2>1, <2>3 DEF NodesInv
<1>9. fava' = FinalBefore(stage + 1)'
  <2>1. fava' = FinalBefore(s) \union FinalLabels(s)
    BY <1>1, <1>2, <1>3 DEF ChecksInv
  <2>2. fava' = FinalBefore(s + 1)
    BY <1>4, <2>1, FinalAfter
  <2>3. QED
    BY <1>1, <1>4, <2>2, SameGraph
<1>10. \A c \in DOMAIN source.checks \ errnc : \A t \in 1 .. s : ~Placeable(c, t)
  <2>1. \A c \in DOMAIN source.checks \ errnc : ~Placeable(c, s)
    BY <1>1, <1>2, <1>3, ReadyArePlaceable
  <2>2. QED
    BY <1>2, <1>4, <2>1 DEF ChecksInv
<1>11. ChecksInv'
  <2>1. errnc' \subseteq DOMAIN source'.checks
    BY <1>1, <1>2 DEF ChecksInv
  <2>2. \A c \in DOMAIN source'.checks \ errnc' : \A t \in 1 .. stage' : ~Placeable(c, t)'
    BY <1>1, <1>4, <1>10, SameGraph
  <2>3. ASSUME NEW i \in DOMAIN icode', icode'[i].is = "check" PROVE CheckEntry(i)'
    <3>1. CheckEntry(i)
      BY <1>1, <1>2, <2>3 DEF ChecksInv
    <3>2. QED
      BY <1>1, <3>1, SameGraph DEF CheckEntry
  <2>4. \A c \in errnc' : \E i \in DOMAIN icode' : IsCheck(i, c)'
    BY <1>1, <1>2, <1>5, <1>6 DEF ChecksInv
  <2>5. \A i, j \in DOMAIN icode' : \A c \in errnc' : IsCheck(i, c)' /\ IsCheck(j, c)' => i = j
    BY <1>1, <1>2, <1>5, <1>6 DEF ChecksInv
  <2>6. QED
    BY <1>9, <2>1, <2>2, <2>3, <2>4, <2>5 DEF ChecksInv
<1>12. stage' \in 0 .. Len(graph')
  BY <1>1, <1>4, GraphFacts
<1>13. QED
  BY <1>1, <1>2, <1>8, <1>11, <1>12 DEF CodeInv

LEMMA ReplyEmitted ==
  ASSUME OrderInv, ProgramInv, CodeInv, EmitReply
  PROVE  CodeInv'
<1> DEFINE e0 == [is |-> "reply", reply |-> source.reply]
<1>1. /\ phase = "stages" /\ stage = Len(graph)
      /\ phase' = "rejected" \/ (phase' = "compiled" /\ icode' = Append(icode, e0))
      /\ UNCHANGED <<flow, graph, source, ids, stage, errnc, fava>>
  BY DEF EmitReply, vars
<1>2. SUFFICES ASSUME phase' = "compiled", icode' = Append(icode, e0) PROVE CodeInv'
  BY <1>1 DEF CodeInv, Building
<1>3. /\ icode \in Seq(Range(icode)) /\ stage \in 0 .. Len(graph)
      /\ NodesInv /\ ChecksInv
  BY <1>1 DEF CodeInv, Building
<1>4. PICK e : e = e0
  OBVIOUS
<1>5. icode' = Append(icode, e) /\ e.is = "reply"
  BY <1>2, <1>4
<1> HIDE DEF e0
<1>6. PICK L : L = Len(icode)
  OBVIOUS
<1>7. NodesInv' /\ ChecksInv'
  <2>1. e.is # "node" /\ e.is # "check"
    BY <1>5
  <2>2. NodesInv'
    BY <1>1, <1>3, <1>5, <1>6, <2>1, AppendNodesInv
  <2>3. ChecksInv'
    BY <1>1, <1>3, <1>5, <1>6, <2>1, AppendChecksInv
  <2>4. QED
    BY <2>2, <2>3
<1>8. icode' \in Seq(Range(icode'))
  <2>1. icode \in Seq(Range(icode))
    BY <1>3
  <2>2. QED
    BY <1>5, <2>1, AppendCode
<1>9. QED
  BY <1>1, <1>3, <1>7, <1>8 DEF CodeInv

(* Ids change before there is code. *)
LEMMA SameCode ==
  ASSUME CodeInv, UNCHANGED <<flow, graph, source, ids, stage, icode, errnc, fava>>,
         phase' \in Building => phase \in Building,
         phase' = "compiled" => phase = "compiled"
  PROVE  CodeInv'
<1> SUFFICES ASSUME phase' \in Building PROVE CodeInv'
  BY DEF CodeInv, Building
<1>1. /\ icode \in Seq(Range(icode)) /\ stage \in 0 .. Len(graph)
      /\ phase = "compiled" => stage = Len(graph)
      /\ NodesInv /\ ChecksInv
  BY DEF CodeInv
<1>2. DOMAIN icode = 1 .. Len(icode) /\ Len(icode) \in Nat
  BY <1>1
<1>3. \A i \in DOMAIN icode : /\ \A n : IsNode(i, n)' = IsNode(i, n)
                              /\ NodeEntry(i) => NodeEntry(i)'
                              /\ \A c : IsCheck(i, c)' = IsCheck(i, c)
                              /\ CheckEntry(i) => CheckEntry(i)'
  <2>1. \A i \in DOMAIN icode : CheckEntry(i) => CheckEntry(i)'
    BY SameGraph DEF CheckEntry
  <2>2. QED
    BY <1>2, <2>1, SameEntries
<1>4. NodesInv'
  BY <1>1, <1>3 DEF NodesInv
<1>5. ChecksInv'
  <2>1. /\ fava' = FinalBefore(stage + 1)' /\ errnc' \subseteq DOMAIN source'.checks
        /\ \A c \in DOMAIN source'.checks \ errnc' : \A s \in 1 .. stage' : ~Placeable(c, s)'
    BY <1>1, SameGraph DEF ChecksInv
  <2>2. QED
    BY <1>1, <1>3, <2>1 DEF ChecksInv
<1>6. QED
  BY <1>1, <1>4, <1>5 DEF CodeInv

LEMMA NextCodeInv ==
  ASSUME OrderInv, ProgramInv, CodeInv, [CompileNext]_all_vars
  PROVE  CodeInv'
<1>1. CASE CheckNodeIds \/ AssignNodeId \/ FixupProtoRefs \/ BuildFlowGraph
  <2>1. phase' \notin Building
    BY <1>1 DEF CheckNodeIds, AssignNodeId, FixupProtoRefs, BuildFlowGraph, Building
  <2>2. QED
    BY <2>1 DEF CodeInv
<1>2. CASE UNCHANGED all_vars
  BY <1>2, SameCode DEF all_vars, compile_vars, vars
<1>3. QED
  BY <1>1, <1>2, StagesBegin, CheckEmitted, NodeEmitted, StageEnded, ReplyEmitted DEF CompileNext

(* Compiling a program builds the graph of its flow. *)
LEMMA CompileImpliesSpec == CompileSpec => Spec
  BY InitImpliesInit, GraphStep, PTL DEF CompileSpec, Spec

LEMMA CompileInvHolds == CompileSpec => [](CompileInv /\ OrderInv)
<1>1. CompileInv /\ OrderInv /\ [CompileNext]_all_vars => CompileInv'
  BY NextProgramInv, NextNamesInv, NextCodeInv DEF CompileInv, OrderInv, TypeInv, Looked
<1>2. QED
  BY <1>1, InitCompileInv, CompileImpliesSpec, OrderInvHolds, PTL DEF CompileSpec

-----------------------------------------------------------------------------
(* The properties. *)

(* Whatever is accepted for a field of the reply is converted to its type. *)
THEOREM AssignmentsConvertHolds == CompileSpec => []AssignmentsConvert
<1>1. ASSUME CompileInv, OrderInv PROVE AssignmentsConvert
  <2>1. flow \in Flows /\ source \in Programs(flow)
    BY <1>1 DEF CompileInv, ProgramInv, OrderInv, TypeInv, Looked
  <2>2. /\ \A a \in source.reply.fields : a.left \in FieldTypes /\ a.right \in FieldTypes
        /\ \A a \in source.reply.literals :
             /\ a.left \in FieldTypes
             /\ a.literal.type \in {"int32", "float", "string"} \union Enumeration
    BY <2>1, ProgramsAssumption
  <2>3. \A a \in source.reply.fields : FieldConverts(a.left, a.right)
    BY <2>2, FieldAlwaysConverts
  <2>4. \A a \in source.reply.literals : LiteralConverts(a.left, a.literal)
    BY <2>2, LiteralAlwaysConverts
  <2>5. QED
    BY <2>3, <2>4 DEF AssignmentsConvert
<1>2. QED
  BY <1>1, CompileInvHolds, PTL

(* In every program that compiles, an error check is written at most once, in
   the first stage it can be in, and it is written if it can be in one. *)
THEOREM ErrorChecksPlacedHolds == CompileSpec => []ErrorChecksPlaced
<1>1. ASSUME CompileInv, OrderInv, phase = "compiled", NEW c \in DOMAIN source.checks
      PROVE  LET possible == {s \in DOMAIN graph : CheckedLabels(c) \subseteq FinalBefore(s)}
             IN  /\ \A i \in WrittenFor(c) : possible # {} /\ icode[i].stage = Min(possible)
                 /\ \A i, j \in WrittenFor(c) : i = j
                 /\ possible # {} /\ (\A r \in source.checks[c] : r.whole) => WrittenFor(c) # {}
  <2> DEFINE written  == WrittenFor(c)
             possible == {s \in DOMAIN graph : CheckedLabels(c) \subseteq FinalBefore(s)}
             whole    == \A r \in source.checks[c] : r.whole
  <2>1. ChecksInv /\ stage = Len(graph)
    BY <1>1 DEF CompileInv, CodeInv, Building
  <2>2. DOMAIN graph = 1 .. Len(graph) /\ Len(graph) \in Nat
    BY <1>1, GraphFacts
  <2>3. \A s \in DOMAIN graph : Placeable(c, s) <=> s \in possible /\ whole
    BY DEF Placeable, CheckedLabels
  <2>4. \A i : i \in written <=> i \in DOMAIN icode /\ IsCheck(i, c)
    BY DEF IsCheck, WrittenFor
  <2>5. \A i \in written : c \in errnc /\ CheckEntry(i) /\ icode[i].check = c
    BY <2>1 DEF ChecksInv, CheckEntry, WrittenFor
  <2> HIDE DEF written, possible, whole
  <2>6. CASE c \in errnc
    <3>1. written # {}
      BY <2>1, <2>4, <2>6 DEF ChecksInv
    <3>2. ASSUME NEW i \in written
          PROVE  whole /\ possible # {} /\ icode[i].stage = Min(possible)
      <4> DEFINE s == icode[i].stage
      <4>1. /\ s \in DOMAIN graph /\ Placeable(c, s)
            /\ \A t \in 1 .. s - 1 : ~Placeable(c, t)
        BY <2>5, <3>2 DEF CheckEntry
      <4> HIDE DEF s
      <4>2. s \in possible /\ whole
        BY <2>3, <4>1
      <4>3. possible \subseteq DOMAIN graph /\ possible \subseteq Nat
        BY <2>2 DEF possible
      <4>4. Min(possible) \in possible /\ Min(possible) <= s
        BY <4>2, <4>3, MinIn
      <4>5. ~(Min(possible) < s)
        <5> SUFFICES ASSUME Min(possible) \in 1 .. s - 1 PROVE FALSE
          BY <2>2, <4>1, <4>3, <4>4
        <5>1. Placeable(c, Min(possible))
          BY <2>3, <4>2, <4>3, <4>4
        <5>2. QED
          BY <4>1, <5>1
      <4>6. s = Min(possible)
        BY <4>2, <4>3, <4>4, <4>5
      <4>7. QED
        BY <4>2, <4>6 DEF s
    <3>3. \A i, j \in written : i = j
      BY <2>1, <2>4, <2>6 DEF ChecksInv
    <3>4. QED
      BY <3>1, <3>2, <3>3 DEF written, possible, whole
  <2>7. CASE c \notin errnc
    <3>1. written = {}
      BY <2>5, <2>7
    <3>2. possible = {} \/ ~whole
      <4>1. \A s \in DOMAIN graph : ~Placeable(c, s)
        BY <1>1, <2>1, <2>2, <2>7 DEF ChecksInv
      <4>2. possible \subseteq DOMAIN graph
        BY DEF possible
      <4>3. QED
        BY <2>3, <4>1, <4>2
    <3>3. QED
      BY <3>1, <3>2 DEF written, possible, whole
  <2>8. QED
    BY <2>6, <2>7
<1>2. CompileInv /\ OrderInv => ErrorChecksPlaced
  BY <1>1 DEF ErrorChecksPlaced
<1>3. QED
  BY <1>2, CompileInvHolds, PTL

-----------------------------------------------------------------------------
(* The first alternate whose condition holds runs. *)

(* All nodes of a label that say a type say the same, and there is one. *)
LEMMA SameType ==
  ASSUME flow \in Flows, source \in Programs(flow), ~TypesRejected(source.nodes),
         NEW n \in Nodes, NEW m \in Nodes, Label(n) = Label(m)
  PROVE  ResultType(source.nodes, n) = ResultType(source.nodes, m)
<1> DEFINE T == Typed(source.nodes, n)
           S == {source.nodes[k].type : k \in T}
           f == [k \in T |-> source.nodes[k].type]
<1>1. DOMAIN source.nodes = Nodes /\ Group(source.nodes, n) = Group(source.nodes, m)
  BY ProgramFacts
<1>2. Typed(source.nodes, m) = T /\ T \subseteq Nodes
  BY <1>1 DEF Typed, Group
<1>3. Cardinality(S) = 1
  BY <1>1 DEF TypesRejected
<1>4. IsFiniteSet(T)
  BY <1>2, NodesAssumption, FS_Subset
<1> HIDE DEF T
<1>5. f \in Surjection(T, S)
  BY DEF Surjection
<1> HIDE DEF f
<1>6. PICK type : S = {type}
  <2> HIDE DEF S
  <2>1. IsFiniteSet(S)
    BY <1>4, <1>5, FS_Surjection
  <2>2. QED
    BY <1>3, <2>1, FS_Singleton
<1>7. T # {} /\ \A k \in T : source.nodes[k].type = type
  BY <1>6
<1>8. Min(T) \in T
  <2>1. T \subseteq Nat
    BY <1>2, NodesAssumption
  <2>2. QED
    BY <1>7, <2>1, MinIn
<1>9. ResultType(source.nodes, n) = type
  BY <1>7, <1>8 DEF ResultType, T
<1>10. ResultType(source.nodes, m) = type
  BY <1>2, <1>7, <1>8 DEF ResultType
<1>11. QED
  BY <1>9, <1>10

(* A set of nodes that is not empty has a last one. *)
LEMMA LastIn ==
  ASSUME flow \in Flows, source \in Programs(flow), NEW S \in SUBSET Nodes, S # {}
  PROVE  \E u \in S : \A k \in S : k <= u
<1> DEFINE L == Len(source.nodes)
           D == {L - k : k \in S}
<1>1. Nodes = 1 .. L /\ L \in Nat
  BY ProgramFacts
<1> HIDE DEF L
<1>2. D \in SUBSET Nat /\ D # {}
  <2>1. \A k \in S : L - k \in Nat
    BY <1>1
  <2>2. QED
    BY <2>1
<1>3. Min(D) \in D /\ \A x \in D : Min(D) <= x
  <2> HIDE DEF D
  <2>1. QED
    BY <1>2, MinIn
<1>4. PICK u \in S : Min(D) = L - u
  BY <1>3
<1>5. \A k \in S : L - u <= L - k
  BY <1>3, <1>4
<1>6. QED
  BY <1>1, <1>5

(* What the proof needs of the code of a program that is compiled. *)
Compiled ==
  /\ flow \in Flows /\ source \in Programs(flow)
  /\ DOMAIN icode = 1 .. Len(icode) /\ Len(icode) \in Nat
  /\ \A i \in DOMAIN icode : icode[i].is = "node" => NodeEntry(i)
  /\ \A n \in GraphNodes : \E i \in DOMAIN icode : IsNode(i, n)
  /\ GraphNodes \subseteq Nodes /\ \A n \in GraphNodes : Alternates(n) \subseteq GraphNodes
  /\ \A n, m \in Nodes : n # m /\ Label(n) = Label(m) => ids[n] # ids[m]
  /\ ~TypesRejected(source.nodes)

LEMMA CompiledFacts ==
  ASSUME CompileInv, OrderInv, NeededInv, phase = "compiled"
  PROVE  Compiled
<1>1. /\ flow \in Flows /\ source \in Programs(flow) /\ pc = "done"
      /\ stage = Len(graph) /\ NodesInv /\ icode \in Seq(Range(icode))
  BY DEF CompileInv, ProgramInv, CodeInv, Building, OrderInv, TypeInv, Looked
<1>2. DOMAIN icode = 1 .. Len(icode) /\ Len(icode) \in Nat
  BY <1>1
<1>3. GraphNodes \subseteq Nodes /\ DOMAIN graph = 1 .. stage
  BY <1>1, GraphFacts
<1>4. \A n \in GraphNodes : \E i \in DOMAIN icode : IsNode(i, n)
  BY <1>1, <1>3 DEF NodesInv, GraphNodes
<1>5. ASSUME NEW n \in GraphNodes, NEW m \in Alternates(n)
      PROVE  m \in GraphNodes
  <2>1. PICK i \in DOMAIN graph : n \in graph[i]
    BY DEF GraphNodes
  <2>2. n \in used_nodes
    BY <2>1, StagesType DEF OrderInv
  <2>3. \A S \in ClosedSets : Entry \in S => m \in S
    BY <2>2 DEF NeededInv
  <2>4. m \in Nodes /\ m \in All \ {Entry, Input}
    BY NodesAssumption DEF Alternates, All, Input
  <2>5. StagesComplete
    BY CompleteFromInvariants
  <2>6. QED
    BY <1>1, <2>3, <2>4, <2>5 DEF StagesComplete, GraphNodes
<1>6. /\ \A n, m \in Nodes : n # m /\ Label(n) = Label(m) => ids[n] # ids[m]
      /\ ~TypesRejected(source.nodes)
  BY DEF CompileInv, NamesInv, Identified, Checked
<1>7. QED
  BY <1>1, <1>2, <1>3, <1>4, <1>5, <1>6 DEF Compiled, NodesInv

(* An alternate whose condition holds runs, unless one before it does. *)
LEMMA FirstCodeRuns ==
  ASSUME Compiled, NEW l, NEW holding, NEW m \in holding, Label(m) = l, m \in Nodes,
         flow.conditional[m], NEW i \in DOMAIN icode, IsNode(i, m),
         \A k \in holding : m <= k /\ k \in Nat
  PROVE  Runs(icode[i], l, holding)
<1>1. /\ icode[i].is = "node" /\ icode[i].node = m
      /\ icode[i].untested =
           {k \in TriedBefore(m) : flow.conditional[k] /\ \A j \in 1 .. i - 1 : ~IsNode(j, k)}
  BY DEF Compiled, IsNode, NodeEntry
<1>2. m \in Alternates(m)
  BY DEF Alternates
<1>3. \A k \in icode[i].untested : k < m
  BY <1>1, <1>2 DEF TriedBefore
<1>4. icode[i].untested \cap holding = {}
  <2> SUFFICES ASSUME NEW k \in holding, k \in icode[i].untested PROVE FALSE
    OBVIOUS
  <2>1. k < m /\ m <= k /\ k \in Nat /\ m \in Nat
    BY <1>3
  <2>2. QED
    BY <2>1
<1>5. QED
  BY <1>1, <1>4 DEF Runs

(* The first code to run for a label is that of the first alternate whose
   condition holds. *)
LEMMA FirstRuns ==
  ASSUME Compiled, NEW l \in Labels, NEW holding \in SUBSET {n \in Alternates(l) : flow.conditional[n]},
         holding # {}
  PROVE  /\ Min(holding) \in GraphNodes /\ Label(Min(holding)) = l
         /\ Noted(l, holding) = <<l, ids[Min(holding)]>>
<1> DEFINE m == Min(holding)
           running == {i \in DOMAIN icode : Runs(icode[i], l, holding)}
<1>1. /\ flow \in Flows /\ source \in Programs(flow) /\ Nodes \subseteq Nat
      /\ flow.conditional \in [Nodes -> BOOLEAN]
  BY NodesAssumption, FlowFields DEF Compiled
<1>2. PICK n0 \in GraphNodes : Label(n0) = l
  BY DEF Labels
<1>3. n0 \in Nodes /\ l \in Nodes /\ Label(l) = l
  BY <1>1, <1>2, ProgramFacts DEF Compiled
<1>4. \A k \in Alternates(l) : k \in Nodes /\ Label(k) = l
  BY <1>3 DEF Alternates, Label
<1>5. Alternates(l) \subseteq GraphNodes
  <2>1. Alternates(n0) = Alternates(l)
    BY <1>2, <1>3 DEF Alternates, Label
  <2>2. QED
    BY <2>1 DEF Compiled
<1>6. holding \subseteq Nodes /\ m \in holding /\ \A k \in holding : m <= k /\ k \in Nat
  <2>1. holding \subseteq Nodes /\ holding \subseteq Nat
    BY <1>1, <1>4
  <2>2. QED
    BY <2>1, MinIn
<1> HIDE DEF m
<1>7. m \in GraphNodes /\ m \in Nodes /\ Label(m) = l /\ flow.conditional[m]
  BY <1>4, <1>5, <1>6
<1>8. \A i \in DOMAIN icode : IsNode(i, m) => i \in running
  BY <1>6, <1>7, FirstCodeRuns
<1>9. running # {} /\ running \subseteq Nat
  BY <1>7, <1>8 DEF Compiled
<1>10. Min(running) \in running /\ \A i \in running : Min(running) <= i
  <2> HIDE DEF running
  <2>1. QED
    BY <1>9, MinIn
<1>11. PICK j : j = Min(running)
  OBVIOUS
<1>12. /\ j \in DOMAIN icode /\ Runs(icode[j], l, holding) /\ j \in Nat
       /\ \A i \in running : j <= i
  BY <1>9, <1>10, <1>11
<1>13. PICK n : n = icode[j].node
  OBVIOUS
<1>14. /\ NodeEntry(j) /\ n \in Nodes /\ Label(n) = l
       /\ flow.conditional[n] => n \in holding
       /\ icode[j].untested \cap holding = {}
  BY <1>12, <1>13 DEF Runs, Compiled, NodeEntry
<1>15. n = m
  <2> SUFFICES ASSUME n # m PROVE FALSE
    OBVIOUS
  <2>1. flow.conditional[n] => m < n
    BY <1>6, <1>14
  <2>2. m \in Alternates(n) \ {n}
    BY <1>7, <1>14 DEF Alternates, Label
  <2>3. m \in TriedBefore(n)
    BY <1>7, <2>1, <2>2 DEF TriedBefore
  <2>4. m \notin icode[j].untested
    BY <1>6, <1>14
  <2>5. PICK i \in 1 .. j - 1 : IsNode(i, m)
    BY <1>7, <1>13, <1>14, <2>3, <2>4 DEF NodeEntry
  <2>6. i \in DOMAIN icode /\ i < j
    BY <1>12 DEF Compiled
  <2>7. QED
    BY <1>8, <1>12, <2>5, <2>6
<1>16. icode[j].name = <<l, ids[m]>>
  BY <1>13, <1>14, <1>15 DEF NodeEntry
<1>17. Noted(l, holding) = icode[j].name
  BY <1>9, <1>11 DEF Noted
<1>18. QED
  BY <1>7, <1>16, <1>17 DEF m

(* If no condition holds it is the code of the alternate without one, and if
   there is none nothing runs. *)
LEMMA LastRuns ==
  ASSUME Compiled, NEW l \in Labels,
         Cardinality({n \in GraphNodes : Label(n) = l /\ ~flow.conditional[n]}) <= 1
  PROVE  LET free == {n \in Alternates(l) : ~flow.conditional[n]}
         IN  \/ free = {} /\ Noted(l, {}) = Nobody
             \/ \E u \in GraphNodes : /\ free = {u} /\ Label(u) = l
                                      /\ Noted(l, {}) = <<l, ids[u]>>
<1> DEFINE free    == {n \in Alternates(l) : ~flow.conditional[n]}
           open    == {n \in GraphNodes : Label(n) = l /\ ~flow.conditional[n]}
           running == {i \in DOMAIN icode : Runs(icode[i], l, {})}
<1>1. /\ flow \in Flows /\ source \in Programs(flow) /\ Nodes \subseteq Nat
      /\ flow.conditional \in [Nodes -> BOOLEAN] /\ IsFiniteSet(Nodes)
      /\ GraphNodes \subseteq Nodes
  BY NodesAssumption, FlowFields DEF Compiled
<1>2. PICK n0 \in GraphNodes : Label(n0) = l
  BY DEF Labels
<1>3. n0 \in Nodes /\ l \in Nodes /\ Label(l) = l
  BY <1>1, <1>2, ProgramFacts
<1>4. \A k \in Alternates(l) : k \in Nodes /\ Label(k) = l
  BY <1>3 DEF Alternates, Label
<1>5. Alternates(l) \subseteq GraphNodes
  <2>1. Alternates(n0) = Alternates(l)
    BY <1>2, <1>3 DEF Alternates, Label
  <2>2. QED
    BY <2>1 DEF Compiled
<1>6. free \subseteq open
  BY <1>4, <1>5
<1>7. \A i \in DOMAIN icode : i \in running => icode[i].node \in open /\ NodeEntry(i)
  BY DEF Compiled, NodeEntry, Runs
<1>8. \A n \in open : \E i \in running : icode[i].node = n
  <2> SUFFICES ASSUME NEW n \in open PROVE \E i \in running : icode[i].node = n
    OBVIOUS
  <2>1. PICK i \in DOMAIN icode : IsNode(i, n)
    BY DEF Compiled
  <2>2. icode[i].is = "node" /\ icode[i].node = n /\ icode[i].own = flow.conditional[n]
    BY <2>1 DEF Compiled, IsNode, NodeEntry
  <2>3. Runs(icode[i], l, {})
    BY <2>2 DEF Runs
  <2>4. QED
    BY <2>2, <2>3
<1>9. \A n, m \in open : n = m
  <2>1. IsFiniteSet(open)
    BY <1>1, FS_Subset
  <2> HIDE DEF open
  <2> SUFFICES ASSUME NEW n \in open, NEW m \in open, n # m PROVE FALSE
    OBVIOUS
  <2>2. Cardinality(open) <= 1
    BY DEF open
  <2> DEFINE rest == open \ {n}
             none == rest \ {m}
  <2>3. Cardinality(rest) = Cardinality(open) - 1 /\ IsFiniteSet(rest) /\ m \in rest
    BY <2>1, FS_RemoveElement
  <2> HIDE DEF rest
  <2>4. Cardinality(none) = Cardinality(rest) - 1 /\ IsFiniteSet(none)
    BY <2>3, FS_RemoveElement
  <2> HIDE DEF none
  <2>5. Cardinality(none) \in Nat /\ Cardinality(open) \in Nat
    BY <2>1, <2>4, FS_CardinalityType
  <2>6. QED
    BY <2>2, <2>3, <2>4, <2>5
<1>10. open # {} => free # {}
  <2> SUFFICES ASSUME open # {} PROVE free # {}
    OBVIOUS
  <2> DEFINE last == {n \in Nodes : Label(n) = l /\ ~flow.conditional[n]}
  <2>1. last \subseteq Nodes /\ last # {}
    BY <1>1
  <2> HIDE DEF last
  <2>2. PICK u \in last : \A k \in last : k <= u
    BY <1>1, <2>1, LastIn
  <2>3. \A k \in Nodes : k > u /\ Label(k) = l => flow.conditional[k]
    BY <1>1, <2>1, <2>2 DEF last
  <2>4. u \in Alternates(l)
    BY <1>3, <2>2, <2>3 DEF last, Alternates, Label
  <2>5. u \in free
    BY <2>2, <2>4 DEF last
  <2>6. QED
    BY <2>5
<1>11. running \subseteq Nat
  BY DEF Compiled
<1> HIDE DEF open, free, running
<1>12. CASE open = {}
  <2>1. free = {}
    BY <1>6, <1>12
  <2>2. running = {}
    BY <1>7, <1>12 DEF running
  <2>3. Noted(l, {}) = Nobody
    BY <2>2 DEF Noted, running
  <2>4. QED
    BY <2>1, <2>3 DEF free
<1>13. CASE open # {}
  <2>1. PICK u \in free : TRUE
    BY <1>10, <1>13
  <2>2. u \in open /\ free = {u} /\ u \in GraphNodes /\ Label(u) = l
    BY <1>6, <1>9, <2>1 DEF open
  <2>3. running # {}
    BY <1>8, <2>2
  <2>4. Min(running) \in running
    BY <1>11, <2>3, MinIn
  <2>5. PICK j : j = Min(running)
    OBVIOUS
  <2>6. j \in DOMAIN icode /\ j \in running
    BY <2>4, <2>5 DEF running
  <2>7. icode[j].node = u /\ NodeEntry(j)
    BY <1>7, <1>9, <2>2, <2>6
  <2>8. icode[j].name = <<l, ids[u]>>
    BY <2>2, <2>7 DEF NodeEntry
  <2>9. Noted(l, {}) = icode[j].name
    BY <2>3, <2>5 DEF Noted, running
  <2>10. QED
    BY <2>2, <2>8, <2>9 DEF free
<1>14. QED
  BY <1>12, <1>13

(* No two nodes have the same name. *)
LEMMA NamesApart ==
  ASSUME Compiled, NEW u \in Nodes
  PROVE  /\ {n \in Nodes : <<Label(n), ids[n]>> = <<Label(u), ids[u]>>} = {u}
         /\ {n \in Nodes : <<Label(n), ids[n]>> = Nobody} = {}
<1>1. ASSUME NEW n \in Nodes, <<Label(n), ids[n]>> = <<Label(u), ids[u]>> PROVE n = u
  <2>1. Label(n) = Label(u) /\ ids[n] = ids[u]
    BY <1>1
  <2>2. QED
    BY <2>1 DEF Compiled
<1>2. \A n \in Nodes : <<Label(n), ids[n]>> # <<>>
  OBVIOUS
<1>3. QED
  BY <1>1, <1>2 DEF Nobody

(* In every program that compiles, for whichever conditions hold, the code of
   a label runs its first alternate whose condition does, wherever it is
   written, and notes a name that only this node has; and all nodes of a label
   give a result of the same type. *)
THEOREM FirstAlternateRunsHolds == CompileSpec => []FirstAlternateRuns
<1>1. ASSUME Compiled, NEW l \in Labels
      PROVE  LET group == {n \in GraphNodes : Label(n) = l}
             IN  \A c, d \in Code("node") : c.node \in group /\ d.node \in group => c.type = d.type
  <2> SUFFICES ASSUME NEW c \in Code("node"), NEW d \in Code("node"),
                      c.node \in GraphNodes, Label(c.node) = l,
                      d.node \in GraphNodes, Label(d.node) = l
               PROVE  c.type = d.type
    OBVIOUS
  <2>1. PICK i \in DOMAIN icode : icode[i].is = "node" /\ icode[i] = c
    BY DEF Code
  <2>2. PICK j \in DOMAIN icode : icode[j].is = "node" /\ icode[j] = d
    BY DEF Code
  <2>3. /\ c.type = ResultType(source.nodes, c.node)
        /\ d.type = ResultType(source.nodes, d.node)
    BY <1>1, <2>1, <2>2 DEF Compiled, NodeEntry
  <2>4. /\ c.node \in Nodes /\ d.node \in Nodes /\ ~TypesRejected(source.nodes)
        /\ flow \in Flows /\ source \in Programs(flow)
    BY <1>1 DEF Compiled
  <2>5. QED
    BY <2>3, <2>4, SameType
<1>2. ASSUME Compiled, NEW l \in Labels,
             Cardinality({n \in {k \in GraphNodes : Label(k) = l} : ~flow.conditional[n]}) <= 1,
             NEW holding \in SUBSET {n \in {k \in GraphNodes : Label(k) = l} : flow.conditional[n]}
      PROVE  {n \in Nodes : <<Label(n), ids[n]>> = Noted(l, holding)} = FirstToHold(l, holding)
  <2> DEFINE conditional == {n \in Alternates(l) : flow.conditional[n]}
             first       == {n \in Nodes : <<Label(n), ids[n]>> = Noted(l, holding)}
  <2>1. l \in Nodes /\ Label(l) = l /\ GraphNodes \subseteq Nodes
    BY <1>2, ProgramFacts DEF Compiled, Labels
  <2>2. holding \subseteq conditional
    BY <2>1 DEF Alternates, Label
  <2>3. CASE holding # {}
    <3>1. PICK m : m = Min(holding)
      OBVIOUS
    <3>2. m \in Nodes /\ Label(m) = l /\ Noted(l, holding) = <<Label(m), ids[m]>>
      BY <1>2, <2>1, <2>2, <2>3, <3>1, FirstRuns
    <3>3. first = {m}
      BY <1>2, <3>2, NamesApart
    <3>4. conditional \cap holding = holding
      BY <2>2
    <3>5. FirstToHold(l, holding) = {Min(holding)}
      BY <2>3, <3>4 DEF FirstToHold
    <3>6. QED
      BY <3>1, <3>3, <3>5
  <2>4. CASE holding = {}
    <3> DEFINE free == {n \in Alternates(l) : ~flow.conditional[n]}
    <3>1. Cardinality({n \in GraphNodes : Label(n) = l /\ ~flow.conditional[n]}) <= 1
      <4>1. {n \in {k \in GraphNodes : Label(k) = l} : ~flow.conditional[n]}
              = {n \in GraphNodes : Label(n) = l /\ ~flow.conditional[n]}
        OBVIOUS
      <4>2. QED
        BY <1>2, <4>1
    <3>2. \/ free = {} /\ Noted(l, {}) = Nobody
          \/ \E u \in GraphNodes : /\ free = {u} /\ Label(u) = l
                                   /\ Noted(l, {}) = <<l, ids[u]>>
      BY <1>2, <3>1, LastRuns
    <3>3. FirstToHold(l, holding) = free
      BY <2>4 DEF FirstToHold
    <3> HIDE DEF free
    <3>4. first = free
      <4>1. CASE free = {} /\ Noted(l, {}) = Nobody
        <5>1. {n \in Nodes : <<Label(n), ids[n]>> = Nobody} = {}
          BY <1>2, <2>1, NamesApart
        <5>2. QED
          BY <2>4, <4>1, <5>1
      <4>2. ASSUME NEW u \in GraphNodes, free = {u}, Label(u) = l, Noted(l, {}) = <<l, ids[u]>>
            PROVE  first = free
        <5>1. {n \in Nodes : <<Label(n), ids[n]>> = <<Label(u), ids[u]>>} = {u}
          BY <1>2, <2>1, NamesApart
        <5>2. QED
          BY <2>4, <4>2, <5>1
      <4>3. QED
        BY <3>2, <4>1, <4>2
    <3>5. QED
      BY <3>3, <3>4
  <2>5. QED
    BY <2>3, <2>4
<1>3. ASSUME CompileInv, OrderInv, NeededInv PROVE FirstAlternateRuns
  <2> SUFFICES ASSUME phase = "compiled", NEW l \in Labels
               PROVE LET group == {n \in GraphNodes : Label(n) = l}
                     IN  /\ \A c, d \in Code("node") : c.node \in group /\ d.node \in group => c.type = d.type
                         /\ Cardinality({n \in group : ~flow.conditional[n]}) <= 1 =>
                              \A holding \in SUBSET {n \in group : flow.conditional[n]} :
                                {n \in Nodes : <<Label(n), ids[n]>> = Noted(l, holding)} = FirstToHold(l, holding)
    BY DEF FirstAlternateRuns
  <2>1. Compiled
    BY <1>3, CompiledFacts
  <2>2. QED
    BY <1>1, <1>2, <2>1
<1>4. QED
  BY <1>3, CompileInvHolds, CompileImpliesSpec, NeededInvHolds, PTL


-----------------------------------------------------------------------------
(* flowc as a whole. *)

LEMMA DriverStep == [DriverNext]_whole_vars => [CompileNext]_all_vars
  BY DEF DriverNext, whole_vars, AddDependents, Start, Parse, Compile, NameAndSet, GenProtobuf,
     GenGrpc, SetVariables, PrintProto, GenServer, GenClient, WriteCertificates, GenMakefile,
     GenDockerfile, BuildImage, Build, GenPython, GenDriver, GenWww, Return, Unchanged

(* Of flowc the compiler sees no more than compile() being called: what holds of
   every compilation holds in flowc. *)
THEOREM DriverCompiles == DriverSpec => CompileSpec
<1>1. DriverInit => CompileInit
  BY DEF DriverInit
<1>2. QED
  BY <1>1, DriverStep, PTL DEF DriverSpec, CompileSpec

-----------------------------------------------------------------------------
(* What each step of process() leaves behind when it succeeds. *)
Outputs(s) ==
  CASE s = "protobuf-files"   -> PbFiles
    [] s = "grpc-files"       -> GrpcFiles
    [] s = "variables"        -> IF "docs" \in targets THEN ProtoDocs ELSE {}
    [] s = "server"           -> {<<"source", "server">>}
    [] s = "client"           -> {<<"source", "client">>}
    [] s = "ssl-certificates" -> Certificates
    [] s = "makefile"         -> {<<"makefile", "">>}
    [] s = "dockerfile"       -> Dockerfiles
    [] s = "build-image"      -> {<<"image", "">>}
    [] s = "build"            -> Built
    [] s = "python-client"    -> {<<"source", "python">>}
    [] s = "driver"           -> {<<"driver", "">>}
    [] s = "www-files"        -> {<<"www", "index">>}
    [] OTHER                  -> {}

Places == 1 .. 14

(* The files that are there, but for copies that were lost. *)
There == files \union lost

(* All that was to be done before a place in the order of the steps is done. *)
Left(k) == Wanted(Steps[k]) => Outputs(Steps[k]) \subseteq There
LeftBefore(p) == Copies \subseteq files \union lost /\ \A k \in Places : k < p => Left(k)

Early == {"targets", "parse", "compile", "names"}
DriverInv ==
  /\ flow \in Flows /\ request \in Requests(flow) /\ failed \in BOOLEAN
  /\ request.options \subseteq targets
  /\ step \in Early \/ step = "return" \/ step = "end" \/ \E p \in Places : step = Steps[p]
  /\ step # "targets" => NothingMissing(targets)
  /\ step \in Early \ {"names"} => ~failed
  /\ step \in Early \ {"targets"} /\ ~failed => Copies \subseteq files \union lost
  /\ \A p \in Places : step = Steps[p] =>
       ~failed /\ phase = "compiled" /\ Wanted(step) /\ LeftBefore(p)
  /\ step = "return" /\ ~failed => LeftBefore(15)
  /\ step = "end" /\ ~failed =>
       IF UseTempdir THEN <<"image", "">> \in files \union lost ELSE LeftBefore(15)

LEMMA StepsApart ==
  /\ DOMAIN Steps = Places
  /\ \A j, k \in Places : Steps[j] = Steps[k] => j = k
  /\ \A j \in Places : Steps[j] \notin Early \union {"return", "end"}
<1>1. DOMAIN Steps = Places
  BY DEF Steps, Places
<1>2. \A j, k \in Places : Steps[j] = Steps[k] => j = k
  BY DEF Steps, Places
<1>3. \A j \in Places : Steps[j] \notin Early \union {"return", "end"}
  BY DEF Steps, Places, Early
<1>4. QED
  BY <1>1, <1>2, <1>3

(* The step after one is the next that is wanted. *)
LEMMA NextWanted ==
  ASSUME NEW p \in Places \union {0}, NEW s, p # 0 => s = Steps[p], p = 0 => s = "names"
  PROVE  \/ /\ After(s) = "return"
            /\ \A k \in Places : k > p => ~Wanted(Steps[k])
         \/ \E j \in Places :
              /\ After(s) = Steps[j] /\ Wanted(Steps[j])
              /\ \A k \in Places : k > p /\ k < j => ~Wanted(Steps[k])
<1> DEFINE done == {k \in DOMAIN Steps : Steps[k] = s}
           next == {k \in DOMAIN Steps : k > Max(done \union {0}) /\ Wanted(Steps[k])}
<1>1. Places \subseteq Nat
  BY DEF Places
<1>2. done = {p} \ {0}
  BY StepsApart, <1>1 DEF Early
<1>3. Max(done \union {0}) = p
  <2>1. done \union {0} = {p, 0} /\ p >= 0
    BY <1>1, <1>2
  <2> HIDE DEF done
  <2>2. Max({p, 0}) = p
    BY <1>1, <2>1 DEF Max
  <2>3. QED
    BY <2>1, <2>2
<1> HIDE DEF done
<1>4. next = {k \in Places : k > p /\ Wanted(Steps[k])}
  BY <1>3, StepsApart
<1>5. After(s) = IF next = {} THEN "return" ELSE Steps[Min(next)]
  BY DEF After, done
<1> HIDE DEF next
<1>6. CASE next = {}
  BY <1>4, <1>5, <1>6
<1>7. CASE next # {}
  <2>1. Min(next) \in next /\ \A x \in next : Min(next) <= x
    BY <1>1, <1>4, <1>7, MinIn
  <2>2. PICK j \in Places : j = Min(next)
    BY <1>4, <2>1
  <2>3. After(s) = Steps[j] /\ Wanted(Steps[j])
    BY <1>4, <1>5, <1>7, <2>1, <2>2
  <2>4. \A k \in Places : k > p /\ k < j => ~Wanted(Steps[k])
    BY <1>1, <1>4, <2>1, <2>2
  <2>5. QED
    BY <2>3, <2>4
<1>8. QED
  BY <1>6, <1>7

(* Nothing but the request, the targets and the proto files decides what is to
   be done. *)
LEMMA SameTargets ==
  ASSUME UNCHANGED <<request, targets, fdps>>
  PROVE  /\ Copies' = Copies /\ \A s : Wanted(s)' = Wanted(s) /\ Outputs(s)' = Outputs(s)
         /\ NothingMissing(targets)' = NothingMissing(targets) /\ UseTempdir' = UseTempdir
<1>1. Copies' = Copies /\ UseTempdir' = UseTempdir
  BY DEF Copies, Extra, UseTempdir
<1>2. \A s : Wanted(s)' = Wanted(s)
  BY DEF Wanted
<1>3. /\ PbFiles' = PbFiles /\ GrpcFiles' = GrpcFiles /\ ProtoDocs' = ProtoDocs
      /\ Certificates' = Certificates /\ Dockerfiles' = Dockerfiles /\ Built' = Built
  BY DEF PbFiles, GrpcFiles, ProtoDocs, Certificates, Dockerfiles, Built
<1>4. \A s : Outputs(s)' = Outputs(s)
  BY <1>3 DEF Outputs
<1>5. NothingMissing(targets)' = NothingMissing(targets)
  BY DEF NothingMissing, WithDependents, AllTargets
<1>6. QED
  BY <1>1, <1>2, <1>4, <1>5

LEMMA StepOver ==
  ASSUME DriverInv, UNCHANGED <<flow, phase, request, targets, fdps>>,
         NEW p \in Places \union {0}, NEW s,
         p # 0 => s = Steps[p] /\ step = s, p = 0 => s = "names" /\ step \in {"names", "compile"},
         failed' \in BOOLEAN, step' = IF failed' THEN "return" ELSE After(s),
         ~failed' => ~failed /\ phase = "compiled",
         files \subseteq files', lost \subseteq lost',
         ~failed' /\ p # 0 => Outputs(s) \subseteq files' \union lost'
  PROVE  DriverInv'
<1>1. /\ Copies' = Copies /\ NothingMissing(targets)' = NothingMissing(targets)
      /\ \A t : Wanted(t)' = Wanted(t) /\ Outputs(t)' = Outputs(t)
  BY SameTargets
<1>2. /\ flow' \in Flows /\ request' \in Requests(flow') /\ request'.options \subseteq targets'
      /\ NothingMissing(targets)' /\ Places \subseteq Nat \ {0}
  <2>1. flow' \in Flows /\ request' \in Requests(flow')
    BY DEF DriverInv
  <2>2. request'.options \subseteq targets'
    BY DEF DriverInv
  <2>3. step # "targets"
    BY StepsApart DEF Early
  <2>4. NothingMissing(targets)'
    BY <1>1, <2>3 DEF DriverInv
  <2>5. QED
    BY <2>1, <2>2, <2>4 DEF Places
<1>3. ~failed' => Copies' \subseteq files' \union lost' /\ \A k \in Places : k <= p => Left(k)'
  <2> SUFFICES ASSUME ~failed' PROVE Copies' \subseteq files' \union lost' /\ \A k \in Places : k <= p => Left(k)'
    OBVIOUS
  <2>1. CASE p = 0
    <3>1. Copies \subseteq files \union lost
      BY <2>1 DEF DriverInv, Early
    <3>2. \A k \in Places : ~ (k <= 0)
      BY <1>2
    <3>3. QED
      BY <1>1, <2>1, <3>1, <3>2
  <2>2. CASE p # 0
    <3>1. LeftBefore(p)
      BY <2>2 DEF DriverInv
    <3>2. ASSUME NEW k \in Places, k <= p PROVE Left(k)'
      <4>1. Left(k) \/ k = p
        BY <1>2, <3>1, <3>2 DEF LeftBefore
      <4>2. CASE Left(k)
        BY <1>1, <4>2 DEF Left, There
      <4>3. CASE k = p
        BY <1>1, <2>2, <4>3 DEF Left, There
      <4>4. QED
        BY <4>1, <4>2, <4>3
    <3>3. QED
      BY <1>1, <3>1, <3>2 DEF LeftBefore
  <2>3. QED
    BY <2>1, <2>2
<1>4. ASSUME NEW q \in Nat, ~failed', \A k \in Places : k > p /\ k < q => ~Wanted(Steps[k])
      PROVE  LeftBefore(q)'
  <2>1. ASSUME NEW k \in Places, k < q PROVE Left(k)'
    <3>1. CASE k <= p
      BY <1>3, <1>4, <3>1
    <3>2. CASE k > p
      BY <1>1, <1>4, <2>1, <3>2 DEF Left
    <3>3. QED
      BY <1>2, <3>1, <3>2
  <2>2. Copies' \subseteq files' \union lost'
    BY <1>3, <1>4
  <2>3. QED
    BY <2>1, <2>2 DEF LeftBefore
<1>5. CASE \/ failed'
           \/ /\ After(s) = "return"
              /\ \A k \in Places : k > p => ~Wanted(Steps[k])
  <2>1. step' = "return"
    BY <1>5
  <2>2. ~failed' => LeftBefore(15)'
    BY <1>4, <1>5
  <2>3. \A q \in Places : step' # Steps[q]
    BY <2>1, StepsApart
  <2>4. QED
    BY <1>2, <2>1, <2>2, <2>3 DEF DriverInv, Early
<1>6. ASSUME ~failed', NEW j \in Places, After(s) = Steps[j], Wanted(Steps[j]),
             \A k \in Places : k > p /\ k < j => ~Wanted(Steps[k])
      PROVE  DriverInv'
  <2>1. step' = Steps[j] /\ Wanted(step)'
    BY <1>1, <1>6
  <2>2. LeftBefore(j)'
    BY <1>2, <1>4, <1>6
  <2>3. \A q \in Places : step' = Steps[q] => q = j
    BY <2>1, StepsApart
  <2>4. step' \notin Early \union {"return", "end"}
    BY <2>1, StepsApart
  <2>5. phase' = "compiled"
    BY <1>6
  <2> HIDE DEF Early
  <2>6. QED
    BY <1>2, <1>6, <2>1, <2>2, <2>3, <2>4, <2>5 DEF DriverInv
<1>7. \/ After(s) = "return" /\ \A k \in Places : k > p => ~Wanted(Steps[k])
      \/ \E j \in Places : /\ After(s) = Steps[j] /\ Wanted(Steps[j])
                           /\ \A k \in Places : k > p /\ k < j => ~Wanted(Steps[k])
  BY NextWanted
<1>8. QED
  BY <1>5, <1>6, <1>7

-----------------------------------------------------------------------------
(* Every step leaves what it is to leave, or an error. *)

LEMMA Finish ==
  ASSUME NEW s, NEW ok, Done(s, ok), failed \in BOOLEAN
  PROVE  /\ failed' \in BOOLEAN /\ step' = IF failed' THEN "return" ELSE After(s)
         /\ ~failed' => ~failed /\ ok
  BY DEF Done

LEMMA WriteFinish ==
  ASSUME NEW s, NEW wanted, NEW unknown, Write(s, wanted, unknown), failed \in BOOLEAN
  PROVE  /\ failed' \in BOOLEAN /\ step' = IF failed' THEN "return" ELSE After(s)
         /\ files \subseteq files'
         /\ ~failed' => ~failed /\ wanted \subseteq files'
<1>1. PICK written \in SUBSET wanted :
        files' = files \union written /\ Done(s, written = wanted /\ ~unknown)
  BY DEF Write
<1>2. /\ failed' \in BOOLEAN /\ step' = IF failed' THEN "return" ELSE After(s)
      /\ ~failed' => ~failed /\ written = wanted
  BY <1>1, Finish DEF Done
<1>3. QED
  BY <1>1, <1>2

LEMMA MakeFinish ==
  ASSUME NEW needs, NEW made, Make(needs, made), failed \in BOOLEAN
  PROVE  /\ failed' \in BOOLEAN /\ step' = IF failed' THEN "return" ELSE After(step)
         /\ files \subseteq files'
         /\ ~failed' => ~failed /\ made \subseteq files'
<1>1. PICK ok \in BOOLEAN : /\ files' = IF ok THEN files \union made ELSE files
                            /\ Done(step, ok)
  BY DEF Make
<1>2. /\ failed' \in BOOLEAN /\ step' = IF failed' THEN "return" ELSE After(step)
      /\ ~failed' => ~failed /\ ok
  BY <1>1, Finish
<1>3. QED
  BY <1>1, <1>2

(* The steps that write files or call make. *)
Writing(s) ==
  /\ step = s /\ UNCHANGED <<flow, phase, request, targets, fdps, lost>>
  /\ \/ \E unknown : Write(s, Outputs(s), unknown)
     \/ \E needs : Make(needs, Outputs(s))

LEMMA WritingSteps ==
  GenProtobuf \/ GenGrpc \/ GenServer \/ GenClient \/ WriteCertificates \/ GenMakefile
    \/ GenDockerfile \/ BuildImage \/ Build \/ GenPython \/ GenDriver \/ GenWww
  => \E p \in Places : Writing(Steps[p])
<1> USE DEF Writing, Unchanged, all_vars, vars, compile_vars, Outputs
<1>0. /\ Steps[1] = "protobuf-files" /\ Steps[2] = "grpc-files" /\ Steps[5] = "server"
      /\ Steps[6] = "client" /\ Steps[7] = "ssl-certificates" /\ Steps[8] = "makefile"
      /\ Steps[9] = "dockerfile" /\ Steps[10] = "build-image" /\ Steps[11] = "build"
      /\ Steps[12] = "python-client" /\ Steps[13] = "driver" /\ Steps[14] = "www-files"
      /\ Places = 1 .. 14
  BY DEF Steps, Places
<1>1. GenProtobuf => Writing("protobuf-files")
  BY DEF GenProtobuf
<1>2. GenGrpc => Writing("grpc-files")
  BY DEF GenGrpc
<1>3. GenServer => Writing("server")
  BY DEF GenServer, Generate
<1>4. GenClient => Writing("client")
  BY DEF GenClient
<1>5. WriteCertificates => Writing("ssl-certificates")
  BY DEF WriteCertificates
<1>6. GenMakefile => Writing("makefile")
  BY DEF GenMakefile
<1>7. GenDockerfile => Writing("dockerfile")
  BY DEF GenDockerfile
<1>8. BuildImage => Writing("build-image")
  BY DEF BuildImage
<1>9. Build => Writing("build")
  BY DEF Build
<1>10. GenPython => Writing("python-client")
  BY DEF GenPython
<1>11. GenDriver => Writing("driver")
  BY DEF GenDriver
<1>12. GenWww => Writing("www-files")
  BY DEF GenWww, Generate
<1> HIDE DEF Writing
<1>13. QED
  BY <1>0, <1>1, <1>2, <1>3, <1>4, <1>5, <1>6, <1>7, <1>8, <1>9, <1>10, <1>11, <1>12

LEMMA WritingDriverInv ==
  ASSUME DriverInv, NEW p \in Places, Writing(Steps[p])
  PROVE  DriverInv'
<1>1. step = Steps[p] /\ failed \in BOOLEAN /\ UNCHANGED <<flow, phase, request, targets, fdps, lost>>
  BY DEF Writing, DriverInv
<1>2. ~failed /\ phase = "compiled"
  BY <1>1 DEF DriverInv
<1>3. /\ failed' \in BOOLEAN /\ step' = IF failed' THEN "return" ELSE After(Steps[p])
      /\ files \subseteq files'
      /\ ~failed' => Outputs(Steps[p]) \subseteq files'
  BY <1>1, WriteFinish, MakeFinish DEF Writing
<1>4. p # 0
  BY DEF Places
<1>5. QED
  BY <1>1, <1>2, <1>3, <1>4, StepOver

LEMMA SameDriver ==
  ASSUME [DriverNext]_whole_vars, DriverInv
  PROVE  flow' \in Flows /\ request' \in Requests(flow') /\ UNCHANGED request
<1>1. UNCHANGED flow
  BY DriverStep, SameProgram
<1>2. UNCHANGED request
  BY DEF DriverNext, whole_vars, driver_vars, AddDependents, Start, Parse, Compile, NameAndSet,
     GenProtobuf, GenGrpc, SetVariables, PrintProto, GenServer, GenClient, WriteCertificates,
     GenMakefile, GenDockerfile, BuildImage, Build, GenPython, GenDriver, GenWww, Return, Unchanged
<1>3. QED
  BY <1>1, <1>2 DEF DriverInv

(* Before there are any steps of the table. *)
LEMMA EarlyDriverInv ==
  ASSUME [DriverNext]_whole_vars, DriverInv, failed' \in BOOLEAN, targets \subseteq targets',
         step' \in Early \/ (step' = "return" /\ failed'),
         step' # "targets" => NothingMissing(targets)',
         step' \in Early \ {"names"} => ~failed',
         step' \in Early \ {"targets"} /\ ~failed' => Copies' \subseteq files' \union lost'
  PROVE  DriverInv'
<1>1. \A p \in Places : step' # Steps[p]
  BY StepsApart
<1>2. step' # "end" /\ (step' = "return" => failed')
  BY DEF Early
<1>3. request'.options \subseteq targets'
  BY SameDriver DEF DriverInv
<1> HIDE DEF Early
<1>4. QED
  BY <1>1, <1>2, <1>3, SameDriver DEF DriverInv

LEMMA OtherDriverInv ==
  ASSUME [DriverNext]_whole_vars, DriverInv
  PROVE  AddDependents \/ Start \/ Parse \/ Compile \/ NameAndSet => DriverInv'
<1> USE DEF Early
<1>1. CASE AddDependents
  BY <1>1, EarlyDriverInv DEF AddDependents, DriverInv, WithDependents
<1>2. CASE Start
  <2>1. /\ step = "targets" /\ NothingMissing(targets) /\ UNCHANGED <<request, targets, fdps>>
        /\ \/ step' = "return" /\ failed' = TRUE
           \/ step' = "parse" /\ failed' = FALSE /\ Copies \subseteq files' \union lost'
    BY <1>2 DEF Start, Unchanged, DriverInv
  <2>2. NothingMissing(targets)' /\ Copies' = Copies /\ failed' \in BOOLEAN
    BY <2>1, SameTargets DEF DriverInv
  <2>3. QED
    BY <2>1, <2>2, EarlyDriverInv
<1>3. CASE Parse
  <2>1. /\ step = "parse" /\ UNCHANGED <<request, targets, files, lost>>
        /\ \/ step' = "compile" /\ failed' = FALSE
           \/ step' = "names" /\ failed' = TRUE
    BY <1>3 DEF Parse, Unchanged
  <2>2. Copies' = Copies /\ NothingMissing(targets)' /\ Copies \subseteq files \union lost
    BY <2>1 DEF Copies, Extra, NothingMissing, WithDependents, AllTargets, DriverInv
  <2>3. QED
    BY <2>1, <2>2, EarlyDriverInv
<1>4. CASE Compile
  <2>1. step = "compile" /\ UNCHANGED <<request, step, targets, failed, files, lost>>
    BY <1>4 DEF Compile, driver_vars
  <2>2. Copies' = Copies /\ NothingMissing(targets)'
    BY <2>1 DEF Copies, Extra, NothingMissing, WithDependents, AllTargets, DriverInv
  <2>3. QED
    BY <2>1, <2>2, EarlyDriverInv DEF DriverInv
<1>5. CASE NameAndSet
  <2>1. /\ step = "names" \/ (step = "compile" /\ phase \in {"compiled", "rejected"})
        /\ UNCHANGED <<flow, phase, request, targets, fdps, files, lost>>
    BY <1>5 DEF NameAndSet, Unchanged, all_vars, vars, compile_vars
  <2>2. PICK ok : Done("names", ok) /\ (ok => ~failed /\ phase = "compiled")
    BY <1>5 DEF NameAndSet
  <2>3. failed \in BOOLEAN
    BY DEF DriverInv
  <2>4. /\ failed' \in BOOLEAN /\ step' = IF failed' THEN "return" ELSE After("names")
        /\ ~failed' => ~failed /\ phase = "compiled"
    BY <2>2, <2>3, Finish
  <2>5. QED
    BY <2>1, <2>4, StepOver DEF Places
<1>6. QED
  BY <1>1, <1>2, <1>3, <1>4, <1>5

LEMMA VariablesDriverInv ==
  ASSUME DriverInv, SetVariables \/ PrintProto
  PROVE  DriverInv'
<1>1. failed \in BOOLEAN /\ 3 \in Places /\ 4 \in Places /\ Steps[3] = "variables" /\ Steps[4] = "print-proto"
  <2>1. failed \in BOOLEAN
    BY DEF DriverInv
  <2>2. QED
    BY <2>1 DEF Steps, Places
<1>2. CASE SetVariables
  <2>1. step = "variables" /\ UNCHANGED <<flow, phase, request, targets, fdps>>
    BY <1>2 DEF SetVariables, Unchanged, all_vars, vars, compile_vars
  <2>2. PICK ok : Done("variables", ok)
    BY <1>2 DEF SetVariables
  <2>3. /\ files \subseteq files' /\ lost \subseteq lost'
        /\ Outputs("variables") \subseteq files' \union lost'
    BY <1>2 DEF SetVariables, Outputs
  <2>4. /\ failed' \in BOOLEAN /\ step' = IF failed' THEN "return" ELSE After("variables")
        /\ ~failed' => ~failed
    BY <1>1, <2>2, Finish
  <2>5. phase = "compiled"
    BY <1>1, <2>1 DEF DriverInv
  <2>6. QED
    BY <1>1, <2>1, <2>3, <2>4, <2>5, StepOver
<1>3. CASE PrintProto
  <2>1. step = "print-proto" /\ UNCHANGED <<flow, phase, request, targets, fdps, files, lost>>
    BY <1>3 DEF PrintProto, Unchanged, all_vars, vars, compile_vars
  <2>2. PICK ok : Done("print-proto", ok)
    BY <1>3 DEF PrintProto
  <2>3. Outputs("print-proto") = {}
    BY DEF Outputs
  <2>4. /\ failed' \in BOOLEAN /\ step' = IF failed' THEN "return" ELSE After("print-proto")
        /\ ~failed' => ~failed
    BY <1>1, <2>2, Finish
  <2>5. phase = "compiled"
    BY <1>1, <2>1 DEF DriverInv
  <2>6. QED
    BY <1>1, <2>1, <2>3, <2>4, <2>5, StepOver
<1>4. QED
  BY <1>2, <1>3

LEMMA ReturnDriverInv ==
  ASSUME [DriverNext]_whole_vars, DriverInv, Return
  PROVE  DriverInv'
<1>1. /\ step = "return" /\ step' = "end" /\ UNCHANGED <<flow, request, targets, fdps, lost>>
      /\ \/ ~UseTempdir /\ UNCHANGED <<files, failed>>
         \/ UseTempdir /\ files' = files \cap {<<"image", "">>} /\ UNCHANGED failed
         \/ UseTempdir /\ UNCHANGED files /\ failed' = TRUE
  BY DEF Return, Unchanged, all_vars, vars
<1>2. /\ Copies' = Copies /\ NothingMissing(targets)' /\ UseTempdir' = UseTempdir
      /\ \A s : Wanted(s)' = Wanted(s) /\ Outputs(s)' = Outputs(s)
  BY <1>1, SameTargets DEF DriverInv
<1>3. ~failed => LeftBefore(15)
  BY <1>1 DEF DriverInv
<1>4. ~failed /\ UseTempdir => <<"image", "">> \in files \union lost
  <2>1. UseTempdir => "build-image" \in targets
    BY DEF UseTempdir, DriverInv
  <2>2. 10 \in Places /\ Steps[10] = "build-image" /\ 10 < 15
    BY DEF Places, Steps
  <2>3. ~failed => Left(10)
    BY <1>3, <2>2 DEF LeftBefore
  <2>4. "build-image" \in targets => Wanted(Steps[10])
    BY <2>2 DEF Wanted
  <2>5. <<"image", "">> \in Outputs(Steps[10])
    BY <2>2 DEF Outputs
  <2>6. QED
    BY <2>1, <2>3, <2>4, <2>5 DEF Left, There
<1>5. ~failed' => IF UseTempdir THEN <<"image", "">> \in files' \union lost' ELSE LeftBefore(15)'
  <2>1. CASE UseTempdir
    <3> DEFINE image == <<"image", "">>
    <3>1. ~failed' => ~failed /\ (UNCHANGED files \/ files' = files \cap {image})
      BY <1>1, <2>1
    <3>2. ~failed => image \in files \union lost
      BY <1>4, <2>1
    <3> HIDE DEF image
    <3>3. ~failed' => image \in files' \union lost'
      BY <1>1, <3>1, <3>2
    <3>4. QED
      BY <2>1, <3>3 DEF image
  <2>2. CASE ~UseTempdir
    <3>1. UNCHANGED <<files, lost, failed>>
      BY <1>1, <2>2
    <3>2. LeftBefore(15)' = LeftBefore(15)
      BY <1>2, <3>1 DEF LeftBefore, Left, There
    <3>3. QED
      BY <1>3, <2>2, <3>1, <3>2
  <2>3. QED
    BY <2>1, <2>2
<1>6. failed' \in BOOLEAN /\ request'.options \subseteq targets'
  BY <1>1 DEF DriverInv
<1>7. \A p \in Places : step' # Steps[p]
  BY <1>1, StepsApart
<1>8. step' \notin Early /\ step' # "return" /\ step' = "end"
  BY <1>1 DEF Early
<1> HIDE DEF Early
<1>9. QED
  BY <1>2, <1>5, <1>6, <1>7, <1>8, SameDriver DEF DriverInv

LEMMA StutterDriverInv ==
  ASSUME DriverInv, UNCHANGED whole_vars
  PROVE  DriverInv'
<1>1. UNCHANGED <<flow, phase, request, step, targets, failed, fdps, files, lost>>
  BY DEF whole_vars, all_vars, vars, compile_vars, driver_vars
<1>2. /\ Copies' = Copies /\ NothingMissing(targets)' = NothingMissing(targets)
      /\ UseTempdir' = UseTempdir
      /\ \A s : Wanted(s)' = Wanted(s) /\ Outputs(s)' = Outputs(s)
  BY <1>1, SameTargets
<1>3. \A p : LeftBefore(p)' = LeftBefore(p)
  BY <1>1, <1>2 DEF LeftBefore, Left, There
<1>4. QED
  BY <1>1, <1>2, <1>3 DEF DriverInv

(* The files a step needs and flowc promises are there by the order of the steps. *)
THEOREM DriverInvHolds == DriverSpec => []DriverInv
<1>1. DriverInit => DriverInv
  <2> SUFFICES ASSUME DriverInit PROVE DriverInv
    OBVIOUS
  <2>1. /\ flow \in Flows /\ request \in Requests(flow) /\ failed = FALSE /\ step = "targets"
        /\ request.options \subseteq targets
    BY DEF DriverInit, CompileInit, Init, WithDependents
  <2>2. \A p \in Places : step # Steps[p]
    BY <2>1, StepsApart DEF Early
  <2>3. QED
    BY <2>1, <2>2 DEF DriverInv, Early
<1>2. DriverInv /\ [DriverNext]_whole_vars => DriverInv'
  <2> SUFFICES ASSUME DriverInv, [DriverNext]_whole_vars PROVE DriverInv'
    OBVIOUS
  <2>1. (\E p \in Places : Writing(Steps[p])) => DriverInv'
    BY WritingDriverInv
  <2>2. AddDependents \/ Start \/ Parse \/ Compile \/ NameAndSet => DriverInv'
    BY OtherDriverInv
  <2>3. QED
    BY <2>1, <2>2, WritingSteps, VariablesDriverInv, ReturnDriverInv, StutterDriverInv DEF DriverNext
<1>3. QED
  BY <1>1, <1>2, PTL DEF DriverSpec

-----------------------------------------------------------------------------
(* What is needed, and what is promised. *)

(* The targets have all they depend on. *)
LEMMA TargetsClosed ==
  ASSUME NothingMissing(targets)
  PROVE  /\ "server" \in targets => {"grpc-files", "makefile", "dockerfile", "www-files", "ssl-certificates", "docs"} \subseteq targets
         /\ "client" \in targets => {"grpc-files", "makefile", "dockerfile", "docs"} \subseteq targets
         /\ "build-image" \in targets => {"server", "client"} \subseteq targets
         /\ "build-server" \in targets => "server" \in targets
         /\ "build-client" \in targets => "client" \in targets
         /\ "dockerfile" \in targets => {"makefile", "ssl-certificates"} \subseteq targets
         /\ "grpc-files" \in targets => "protobuf-files" \in targets
<1>1. \A t \in targets \cap Options : AllTargets[t] \subseteq targets
  BY DEF NothingMissing, WithDependents
<1>2. /\ AllTargets["server"] = {"grpc-files", "makefile", "dockerfile", "www-files", "ssl-certificates", "docs"}
      /\ AllTargets["client"] = {"grpc-files", "makefile", "dockerfile", "docs"}
      /\ AllTargets["build-image"] = {"server", "client", "docs"}
      /\ AllTargets["build-server"] = {"server"} /\ AllTargets["build-client"] = {"client"}
      /\ AllTargets["dockerfile"] = {"makefile", "ssl-certificates"}
      /\ AllTargets["grpc-files"] = {"protobuf-files"}
  BY DEF AllTargets, Options
<1>3. {"server", "client", "build-image", "build-server", "build-client", "dockerfile", "grpc-files"} \subseteq Options
  BY DEF Options
<1>4. QED
  BY <1>1, <1>2, <1>3

(* What is there before a place, by the names of the steps. *)
LEMMA WhatIsLeft ==
  ASSUME NEW p \in Nat, LeftBefore(p)
  PROVE  /\ "docs" \in targets => {<<"docs", "main">>} \subseteq There
         /\ "makefile" \in targets => Extra \subseteq There
         /\ p > 1 /\ "protobuf-files" \in targets => PbFiles \subseteq There
         /\ p > 2 /\ "grpc-files" \in targets => GrpcFiles \subseteq There
         /\ p > 3 /\ "docs" \in targets => ProtoDocs \subseteq There
         /\ p > 5 /\ "server" \in targets => {<<"source", "server">>} \subseteq There
         /\ p > 6 /\ "client" \in targets => {<<"source", "client">>} \subseteq There
         /\ p > 7 /\ "ssl-certificates" \in targets => Certificates \subseteq There
         /\ p > 8 /\ "makefile" \in targets => {<<"makefile", "">>} \subseteq There
         /\ p > 9 /\ "dockerfile" \in targets => Dockerfiles \subseteq There
         /\ p > 10 /\ "build-image" \in targets => {<<"image", "">>} \subseteq There
         /\ p > 11 /\ {"build-server", "build-client"} \cap targets # {} => Built \subseteq There
         /\ p > 12 /\ "python-client" \in targets => {<<"source", "python">>} \subseteq There
         /\ p > 13 /\ "driver" \in targets => {<<"driver", "">>} \subseteq There
         /\ p > 14 /\ "www-files" \in targets /\ request.rest # "no" => {<<"www", "index">>} \subseteq There
<1>1. /\ Copies \subseteq There
      /\ \A k \in Places : k < p /\ Wanted(Steps[k]) => Outputs(Steps[k]) \subseteq There
  BY DEF LeftBefore, Left, There
<1>2. /\ "docs" \in targets => {<<"docs", "main">>} \subseteq There
      /\ "makefile" \in targets => Extra \subseteq There
  BY <1>1 DEF Copies
<1> USE DEF Wanted, Outputs
<1>3. /\ p > 1 /\ "protobuf-files" \in targets => PbFiles \subseteq There
      /\ p > 2 /\ "grpc-files" \in targets => GrpcFiles \subseteq There
      /\ p > 3 /\ "docs" \in targets => ProtoDocs \subseteq There
  <2>1. /\ 1 \in Places /\ 2 \in Places /\ 3 \in Places
        /\ Steps[1] = "protobuf-files" /\ Steps[2] = "grpc-files" /\ Steps[3] = "variables"
    BY DEF Places, Steps
  <2>2. QED
    BY <1>1, <2>1
<1>4. /\ p > 5 /\ "server" \in targets => {<<"source", "server">>} \subseteq There
      /\ p > 6 /\ "client" \in targets => {<<"source", "client">>} \subseteq There
      /\ p > 7 /\ "ssl-certificates" \in targets => Certificates \subseteq There
      /\ p > 8 /\ "makefile" \in targets => {<<"makefile", "">>} \subseteq There
      /\ p > 9 /\ "dockerfile" \in targets => Dockerfiles \subseteq There
  <2>1. /\ 5 \in Places /\ 6 \in Places /\ 7 \in Places /\ 8 \in Places /\ 9 \in Places
        /\ Steps[5] = "server" /\ Steps[6] = "client" /\ Steps[7] = "ssl-certificates"
        /\ Steps[8] = "makefile" /\ Steps[9] = "dockerfile"
    BY DEF Places, Steps
  <2>2. QED
    BY <1>1, <2>1
<1>5. /\ p > 10 /\ "build-image" \in targets => {<<"image", "">>} \subseteq There
      /\ p > 11 /\ {"build-server", "build-client"} \cap targets # {} => Built \subseteq There
      /\ p > 12 /\ "python-client" \in targets => {<<"source", "python">>} \subseteq There
      /\ p > 13 /\ "driver" \in targets => {<<"driver", "">>} \subseteq There
      /\ p > 14 /\ "www-files" \in targets /\ request.rest # "no" => {<<"www", "index">>} \subseteq There
  <2>1. /\ 10 \in Places /\ 11 \in Places /\ 12 \in Places /\ 13 \in Places /\ 14 \in Places
        /\ Steps[10] = "build-image" /\ Steps[11] = "build" /\ Steps[12] = "python-client"
        /\ Steps[13] = "driver" /\ Steps[14] = "www-files"
    BY DEF Places, Steps
  <2>2. QED
    BY <1>1, <2>1
<1>6. QED
  BY <1>2, <1>3, <1>4, <1>5

(* What there is before the makefile is used. *)
LEMMA LeftBeforeMake ==
  ASSUME NEW p \in Nat, p >= 10, LeftBefore(p)
  PROVE  /\ "docs" \in targets => {<<"docs", "main">>} \subseteq There
         /\ "makefile" \in targets => Extra \subseteq There
         /\ "protobuf-files" \in targets => PbFiles \subseteq There
         /\ "grpc-files" \in targets => GrpcFiles \subseteq There
         /\ "docs" \in targets => ProtoDocs \subseteq There
         /\ "server" \in targets => {<<"source", "server">>} \subseteq There
         /\ "client" \in targets => {<<"source", "client">>} \subseteq There
         /\ "ssl-certificates" \in targets => Certificates \subseteq There
         /\ "makefile" \in targets => {<<"makefile", "">>} \subseteq There
         /\ "dockerfile" \in targets => Dockerfiles \subseteq There
<1>1. p > 1 /\ p > 2 /\ p > 3 /\ p > 5 /\ p > 6 /\ p > 7 /\ p > 8 /\ p > 9
  OBVIOUS
<1>2. QED
  BY <1>1, WhatIsLeft

(* What there is at the end. *)
LEMMA LeftAtEnd ==
  ASSUME NEW p \in Nat, p >= 15, LeftBefore(p)
  PROVE  /\ "build-image" \in targets => {<<"image", "">>} \subseteq There
         /\ {"build-server", "build-client"} \cap targets # {} => Built \subseteq There
         /\ "python-client" \in targets => {<<"source", "python">>} \subseteq There
         /\ "driver" \in targets => {<<"driver", "">>} \subseteq There
         /\ "www-files" \in targets /\ request.rest # "no" => {<<"www", "index">>} \subseteq There
<1>1. p > 10 /\ p > 11 /\ p > 12 /\ p > 13 /\ p > 14
  OBVIOUS
<1>2. QED
  BY <1>1, WhatIsLeft

LEMMA MakeFindsFiles ==
  ASSUME DriverInv
  PROVE  /\ step = "build-image" => ImageNeeds \subseteq There
         /\ step = "build" => BuildNeeds \subseteq There
<1>1. /\ 10 \in Places /\ 11 \in Places /\ Steps[10] = "build-image" /\ Steps[11] = "build"
  BY DEF Places, Steps
<1>2. CASE step = "build-image"
  <2>1. LeftBefore(10) /\ Wanted("build-image") /\ NothingMissing(targets)
    BY <1>1, <1>2, StepsApart DEF DriverInv, Early
  <2> PICK p \in Nat : p = 10
    OBVIOUS
  <2>p. p >= 10 /\ LeftBefore(p)
    BY <2>1
  <2>2. "makefile" \in targets /\ "docs" \in targets /\ "dockerfile" \in targets /\ "ssl-certificates" \in targets
    BY <2>1, TargetsClosed DEF Wanted
  <2>3. /\ {<<"makefile", "">>} \subseteq There /\ {<<"docs", "main">>} \subseteq There
        /\ ProtoDocs \subseteq There /\ Dockerfiles \subseteq There /\ Extra \subseteq There
        /\ Certificates \subseteq There
    BY <2>p, <2>2, LeftBeforeMake
  <2>4. ImageNeeds \subseteq There
    BY <2>3 DEF ImageNeeds
  <2>5. QED
    BY <1>2, <2>4
<1>3. CASE step = "build"
  <2>1. LeftBefore(11) /\ NothingMissing(targets)
    BY <1>1, <1>3, StepsApart DEF DriverInv, Early
  <2> PICK p \in Nat : p = 11
    OBVIOUS
  <2>p. p >= 10 /\ LeftBefore(p)
    BY <2>1
  <2>2. ASSUME "build-server" \in targets PROVE ServerNeeds \subseteq There
    <3>1. {"server", "makefile", "grpc-files", "protobuf-files"} \subseteq targets
      BY <2>1, <2>2, TargetsClosed
    <3>2. /\ {<<"makefile", "">>} \subseteq There /\ {<<"source", "server">>} \subseteq There
          /\ PbFiles \subseteq There /\ GrpcFiles \subseteq There /\ Extra \subseteq There
      BY <2>p, <3>1, LeftBeforeMake
    <3>3. QED
      BY <3>2 DEF ServerNeeds
  <2>3. ASSUME "build-client" \in targets PROVE ClientNeeds \subseteq There
    <3>1. {"client", "makefile", "grpc-files", "protobuf-files"} \subseteq targets
      BY <2>1, <2>3, TargetsClosed
    <3>2. /\ {<<"makefile", "">>} \subseteq There /\ {<<"source", "client">>} \subseteq There
          /\ PbFiles \subseteq There /\ GrpcFiles \subseteq There
      BY <2>p, <3>1, LeftBeforeMake
    <3>3. QED
      BY <3>2 DEF ClientNeeds
  <2>4. BuildNeeds \subseteq There
    BY <2>2, <2>3 DEF BuildNeeds
  <2>5. QED
    BY <1>3, <2>4
<1>4. QED
  BY <1>2, <1>3

LEMMA PromisesKept ==
  ASSUME DriverInv, step = "end", ~failed, NEW o \in request.options
  PROVE  Promised(o) \subseteq There
<1>0. o \in targets /\ o \in Options
  BY RequestsAssumption DEF DriverInv
<1>1. CASE UseTempdir
  <2>1. o = "build-image"
    BY <1>1 DEF UseTempdir
  <2>2. <<"image", "">> \in There
    BY <1>1 DEF DriverInv, There
  <2>3. QED
    BY <2>1, <2>2 DEF Promised
<1>2. CASE ~UseTempdir
  <2>1. LeftBefore(15) /\ NothingMissing(targets)
    BY <1>2 DEF DriverInv
  <2> PICK p \in Nat : p = 15
    OBVIOUS
  <2>p. p >= 10 /\ p >= 15 /\ LeftBefore(p)
    BY <2>1
  <2>2. /\ "docs" \in targets => {<<"docs", "main">>} \subseteq There
        /\ "makefile" \in targets => Extra \subseteq There
        /\ "protobuf-files" \in targets => PbFiles \subseteq There
        /\ "grpc-files" \in targets => GrpcFiles \subseteq There
        /\ "docs" \in targets => ProtoDocs \subseteq There
        /\ "server" \in targets => {<<"source", "server">>} \subseteq There
        /\ "client" \in targets => {<<"source", "client">>} \subseteq There
        /\ "ssl-certificates" \in targets => Certificates \subseteq There
        /\ "makefile" \in targets => {<<"makefile", "">>} \subseteq There
        /\ "dockerfile" \in targets => Dockerfiles \subseteq There
        /\ "build-image" \in targets => {<<"image", "">>} \subseteq There
        /\ {"build-server", "build-client"} \cap targets # {} => Built \subseteq There
        /\ "python-client" \in targets => {<<"source", "python">>} \subseteq There
        /\ "driver" \in targets => {<<"driver", "">>} \subseteq There
        /\ "www-files" \in targets /\ request.rest # "no" => {<<"www", "index">>} \subseteq There
    BY <2>p, LeftBeforeMake, LeftAtEnd
  <2>3. CASE o \in {"server", "build-server"}
    <3>1. {"server", "grpc-files", "makefile", "dockerfile", "www-files", "ssl-certificates", "docs", "protobuf-files"} \subseteq targets
      BY <1>0, <2>1, <2>3, TargetsClosed
    <3>2. ServerNeeds \subseteq There
      BY <2>2, <3>1 DEF ServerNeeds
    <3>3. ImageNeeds \subseteq There
      BY <2>2, <3>1 DEF ImageNeeds
    <3>4. CASE o = "server"
      BY <2>2, <3>1, <3>2, <3>3, <3>4 DEF Promised
    <3>5. CASE o = "build-server"
      <4>1. {<<"binary", o>>} \subseteq There
        BY <1>0, <2>2, <3>5 DEF Built
      <4>2. Promised(o) = ServerNeeds \union {<<"binary", o>>}
        BY <3>5 DEF Promised
      <4>3. QED
        BY <3>2, <4>1, <4>2
    <3>6. QED
      BY <2>3, <3>4, <3>5
  <2>4. CASE o \in {"client", "build-client"}
    <3>1. {"client", "grpc-files", "makefile", "dockerfile", "ssl-certificates", "docs", "protobuf-files"} \subseteq targets
      BY <1>0, <2>1, <2>4, TargetsClosed
    <3>2. ClientNeeds \subseteq There
      BY <2>2, <3>1 DEF ClientNeeds
    <3>3. ImageNeeds \subseteq There
      BY <2>2, <3>1 DEF ImageNeeds
    <3>4. CASE o = "client"
      BY <3>2, <3>3, <3>4 DEF Promised
    <3>5. CASE o = "build-client"
      <4>1. {<<"binary", o>>} \subseteq There
        BY <1>0, <2>2, <3>5 DEF Built
      <4>2. Promised(o) = ClientNeeds \union {<<"binary", o>>}
        BY <3>5 DEF Promised
      <4>3. QED
        BY <3>2, <4>1, <4>2
    <3>6. QED
      BY <2>4, <3>4, <3>5
  <2>5. CASE o \in {"dockerfile", "grpc-files"}
    <3>1. o = "dockerfile" => {"makefile", "ssl-certificates"} \subseteq targets
      BY <1>0, <2>1, TargetsClosed
    <3>2. o = "grpc-files" => "protobuf-files" \in targets
      BY <1>0, <2>1, TargetsClosed
    <3>3. o = "dockerfile" => Promised(o) \subseteq There
      BY <1>0, <2>2, <3>1 DEF Promised
    <3>4. o = "grpc-files" => Promised(o) \subseteq There
      BY <1>0, <2>2, <3>2 DEF Promised
    <3>5. QED
      BY <2>5, <3>3, <3>4
  <2>6. CASE o \notin {"server", "build-server", "client", "build-client", "dockerfile", "grpc-files"}
    <3>1. Promised(o) \subseteq There
      BY <1>0, <2>2, <2>6 DEF Promised, Options
    <3>2. QED
      BY <3>1
  <2>7. QED
    BY <2>3, <2>4, <2>5, <2>6
<1>3. QED
  BY <1>1, <1>2

-----------------------------------------------------------------------------
(* What the code of the entry calls is referenced. *)

(* The stages and the input are closed: what they need is there. *)
LEMMA StagesClosed ==
  ASSUME flow \in Flows, pc = "done", StagesComplete, GraphNodes \subseteq Nodes,
         NEW n \in GraphNodes \union {Entry}
  PROVE  Needs(n) \subseteq GraphNodes \union {Input}
<1> SUFFICES ASSUME NEW k \in Needs(n), k # Input PROVE k \in GraphNodes
  OBVIOUS
<1>1. n \in All
  BY DEF All
<1>2. k \in Nodes
  <2>1. k \in References(n) \union UNION {Alternates(j) : j \in References(n)}
    BY <1>1, RowIsNeeds
  <2>2. References(n) \subseteq Nodes \union {Input}
    BY <1>1, ReferencesType
  <2>3. \A j \in References(n) : Alternates(j) \subseteq Nodes
    BY DEF Alternates
  <2>4. QED
    BY <2>1, <2>2, <2>3
<1>3. k \in All \ {Entry, Input} /\ Nodes \subseteq All \ {Entry, Input}
  BY <1>2, NodesAssumption DEF All, Input
<1>4. GraphNodes \ {Input} = {m \in All \ {Entry, Input} : \A S \in ClosedSets : Entry \in S => m \in S}
  BY DEF StagesComplete, GraphNodes
<1>5. ASSUME NEW S \in ClosedSets, Entry \in S PROVE k \in S
  <2>1. n \in S
    BY <1>3, <1>4, <1>5
  <2>2. S \in SUBSET All
    BY DEF ClosedSets
  <2>3. QED
    BY <2>1, <2>2, ClosedSetsDef
<1>6. QED
  BY <1>3, <1>4, <1>5

(* The labels a node refers to, or the conditions tried before it, are looked at
   from its alternates: from one of them that has no condition, all are. *)
LEMMA AlternatesMention ==
  ASSUME Compiled, NEW a \in GraphNodes, NEW k \in References(a),
         \A n \in GraphNodes : source.nodes[n].action # "none"
  PROVE  \E m \in Alternates(a) : k \in LabelsIn(m)
<1>1. /\ flow \in Flows /\ source \in Programs(flow) /\ a \in Nodes
      /\ \A m \in Alternates(a) : m \in Nodes /\ source.nodes[m].action # "none"
      /\ TriedBefore(a) \subseteq Alternates(a)
  BY DEF Compiled, Alternates, TriedBefore
<1>2. /\ flow.conditional \in [Nodes -> BOOLEAN]
      /\ \A n \in Nodes : flow.conditional[n] \/ flow.condition[n] = {}
  BY <1>1, FlowFields
<1>3. k \in flow.refs[a] \/ \E m \in TriedBefore(a) \union {a} : k \in flow.condition[m]
  BY <1>1 DEF References
<1>4. k \in AllLabels
  BY <1>1, <1>3 DEF AllLabels
<1>5. CASE a \in Alternates(a)
  <2>1. CASE k \in flow.refs[a]
    BY <1>1, <1>5, <2>1 DEF LabelsIn
  <2>2. ASSUME NEW m \in TriedBefore(a) \union {a}, k \in flow.condition[m]
        PROVE  \E j \in Alternates(a) : k \in LabelsIn(j)
    <3>1. m \in Alternates(a) /\ flow.conditional[m]
      BY <1>1, <1>2, <1>5, <2>2
    <3>2. k \in LabelsIn(m)
      BY <1>1, <2>2, <3>1 DEF LabelsIn
    <3>3. QED
      BY <3>1, <3>2
  <2>3. QED
    BY <1>3, <2>1, <2>2
<1>6. CASE a \notin Alternates(a)
  <2> DEFINE free == {n \in Nodes : Label(n) = Label(a) /\ ~flow.conditional[n]}
  <2>1. a \in free
    BY <1>1, <1>6 DEF Alternates, Label
  <2>2. PICK u \in free : \A n \in free : n <= u
    BY <1>1, <2>1, LastIn
  <2>3. \A n \in Nodes : n > u /\ Label(n) = Label(u) => flow.conditional[n]
    <3> SUFFICES ASSUME NEW n \in Nodes, n > u, Label(n) = Label(u), ~flow.conditional[n]
                 PROVE FALSE
      BY <1>2
    <3>1. n \in free /\ n \in Nat /\ u \in Nat
      BY NodesAssumption
    <3>2. QED
      BY <2>2, <3>1
  <2>4. u \in Alternates(a)
    BY <1>1, <2>3 DEF Alternates, Label
  <2>5. k \in LabelsIn(u)
    BY <1>1, <1>4, <2>4 DEF LabelsIn
  <2>6. QED
    BY <2>4, <2>5
<1>7. QED
  BY <1>5, <1>6

(* In a set with what is referenced from it, the alternates of all nodes of the
   graph are. *)
LEMMA GraphReferenced ==
  ASSUME Compiled, pc = "done", StagesComplete,
         \A n \in GraphNodes : source.nodes[n].action # "none",
         NEW R \in SUBSET Nodes, AddReferenced(R) \subseteq R,
         NEW n \in GraphNodes
  PROVE  Alternates(n) \subseteq R
<1> DEFINE S == {Entry, Input} \union {m \in GraphNodes : Alternates(m) \subseteq R}
<1>1. /\ flow \in Flows /\ GraphNodes \subseteq Nodes
      /\ \A m \in GraphNodes : Alternates(m) \subseteq GraphNodes
  BY DEF Compiled
<1>2. Entry \notin GraphNodes /\ Input \notin GraphNodes /\ Entry # Input
  BY <1>1, NodesAssumption DEF Input
<1>3. \A l \in RootLabels : Alternates(l) \subseteq R
  BY DEF AddReferenced
<1>4. \A m \in R : \A l \in LabelsIn(m) : Alternates(l) \subseteq R
  BY DEF AddReferenced
<1>5. ASSUME NEW a \in GraphNodes \union {Entry}, a \in S, NEW k \in References(a)
      PROVE  Alternates(k) \subseteq R
  <2>1. CASE a = Entry
    <3>1. References(a) = flow.refs[Entry]
      BY <1>2, <2>1, NodesAssumption DEF References
    <3>2. k \in RootLabels
      BY <3>1 DEF RootLabels
    <3>3. QED
      BY <1>3, <3>2
  <2>2. CASE a \in GraphNodes
    <3>1. Alternates(a) \subseteq R
      BY <1>2, <1>5, <2>2
    <3>2. PICK m \in Alternates(a) : k \in LabelsIn(m)
      BY <2>2, AlternatesMention
    <3>3. QED
      BY <1>4, <3>1, <3>2
  <2>3. QED
    BY <2>1, <2>2
<1>6. ASSUME NEW a \in GraphNodes \union {Entry}, a \in S
      PROVE  Needs(a) \subseteq S
  <2> SUFFICES ASSUME NEW j \in Needs(a), j # Input PROVE j \in GraphNodes /\ Alternates(j) \subseteq R
    OBVIOUS
  <2>1. j \in GraphNodes
    BY <1>1, StagesClosed
  <2>2. a \in All
    BY <1>1 DEF All
  <2>3. j \in References(a) \/ \E k \in References(a) : j \in Alternates(k)
    BY <2>2, RowIsNeeds, <1>1
  <2>4. CASE j \in References(a)
    BY <1>5, <1>6, <2>1, <2>4
  <2>5. ASSUME NEW k \in References(a), j \in Alternates(k) PROVE Alternates(j) \subseteq R
    <3>1. k \in All
      BY <1>1, <2>2, ReferencesType DEF All
    <3>2. Alternates(j) = Alternates(k)
      BY <1>1, <2>5, <3>1, SameAlternates
    <3>3. QED
      BY <1>5, <1>6, <2>5, <3>2
  <2>6. QED
    BY <2>1, <2>3, <2>4, <2>5
<1>7. S \in SUBSET All /\ Entry \in S
  BY <1>1 DEF All
<1>8. S \in ClosedSets
  <2>1. \A a \in S : a = Input \/ a \in GraphNodes \union {Entry}
    OBVIOUS
  <2>2. Needs(Input) = {}
    BY <1>1, NeedsType DEF All
  <2> HIDE DEF S
  <2>3. \A a \in S : Needs(a) \subseteq S
    BY <1>6, <2>1, <2>2
  <2>4. QED
    BY <1>1, <1>7, <2>3, ClosedSetsDef
<1>9. n \in S
  <2> HIDE DEF S
  <2>1. n \in {m \in All \ {Entry, Input} : \A T \in ClosedSets : Entry \in T => m \in T}
    BY <1>2 DEF StagesComplete, GraphNodes
  <2>2. QED
    BY <1>7, <1>8, <2>1
<1>10. QED
  BY <1>2, <1>9

LEMMA CodeIsReferenced ==
  ASSUME DriverInv, CompileInv, OrderInv, NeededInv, step = "variables",
         \A n \in GraphNodes : source.nodes[n].action # "none"
  PROVE  {c.node : c \in {d \in Code("node") : d.node \in Alternates(d.node)}} \subseteq Referenced
<1>1. phase = "compiled"
  <2>1. 3 \in Places /\ Steps[3] = "variables"
    BY DEF Places, Steps
  <2>2. QED
    BY <2>1 DEF DriverInv
<1>2. Compiled /\ pc = "done" /\ StagesComplete
  BY <1>1, CompiledFacts, CompleteFromInvariants DEF CompileInv, ProgramInv, Building
<1>3. ASSUME NEW c \in Code("node"), c.node \in Alternates(c.node)
      PROVE  c.node \in Referenced
  <2>1. c.node \in GraphNodes
    BY <1>2 DEF Code, Compiled, NodeEntry
  <2>2. PICK n \in GraphNodes : n = c.node
    BY <2>1
  <2>3. n \in Alternates(n) /\ n \in Nodes
    BY <1>2, <1>3, <2>2 DEF Compiled
  <2>4. \A R \in SUBSET Nodes : AddReferenced(R) \subseteq R => n \in R
    BY <1>2, <2>3, GraphReferenced
  <2>5. QED
    BY <2>2, <2>3, <2>4 DEF Referenced
<1>4. QED
  BY <1>3

(* In every request, make finds all its rules need, but for copies that were
   lost; flowc succeeds only with everything asked for; and the server knows all
   nodes its code calls. *)
THEOREM ArtefactsCompleteHolds == DriverSpec => []ArtefactsComplete
<1>1. ASSUME DriverInv, CompileInv, OrderInv, NeededInv PROVE ArtefactsComplete
  <2>1. /\ step = "build-image" => ImageNeeds \subseteq files \union lost
        /\ step = "build" => BuildNeeds \subseteq files \union lost
    BY <1>1, MakeFindsFiles DEF There
  <2>2. ASSUME step = "end", ~failed, NEW o \in request.options
        PROVE  Promised(o) \subseteq files \union lost
    BY <1>1, <2>2, PromisesKept DEF There
  <2>3. ASSUME step = "variables", \A n \in GraphNodes : source.nodes[n].action # "none"
        PROVE  {c.node : c \in {d \in Code("node") : d.node \in Alternates(d.node)}}
                 \cap Calls(source.nodes) \subseteq Referenced
    BY <1>1, <2>3, CodeIsReferenced
  <2>4. QED
    BY <2>1, <2>2, <2>3 DEF ArtefactsComplete
<1>2. QED
  BY <1>1, DriverInvHolds, DriverCompiles, CompileInvHolds, CompileImpliesSpec, NeededInvHolds, PTL

(* The run checks the graph and the code of flowc as a whole: what is proved of
   the compiler's parts alone holds there. *)
THEOREM FlowcKeepsThem ==
  DriverSpec => [](/\ TypeOK /\ StagesOrdered /\ StagesTight /\ StagesComplete /\ CirclesReported
                   /\ FirstAlternateRuns /\ ErrorChecksPlaced /\ AssignmentsConvert)
<1>1. DriverSpec => [](TypeOK /\ StagesOrdered /\ StagesTight /\ StagesComplete /\ CirclesReported)
  BY DriverCompiles, CompileImpliesSpec, TypeCorrect, StagesOrderedHolds, StagesTightHolds,
     StagesCompleteHolds, CirclesReportedHolds, PTL
<1>2. DriverSpec => [](FirstAlternateRuns /\ ErrorChecksPlaced /\ AssignmentsConvert)
  BY DriverCompiles, FirstAlternateRunsHolds, ErrorChecksPlacedHolds, AssignmentsConvertHolds, PTL
<1>3. QED
  BY <1>1, <1>2, PTL
=============================================================================
