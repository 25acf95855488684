------------------------------ MODULE Compiler ------------------------------
(***************************************************************************)
(* flow_compiler::compile(): from what the parser left to the code of an   *)
(* entry.  Declarations are named and typed, the graph is built - FlowGraph *)
(* has these steps - dimensions are checked, and compile_flow_graph()      *)
(* writes the stages, check by check and node by node, and the reply.      *)
(*                                                                         *)
(* The labels of a program are the first nodes that have them, and Input.  *)
(***************************************************************************)
EXTENDS FlowGraph, Declarations, Assignments

CONSTANTS
  Programs(_),          \* the programs with a flow that are looked at
  ValueDimension(_, _)  \* the dimension of a value, given those of the labels

(* Nodes are declared in the order of their numbers, and have the label of the
   first node that has it.  Checks say what they mention, and replies which
   types of fields are assigned. *)
ASSUME ProgramsAssumption ==
  \A f \in Flows : \A p \in Programs(f) :
    /\ p.nodes \in Seq(Range(p.nodes)) /\ DOMAIN p.nodes = Nodes
    /\ \A n \in Nodes :
         /\ p.nodes[n].label = f.first[n] /\ f.first[f.first[n]] = f.first[n]
         /\ p.nodes[n].ids \in Seq(Nat \ {0})
         /\ p.nodes[n].action = "none" => f.refs[n] = {}
    /\ p.checks \in Seq(SUBSET [label : Nodes \union {Input}, whole : BOOLEAN])
    /\ \A a \in p.reply.fields : a.left \in FieldTypes /\ a.right \in FieldTypes
    /\ \A a \in p.reply.literals :
         a.left \in FieldTypes /\ a.literal.type \in {"int32", "float", "string"} \union Enumeration

VARIABLES
  source,    \* the program that is compiled
  phase,
  ids,       \* the ids of the nodes
  dims,      \* the dimensions of the labels
  stage,     \* the stages that are written
  icode,     \* the code: checks, nodes and the reply
  errnc,     \* the error checks that are written
  fava       \* the labels whose fields are available

compile_vars == <<source, phase, ids, dims, stage, icode, errnc, fava>>
all_vars == <<vars, compile_vars>>

Label(n) == flow.first[n]
Body(l) == source.nodes[l].body
GraphNodes == UNION {graph[i] : i \in DOMAIN graph}
Labels == {Label(n) : n \in GraphNodes}

CompileInit ==
  /\ Init
  /\ source \in Programs(flow)
  /\ phase = "declarations"
  /\ ids = <<>> /\ dims = <<>>
  /\ stage = 0 /\ icode = <<>> /\ errnc = {} /\ fava = {Input}

-----------------------------------------------------------------------------
(* fixup_node_ids(): any error ends the compilation. *)
CheckNodeIds ==
  /\ phase = "declarations"
  /\ IF NamesRejected(source.nodes) THEN phase' = "rejected" /\ UNCHANGED ids
     ELSE phase' = "names" /\ ids' = GivenIds(source.nodes)
  /\ UNCHANGED <<vars, source, dims, stage, icode, errnc, fava>>

(* Its second pass: nodes of a group without an id get one, in the order of the
   source. *)
AssignNodeId ==
  /\ phase = "names" /\ Unnamed(source.nodes, ids) # {}
  /\ LET n == Min(Unnamed(source.nodes, ids))
     IN  ids' = [ids EXCEPT ![n] = FirstFree(source.nodes, ids, n)]
  /\ UNCHANGED <<vars, source, phase, dims, stage, icode, errnc, fava>>

(* fixup_proto_refs() and compile_expressions().  Names that are not in the proto
   files are rejected as well: Driver says when. *)
FixupProtoRefs ==
  /\ phase = "names" /\ Unnamed(source.nodes, ids) = {}
  /\ phase' \in {"rejected"} \union (IF TypesRejected(source.nodes) THEN {} ELSE {"graph"})
  /\ UNCHANGED <<vars, source, ids, dims, stage, icode, errnc, fava>>

(* build_flow_graph() *)
BuildFlowGraph ==
  /\ phase = "graph"
  /\ Next
  /\ phase' = CASE pc' = "done" -> "dimensions" [] pc' = "failed" -> "rejected" [] OTHER -> "graph"
  /\ UNCHANGED <<source, ids, dims, stage, icode, errnc, fava>>

(* update_noderef_dimension(): the dimension of a label is that of its nodes
   with an action.  All must agree, and there must be one. *)
Acting(l) == {n \in Alternates(l) : source.nodes[n].action # "none"}
WithDimension(ds, l) ==
  (l :> IF Acting(l) = {} THEN 0 ELSE ValueDimension(Body(Min(Acting(l))), ds)) @@ ds

(* The dimensions of the labels, those of earlier stages first. *)
DimensionsOf(stages) ==
  FoldLeft(LAMBDA ds, S : FoldSet(LAMBDA n, d : WithDimension(d, Label(n)), ds, S),
           Input :> 0, stages)

(* update_dimensions(): no node that gives a result may have another dimension
   than its label, and no condition a higher one. *)
DimensionsRejected(ds) ==
  \/ \E l \in Labels : Acting(l) = {}
  \/ \E n \in GraphNodes :
       /\ source.nodes[n].action # "none"
       /\ \/ ValueDimension(Body(n), ds) # ds[Label(n)]
          \/ ValueDimension(source.nodes[n].condition, ds) > ds[Label(n)]

UpdateDimensions ==
  /\ phase = "dimensions"
  /\ dims' = DimensionsOf(graph)
  /\ phase' = IF DimensionsRejected(dims') THEN "rejected" ELSE "stages"
  /\ UNCHANGED <<vars, source, ids, stage, icode, errnc, fava>>

-----------------------------------------------------------------------------
(* The error checks of a stage: those not written yet that mention nothing but
   available fields.  What is available is the fields that hold a value, with
   all their dimensions, so a message or what a function reduces never is. *)
ReadyChecks ==
  {c \in DOMAIN source.checks \ errnc :
     \A r \in source.checks[c] : r.label \in fava /\ r.whole}

CheckCode(c) == [is |-> "check", check |-> c, stage |-> stage + 1]

Written(code) == {code[i].node : i \in {j \in DOMAIN code : code[j].is = "node"}}

(* A bug the checks must notice: only the condition of the node is tested. *)
UntestedNone(n, code) == {}

(* The conditions that have to fail besides: of alternates that are tried before
   the node and whose code comes later. *)
Untested(n, code) == {m \in TriedBefore(n) \ Written(code) : flow.conditional[m]}

(* BNOD to ENOD.  A node runs if no alternate has, and its conditions say so;
   then its name is noted.  (The code spells a name as an identifier in lower
   case.  Names that are then the same, as those of nodes a.1 and A_1, are outside
   the model.) *)
NodeCode(n, code) ==
  [is |-> "node", node |-> n, name |-> <<Label(n), ids[n]>>, stage |-> stage + 1,
   own |-> flow.conditional[n], untested |-> Untested(n, code),
   type |-> ResultType(source.nodes, n)]

(* A bug the checks must notice: alternates in later stages are forgotten. *)
FinalAtOnce(s) == {Label(n) : n \in graph[s]}

(* The labels whose last nodes are in a stage. *)
FinalLabels(s) ==
  {Label(n) : n \in graph[s]} \ {Label(n) : n \in UNION {graph[i] : i \in s + 1 .. Len(graph)}}

(* What is left to be written of a stage, nodes without a call first, each time
   in the order of the source. *)
Pending == graph[stage + 1] \ Written(icode)
NextNode ==
  LET building == Pending \ Calls(source.nodes)
  IN  IF building # {} THEN Min(building) ELSE Min(Pending)

(* BERC to EERC: the first of the checks. *)
EmitCheck ==
  /\ phase = "stages" /\ stage < Len(graph) /\ ReadyChecks # {}
  /\ icode' = Append(icode, CheckCode(Min(ReadyChecks)))
  /\ errnc' = errnc \union {Min(ReadyChecks)}
  /\ UNCHANGED <<vars, source, phase, ids, dims, stage, fava>>

EmitNode ==
  /\ phase = "stages" /\ stage < Len(graph) /\ ReadyChecks = {} /\ Pending # {}
  /\ icode' = Append(icode, NodeCode(NextNode, icode))
  /\ UNCHANGED <<vars, source, phase, ids, dims, stage, errnc, fava>>

(* ESTG *)
EndStage ==
  /\ phase = "stages" /\ stage < Len(graph) /\ ReadyChecks = {} /\ Pending = {}
  /\ fava' = fava \union FinalLabels(stage + 1)
  /\ stage' = stage + 1
  /\ UNCHANGED <<vars, source, phase, ids, dims, icode, errnc>>

(* BPRP to END: the reply, unless it has a dimension or something in it cannot
   be assigned. *)
EmitReply ==
  /\ phase = "stages" /\ stage = Len(graph)
  /\ IF \/ ValueDimension(source.reply.body, dims) # 0
        \/ \E a \in source.reply.fields : ~Accepted(a.left, a.right)
        \/ \E a \in source.reply.literals : WrittenLiteral(a.left, a.literal) = "refused"
     THEN phase' = "rejected" /\ UNCHANGED icode
     ELSE /\ phase' = "compiled"
          /\ icode' = Append(icode, [is |-> "reply", reply |-> source.reply])
  /\ UNCHANGED <<vars, source, ids, dims, stage, errnc, fava>>

CompileNext ==
  \/ CheckNodeIds \/ AssignNodeId \/ FixupProtoRefs \/ BuildFlowGraph \/ UpdateDimensions
  \/ EmitCheck \/ EmitNode \/ EndStage \/ EmitReply

CompileSpec == CompileInit /\ [][CompileNext]_all_vars

-----------------------------------------------------------------------------
(* Properties. *)

Code(is) == {icode[i] : i \in {j \in DOMAIN icode : icode[j].is = is}}

(* What the code of a label does when some of its conditions hold: the first
   node whose conditions say so runs, and its name is noted. *)
Runs(c, l, holding) ==
  /\ c.is = "node" /\ Label(c.node) = l
  /\ c.own => c.node \in holding
  /\ c.untested \cap holding = {}
Nobody == <<>>
Noted(l, holding) ==
  LET running == {i \in DOMAIN icode : Runs(icode[i], l, holding)}
  IN  IF running = {} THEN Nobody ELSE icode[Min(running)].name

(* The first alternate in the order they are tried. *)
FirstToHold(l, holding) ==
  LET conditional == {n \in Alternates(l) : flow.conditional[n]} \cap holding
  IN  IF conditional # {} THEN {Min(conditional)} ELSE {n \in Alternates(l) : ~flow.conditional[n]}

(* In whatever order and stages the alternates of a label are written, the one
   that runs is the first whose condition holds, its name is no other node's,
   and all of them give a result of the same type. *)
FirstAlternateRuns ==
  phase = "compiled" =>
    \A l \in Labels :
      LET group == {n \in GraphNodes : Label(n) = l}
      IN  /\ \A c, d \in Code("node") : c.node \in group /\ d.node \in group => c.type = d.type
          /\ Cardinality({n \in group : ~flow.conditional[n]}) <= 1 =>
               \A holding \in SUBSET {n \in group : flow.conditional[n]} :
                 {n \in Nodes : <<Label(n), ids[n]>> = Noted(l, holding)} = FirstToHold(l, holding)

(* The labels no node of which is written in this stage or later. *)
FinalBefore(s) ==
  {Input} \union {l \in Labels : \A i \in s .. Len(graph) : \A n \in graph[i] : Label(n) # l}

CheckedLabels(c) == {r.label : r \in source.checks[c]}
WrittenFor(c) == {i \in DOMAIN icode : icode[i].is = "check" /\ icode[i].check = c}

(* An error check that is written is written once, before the nodes of the
   first stage that finds everything it mentions final; and it is written if
   there is such a stage, unless it mentions a field that holds no single value. *)
ErrorChecksPlaced ==
  phase = "compiled" =>
    \A c \in DOMAIN source.checks :
      LET possible == {s \in DOMAIN graph : CheckedLabels(c) \subseteq FinalBefore(s)}
      IN  /\ \A i \in WrittenFor(c) : possible # {} /\ icode[i].stage = Min(possible)
          /\ \A i, j \in WrittenFor(c) : i = j
          /\ possible # {} /\ (\A r \in source.checks[c] : r.whole) => WrittenFor(c) # {}

(* What the description of the syntax says of error checks, that they "are
   evaluated as soon as the dependencies are satisfied": one that mentions
   nothing but the input and labels of this entry is in its code. *)
ErrorChecksWritten ==
  phase = "compiled" =>
    \A c \in DOMAIN source.checks :
      CheckedLabels(c) \subseteq Labels \union {Input} => WrittenFor(c) # {}

(* What is accepted for a field is converted to its type, but for two kinds of
   assignments. *)
AssignmentsConvert ==
  phase = "compiled" =>
    /\ \A a \in source.reply.fields : FieldConverts(a.left, a.right)
    /\ \A a \in source.reply.literals : LiteralConverts(a.left, a.literal)
=============================================================================
