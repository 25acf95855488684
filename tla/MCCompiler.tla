----------------------------- MODULE MCCompiler -----------------------------
(* The flows of MCFlowGraph and some of three alternates; then programs of one
   or two nodes that vary in their declarations, messages or values. *)
EXTENDS GeneratedCode, MCFlowGraph

OneLabel == <<1, 1, 1, 4>>
Patterns == {<<TRUE, TRUE, FALSE, FALSE>>, <<TRUE, FALSE, TRUE, FALSE>>,
             <<FALSE, TRUE, TRUE, FALSE>>, <<TRUE, TRUE, TRUE, FALSE>>}
ThreeAlternates ==
  UNION {{[first |-> OneLabel, conditional |-> conditional, condition |-> k, refs |-> r] :
            k \in {c \in Conditions(conditional) : \A n \in MCNodes : c[n] \subseteq {Input, 4}
                                                     /\ c[n] # {1} /\ c[n] # {3}},
            r \in Refs({{}, {4}}, {{}, {4}}, {{}, {4}}, {{1}})} : conditional \in Patterns}

Declared(label, given, action, type) ==
  [label |-> label, ids |-> given, action |-> action, type |-> type,
   body |-> Message(<<>>), condition |-> Literal]
Plain(first, calling) ==
  [n \in MCNodes |-> Declared(first[n], <<>>, IF n \in calling THEN "output" ELSE "return", "A")]

EmptyReply == [body |-> Message(<<>>), expressions |-> {}, fields |-> {}, literals |-> {}]

Whole(l) == [label |-> l, whole |-> TRUE]
Checks == << {Whole(1)}, {Whole(3), Whole(Input)}, {Whole(1), Whole(4)}, {Whole(Input)},
             {[label |-> 1, whole |-> FALSE]} >>

GraphProgram(f, calling, checks) ==
  [nodes |-> Plain(f.first, calling), checks |-> checks, reply |-> EmptyReply]

-----------------------------------------------------------------------------
(* Three alternates that all run in the first stage. *)
Together ==
  [first |-> OneLabel, conditional |-> <<TRUE, TRUE, FALSE, FALSE>>,
   condition |-> <<{Input}, {Input}, {}, {}>>, refs |-> <<{}, {}, {}, {}, {1}>>]

WithNodes(nodes) == [nodes |-> nodes, checks |-> <<>>, reply |-> EmptyReply]
DeclaredPrograms ==
  {WithNodes(<<Declared(1, i1, "return", "A"), Declared(1, i2, "return", "A"),
               Declared(1, i3, "return", "A"), Declared(4, <<>>, "return", "A")>>) :
     i1 \in {<<>>, <<1>>, <<2>>, <<3>>}, i2, i3 \in {<<>>, <<1>>, <<2>>, <<1, 2>>}}
  \union
  {WithNodes(<<Declared(1, <<>>, a1, "A"), Declared(1, <<>>, a2, t), Declared(1, <<>>, a3, "A"),
               Declared(4, <<>>, "return", "B")>>) :
     a1, a2, a3 \in {"output", "return", "plain", "none"}, t \in {"A", "B"}}

-----------------------------------------------------------------------------
Scalar(name) == [name |-> name, repeated |-> FALSE]
Repeated(name) == [name |-> name, repeated |-> TRUE]
InputField == Reference(Input, <<Scalar("v")>>)
InputList  == Reference(Input, <<Repeated("ys")>>)
InputItem  == Reference(Input, <<Repeated("xs"), Scalar("v")>>)
InputLists == Reference(Input, <<Repeated("xs"), Repeated("ws")>>)
Result     == Reference(1, <<Scalar("v")>>)
ResultList == Reference(1, <<Repeated("ys")>>)

References6 == {InputField, InputList, InputItem, InputLists, Result, ResultList}
Lists == References6 \ {InputField}
Values ==
  References6 \union {Operation(op, <<a>>) : op \in {"#", "sum"}, a \in Lists}
    \union {Operation("+", <<a, b>>) : a \in {InputList, InputLists, Result}, b \in References6}
    \union {Operation("sum", <<Operation("+", <<a, b>>)>>) : a \in {InputItem, Result}, b \in {InputList, InputLists}}

One(repeated, v) == Message(<<[repeated |-> repeated, value |-> v]>>)
Two(r, a, q, b) == Message(<<[repeated |-> r, value |-> a], [repeated |-> q, value |-> b]>>)
Pairs == {Two(r, a, q, b) : r, q \in BOOLEAN, a \in Values, b \in {InputItem, Result}}
Bodies == {One(r, a) : r \in BOOLEAN, a \in Values} \union Pairs \union {One(TRUE, p) : p \in Pairs}

InTurn(second) ==
  [first |-> <<1, 2, 3, 4>>, conditional |-> [n \in MCNodes |-> FALSE],
   condition |-> [n \in MCNodes |-> {}], refs |-> <<{Input}, {Input, 1}, {}, {}, second>>]
InNode2 ==
  {WithNodes([Plain(<<1, 2, 3, 4>>, {2}) EXCEPT ![1].body = One(FALSE, r), ![2].body = b]) :
     r \in {InputField, InputItem}, b \in Bodies}
InReply ==
  {[WithNodes([Plain(<<1, 2, 3, 4>>, {1}) EXCEPT ![1].body = One(FALSE, r)]) EXCEPT !.reply.body = b] :
     r \in {InputField, InputItem}, b \in Bodies}

-----------------------------------------------------------------------------
Whole3 == {Atom("int"), Atom("float"), Atom("string")}
IntAtom == Atom("int")
Operands ==
  Whole3 \union {Operator(o, <<IntAtom, IntAtom>>) : o \in BinaryOperators}
    \union {Operator("!", <<a>>) : a \in Whole3} \union {Operator("?:", <<IntAtom, IntAtom, IntAtom>>)}
    \union {Operator("+", <<Atom("string"), IntAtom>>), Operator("*", <<Atom("float"), IntAtom>>)}
ExpressionsOf(op) ==
  {[value |-> Operator(op, <<a, b>>), expected |-> x] : a, b \in Operands, x \in {"any", "int", "string"}}
    \union {[value |-> Operator("!", <<a>>), expected |-> "float"] : a \in Operands}

FirstNodeOnly(reply) == [WithNodes(Plain(<<1, 2, 3, 4>>, {1})) EXCEPT !.reply = reply]
ValuePrograms ==
  {FirstNodeOnly([EmptyReply EXCEPT !.expressions = ExpressionsOf(op)]) : op \in BinaryOperators}
  \union {FirstNodeOnly([EmptyReply EXCEPT !.fields = {[left |-> l, right |-> r]}]) :
            l, r \in FieldTypes}
  \union {FirstNodeOnly([EmptyReply EXCEPT !.literals = {[left |-> l,
            literal |-> [type |-> t, number |-> k, names |-> e]]}]) :
            l \in FieldTypes, t \in {"int32", "float", "string", "colour", "shade"}, k \in 0 .. 2,
            e \in {"colour", "shade", "neither"}}

-----------------------------------------------------------------------------
MCCompilerFlows == MCFlows \union ThreeAlternates \union {Together, InTurn({1}), InTurn({2})}

(* What is varied depends on the flow. *)
MCPrograms(f) ==
  CASE f = Together        -> DeclaredPrograms
    [] f = InTurn({2})     -> InNode2
    [] f = InTurn({1})     -> InReply \union ValuePrograms
    [] f.first = OneLabel  -> {GraphProgram(f, calling, <<>>) : calling \in {{}, {1}, {1, 2}}}
    [] f.first = <<1, 1, 3, 4>> -> {GraphProgram(f, {1}, Checks)}
    [] OTHER               -> {GraphProgram(f, {}, Checks)}
=============================================================================
