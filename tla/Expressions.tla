---------------------------- MODULE Expressions -----------------------------
(***************************************************************************)
(* Expressions of a flow in the generated C++: the value types of          *)
(* compile_fldr(), the conversions and instructions of encode_expression() *)
(* and the text that gc_server_method() makes of them on a stack of texts  *)
(* with priorities.                                                        *)
(*                                                                         *)
(* An expression is a tree of operators over atoms, which have a type.     *)
(* A text is a sequence of items - atoms, operators, conversions of a text *)
(* and texts in parentheses - so that what C++ reads in it, with the       *)
(* precedence of its operators, can be compared to the tree.               *)
(***************************************************************************)
EXTENDS Integers, Sequences, FiniteSetsExt, SequencesExt

Atom(type) == [op |-> "atom", type |-> type, args |-> <<>>]
Operator(op, args) == [op |-> op, args |-> args]

Conversion(to, e) == [op |-> to, args |-> <<e>>]

(* operator_precedence, which has the numbers of the C++ standard's table:
   the smaller binds tighter. *)
BinaryOperators ==
  {"*", "/", "%", "+", "-", "<=>", "<", ">", "<=", ">=", "==", "!=", "&&", "||"}
Priority(op) ==
  CASE op \in {"*", "/", "%"}         -> 5
    [] op \in {"+", "-"}              -> 6
    [] op = "<=>"                     -> 8
    [] op \in {"<", ">", "<=", ">="}  -> 9
    [] op \in {"==", "!="}            -> 10
    [] op = "&&"                      -> 14
    [] op \in {"||", "?:"}            -> 15
    [] OTHER                          -> 0

(* The value of an arithmetic operator is of the type of its first operand. *)
RECURSIVE ValueType(_)
ValueType(e) ==
  CASE e.op = "atom"                           -> e.type
    [] e.op \in {"*", "/", "%", "+", "-"}      -> ValueType(e.args[1])
    [] e.op = "?:"                             -> ValueType(e.args[2])
    [] OTHER                                   -> "int"

(* The type an operand is encoded for: that of the operand before it, if the
   operator is not one of integers. *)
Expected(e, i) ==
  IF e.op \in {"!", "%", "&&", "||"} \/ (e.op = "?:" /\ i = 1) THEN "int"
  ELSE IF i = 1 \/ (e.op = "?:" /\ i = 2) THEN "any"
  ELSE ValueType(e.args[i - 1])

(* get_pconv_op() *)
Converts(expected, type) == expected # "any" /\ expected # type

-----------------------------------------------------------------------------
(* A bug the checks must notice: the texts are compared the other way. *)
ParenthesesReversed(priority, operand) == priority > operand.priority

(* IOP: whether an operand is put in parentheses. *)
Parentheses(priority, operand) == priority < operand.priority

Operand(priority, operand) ==
  IF Parentheses(priority, operand) THEN <<[is |-> "group", text |-> operand.text]>>
  ELSE operand.text

(* IOP with one, two and three operands.  With three the texts are written with
   their priorities, in between, and C++ does not read that. *)
Printed(op, operands) ==
  LET p == Priority(op)
      sign == <<[is |-> "operator", op |-> op]>>
  IN  CASE Len(operands) = 1 -> sign \o Operand(p, operands[1])
        [] Len(operands) = 2 -> Operand(p, operands[1]) \o sign \o Operand(p, operands[2])
        [] OTHER             -> <<[is |-> "error"]>>

(* get_pconv_op() has no arguments for a conversion, which that of a string to
   a number reads: what it converts to is then not defined. *)
ConvertedTo(expected, type) == IF type = "string" THEN "undefined" ELSE expected

(* encode_expression() with the instructions of gc_server_method(): the text
   and its priority. *)
RECURSIVE Encoded(_, _)
Encoded(e, expected) ==
  LET plain == IF e.op = "atom" THEN [text |-> <<[is |-> "atom", atom |-> e]>>, priority |-> 0]
               ELSE [text |-> Printed(e.op, [i \in DOMAIN e.args |-> Encoded(e.args[i], Expected(e, i))]),
                     priority |-> Priority(e.op)]
      type  == ValueType(e)
  IN  IF ~Converts(expected, type) THEN plain
      ELSE [text |-> <<[is |-> "conversion", to |-> ConvertedTo(expected, type), text |-> plain.text]>>,
            priority |-> 0]

-----------------------------------------------------------------------------
(* What C++ reads: the last of the loosest operators has what is before it and
   what is after it as operands. *)
RECURSIVE Reading(_)
Reading(text) ==
  LET signs    == {i \in DOMAIN text : text[i].is = "operator" /\ text[i].op \in BinaryOperators}
      loosest  == {i \in signs : \A j \in signs : Priority(text[j].op) <= Priority(text[i].op)}
      last     == Max(loosest)
      item     == text[1]
  IN  IF signs # {} THEN Operator(text[last].op, <<Reading(SubSeq(text, 1, last - 1)),
                                                 Reading(SubSeq(text, last + 1, Len(text)))>>)
      ELSE CASE item.is = "operator"   -> Operator(item.op, <<Reading(Tail(text))>>)
             [] item.is = "atom"       -> item.atom
             [] item.is = "group"      -> Reading(item.text)
             [] item.is = "conversion" -> Conversion(item.to, Reading(item.text))
             [] item.is = "error"      -> Atom("error")

(* What the flow says: the tree, with conversions where types differ. *)
RECURSIVE Meaning(_, _)
Meaning(e, expected) ==
  LET plain == IF e.op = "atom" THEN e
               ELSE Operator(e.op, [i \in DOMAIN e.args |-> Meaning(e.args[i], Expected(e, i))])
  IN  IF Converts(expected, ValueType(e)) THEN Conversion(expected, plain) ELSE plain

RECURSIVE Subexpressions(_)
Subexpressions(e) == {e} \union UNION {Subexpressions(e.args[i]) : i \in DOMAIN e.args}

(* A right operand with an operator of the same priority: its parentheses are
   lost. *)
Regrouped(e) ==
  \E s \in Subexpressions(e) :
    s.op \in BinaryOperators /\ s.args[2].op \in BinaryOperators
      /\ Priority(s.args[2].op) = Priority(s.op)
      /\ ~Converts(Expected(s, 2), ValueType(s.args[2]))

HasConditional(e) == \E s \in Subexpressions(e) : s.op = "?:"

NumberOfString(e, expected) ==
  \/ ValueType(e) = "string" /\ Converts(expected, "string")
  \/ \E s \in Subexpressions(e) : \E i \in DOMAIN s.args :
       ValueType(s.args[i]) = "string" /\ Converts(Expected(s, i), "string")

(* The text is the expression, but for the three kinds it is not. *)
Kept(e, expected) ==
  (Reading(Encoded(e, expected).text) = Meaning(e, expected))
    \equiv ~(Regrouped(e) \/ HasConditional(e) \/ NumberOfString(e, expected))
=============================================================================
