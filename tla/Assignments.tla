---------------------------- MODULE Assignments -----------------------------
(***************************************************************************)
(* Assignments to fields of messages: what populate_message() accepts, and *)
(* the conversion it writes, when the right side is a field or a literal.  *)
(*                                                                         *)
(* A type is one of protobuf, with one type for all integers of a width.   *)
(* Two enumerations stand for all: "colour" and "shade", whose numbers     *)
(* are a part of those of the first.                                       *)
(***************************************************************************)
EXTENDS Integers, Sequences, FiniteSets

Integer == {"int32", "int64", "bool"}
Floating == {"float", "double"}
Enumeration == {"colour", "shade"}
FieldTypes == Integer \union Floating \union Enumeration \union {"string"}

Numbers(enum) == IF enum = "colour" THEN {0, 1, 2} ELSE {0, 1}

(* The type the compiler computes with: grpc_type_to_ftk(). *)
BasicType(t) ==
  CASE t \in Integer     -> "int"
    [] t \in Floating    -> "float"
    [] t \in Enumeration -> "enum"
    [] OTHER             -> "string"

TypeSize(t) ==
  CASE t \in {"int64", "double"}                -> 8
    [] t \in {"int32", "float"} \union Enumeration -> 4
    [] t = "bool"                               -> 1
    [] OTHER                                    -> 100

(* check_assign(): only an enumeration refuses. *)
CheckAssign(left, right) ==
  CASE BasicType(left) = BasicType(right)                  -> "same"
    [] left \in {"string", "bool"}
         \/ TypeSize(left) > TypeSize(right)               -> "wider"
    [] left \in Enumeration                                -> "refused"
    [] OTHER                                               -> "lossy"

(* From one enumeration to another, all numbers of the first must be there. *)
Accepted(left, right) ==
  /\ CheckAssign(left, right) # "refused"
  /\ left \in Enumeration /\ right \in Enumeration => Numbers(right) \subseteq Numbers(left)

(* A bug the checks must notice: left and right change places. *)
ConversionReversed(right, left) ==
  IF BasicType(right) = "enum" /\ BasicType(left) # "enum" THEN <<>>
  ELSE IF right = left /\ left \notin Enumeration THEN <<>>
  ELSE <<BasicType(left), BasicType(right)>>

(* get_conv_op(): the type a conversion is made for and the one it makes, as in
   CO and two letters, or none.  There is none to an enumeration but from one,
   and to a Boolean there is one from every type. *)
ConversionOf(right, left) ==
  IF BasicType(left) = "enum" /\ BasicType(right) # "enum" THEN <<>>
  ELSE IF right = left /\ left \notin Enumeration \union {"bool"} THEN <<>>
  ELSE <<BasicType(right), IF left = "bool" THEN "bool" ELSE BasicType(left)>>

(* What gc_server_method() makes of it: a value of this type. *)
ValueOf(op, right, left) ==
  IF op = <<>> THEN right
  ELSE IF op[2] \in {"bool", "string"} THEN op[2] ELSE left

(* C++ lets numbers and Booleans be assigned to each other, an enumeration to
   those, and otherwise only a type to itself. *)
Compiles(from, to) == from = to \/ (to \in Integer \union Floating /\ from # "string")

(* populate_message() with a literal: the type of what is written.  A string
   for a number is reported but not counted as an error, and nothing is written
   for it. *)
WrittenLiteral(left, lit) ==
  CASE left = "string"      -> "string"
    [] left = "bool"        -> "bool"
    [] left \in Enumeration ->
         IF (lit.type = "string" /\ lit.names = left) \/ (lit.type # "string" /\ lit.number \in Numbers(left))
         THEN left ELSE "refused"
    [] OTHER                -> IF lit.type = "string" THEN "nothing" ELSE lit.type

-----------------------------------------------------------------------------
(* The conversion is one for the type of the right side, and C++ takes the
   result.  A Boolean is accepted for an enumeration for which there is none. *)
FieldConverts(left, right) ==
  LET op == ConversionOf(right, left)
  IN  Accepted(left, right) /\ ~(left \in Enumeration /\ right = "bool") =>
        /\ op # <<>> => op[1] = BasicType(right)
        /\ Compiles(ValueOf(op, right, left), left)

LiteralConverts(left, lit) ==
  LET written == WrittenLiteral(left, lit)
  IN  written # "refused" /\ ~(lit.type = "string" /\ BasicType(left) \in {"int", "float"} /\ left # "bool") =>
        Compiles(written, left)
=============================================================================
