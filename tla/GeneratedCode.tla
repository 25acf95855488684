---------------------------- MODULE GeneratedCode ----------------------------
(***************************************************************************)
(* What the code the compiler wrote does with values: the loops of its     *)
(* nodes and messages, and the text of its expressions.                    *)
(***************************************************************************)
EXTENDS Compiler, Loops, Expressions

NodeInLoops(c) ==
  LET b == source.nodes[c.node]
  IN  \A a \in NodeAccesses(b.body, b.condition, dims[Label(c.node)], dims) : InBounds(a, dims)
ReplyInLoops == \A a \in Populated(source.reply.body, <<>>, dims) : InBounds(a, dims)

CountsVectors(body) == \A ref \in Counted(body) : CountsVector(ref)

(* No index of the generated code runs past the container it is used on, in the
   loops of nodes, their messages and the reply - unless values of different
   dimensions share a loop, or a size is asked for of what is no vector: # of a
   field that is not repeated may have an index more than there are loops. *)
IndicesInLoops ==
  phase = "compiled" =>
    /\ \A c \in Code("node") :
         LET b == source.nodes[c.node]
         IN  b.action # "none" /\ Aligned(b.body, dims) /\ CountsVectors(b.body) => NodeInLoops(c)
    /\ Aligned(source.reply.body, dims) /\ CountsVectors(source.reply.body) => ReplyInLoops

(* The C++ text of an expression is read as the tree the flow had, converted
   where types differ, but for three kinds of expressions. *)
ExpressionsKept ==
  phase = "compiled" => \A x \in source.reply.expressions : Kept(x.value, x.expected)
=============================================================================
