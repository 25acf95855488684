----------------------------- MODULE Templates ------------------------------
(***************************************************************************)
(* What the templates are made of that vex expands and all artefacts are   *)
(* written from.  A template is a sequence of tokens: text, references to  *)
(* variables, beginnings of loops and conditional blocks, and ends of      *)
(* blocks.  What looks like the beginning of a block but has no end is text. *)
(*                                                                         *)
(* Variables are kept in dictionaries, from a name to the sequence of its   *)
(* values; earlier dictionaries hide later ones.                            *)
(***************************************************************************)
EXTENDS Integers, Sequences

Text(t)           == [is |-> "text", text |-> t]
Ref(names)        == [is |-> "ref", names |-> names, default |-> <<>>]
RefOr(names, d)   == [is |-> "ref", names |-> names, default |-> <<Text(d)>>]
If(label, terms)  == [is |-> "if", label |-> label, terms |-> terms]     \* an or of ands
Loop(label, counter, names, given, start) ==
  [is |-> "loop", label |-> label, counter |-> counter, names |-> names, given |-> given,
   start |-> start]
LoopOf(label, name) == Loop(label, "first", <<name>>, <<>>, 1)
End(label)        == [is |-> "end", label |-> label]

(* A template can be written as a tree: the body of a block is a template. *)
Block(m, body) == [is |-> "block", begin |-> m, body |-> body]
=============================================================================
