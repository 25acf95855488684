-------------------------------- MODULE Loops --------------------------------
(***************************************************************************)
(* Dimensions and loops: update_dimensions(), get_field_refs_r(),          *)
(* fldx_mname(), the loop instructions of compile_flow_graph() and         *)
(* populate_message(), and the indices cpp_var() of gc-server.C writes for *)
(* them.                                                                   *)
(*                                                                         *)
(* A value is a literal, an operator with arguments, a message with fields *)
(* or a reference, which has the label of a node, or that of the input,    *)
(* and a path of fields.  The dimension of a value is the number of        *)
(* repeated fields that are passed to get there, and that of a label is    *)
(* how deep the vector is that keeps the results of its nodes.             *)
(***************************************************************************)
EXTENDS Integers, Sequences, FiniteSets, FiniteSetsExt, SequencesExt

Literal == [op |-> "literal"]
Reference(label, path) == [op |-> "ref", label |-> label, path |-> path]
Operation(op, args) == [op |-> op, args |-> args]
Message(fields) == [op |-> "message", fields |-> fields]

RepeatedIn(path) == SelectSeq([i \in DOMAIN path |-> i], LAMBDA i : path[i].repeated)
Highest(S) == Max(S \union {0})

(* update_dimensions(): the dimension of a value, given those of the labels.
   That of a conditional expression is the one of its branches. *)
RECURSIVE Dimension(_, _)
Dimension(v, dims) ==
  LET of(i) == Dimension(v.args[i], dims)
  IN  CASE v.op = "literal" -> 0
        [] v.op = "ref"     -> dims[v.label] + Len(RepeatedIn(v.path))
        [] v.op = "message" ->
             Highest({Dimension(v.fields[i].value, dims) - (IF v.fields[i].repeated THEN 1 ELSE 0) :
                        i \in DOMAIN v.fields})
        [] v.op = "#"       -> Highest({of(1) - 1})
        [] v.op = "sum"     -> Highest({of(i) : i \in DOMAIN v.args}) - 1
        [] v.op = "?:"      -> Highest({of(2), of(3)})
        [] OTHER            -> Highest({of(i) : i \in DOMAIN v.args})

(* get_field_refs_r(): the references of a value, each with the dimension that
   the node has to loop over: what is left by the repeated fields and the
   functions it is in. *)
RECURSIVE FieldRefs(_, _, _)
FieldRefs(v, taken, dims) ==
  CASE v.op = "literal" -> {}
    [] v.op = "ref"     -> {[ref |-> v, left |-> Dimension(v, dims) - taken]}
    [] v.op = "message" -> UNION {FieldRefs(f.value, taken + (IF f.repeated THEN 1 ELSE 0), dims) :
                                    f \in Range(v.fields)}
    [] OTHER            -> UNION {FieldRefs(v.args[i], taken + (IF v.op \in {"#", "sum"} THEN 1 ELSE 0),
                                            dims) : i \in DOMAIN v.args}

(* fldx_mname(): the container the level-th index of a reference is into: the
   results of the node, or a repeated field of its path. *)
Container(ref, level, dims) ==
  LET inPath == level - dims[ref.label]
  IN  [label |-> ref.label, level |-> level,
       path |-> IF inPath > 0 THEN SubSeq(ref.path, 1, RepeatedIn(ref.path)[inPath]) ELSE <<>>]

(* The container as an expression: with the indices into those around it. *)
Stem(ref, indices, level, dims) ==
  [container |-> Container(ref, level, dims), indices |-> SubSeq(indices, 1, level - 1)]

(* A bug the checks must notice: the number of the index is always used. *)
CountedIndex(loops, stem, count) == count

(* cpp_var(): the index into a repeated field is that of the innermost loop
   over that field, if there is one.  Results are indexed by their position. *)
IndexOf(loops, stem, count) ==
  LET over == {l \in DOMAIN loops : stem \in loops[l]}
  IN  IF stem.container.path = <<>> \/ over = {} THEN count ELSE Max(over)

Indices(ref, levels, loops, dims) ==
  FoldLeft(LAMBDA ix, i : Append(ix, IndexOf(loops, Stem(ref, ix, i, dims), i)),
           <<>>, [i \in 1 .. levels |-> i])

(* The sizes a loop is bounded by: of those references that have the level. *)
LoopOver(refs, level, least, loops, dims) ==
  {Stem(r.ref, Indices(r.ref, level - 1, loops, dims), level, dims) :
     r \in {q \in refs : q.left >= least /\ q.left > 0}}

(* NLP and LPC: the loops of a node, one for each of its dimensions. *)
NodeLoops(refs, dimension, dims) ==
  FoldLeft(LAMBDA loops, i : Append(loops, LoopOver(refs, i, i, loops, dims)),
           <<>>, [i \in 1 .. dimension |-> i])

-----------------------------------------------------------------------------
(* An access: a reference with the number of its indices that are written, the
   loops around it, and what each index variable stays below: that of a loop
   below the sizes of the loop. *)
Access(ref, levels, loops, below) ==
  [ref |-> ref, levels |-> levels, loops |-> loops, below |-> below]

(* The sizes a reducing function runs over (STOL, DACC): the last containers of
   the references in its argument. *)
ReducedSizes(arg, loops, dims) ==
  {Stem(r.ref, Indices(r.ref, r.left - 1, loops, dims), r.left, dims) :
     r \in {q \in FieldRefs(arg, 0, dims) : q.left > 0}}

(* # reads the size of what is left of the mangled name of its reference without
   the last character.  That drops the index into a vector of results or a repeated
   field; a field that holds one value has no index to drop. *)
CountsVector(ref) == ref.path = <<>> \/ Last(ref.path).repeated
SizeLevels(ref, dims) ==
  IF CountsVector(ref) THEN Highest({Dimension(ref, dims) - 1}) ELSE Dimension(ref, dims)

(* encode_expression(): the accesses of an expression.  The index of a reducing
   function is the variable of its argument's dimension. *)
RECURSIVE Accesses(_, _, _, _)
Accesses(v, loops, below, dims) ==
  CASE v.op = "literal" -> {}
    [] v.op = "ref"     -> {Access(v, Dimension(v, dims), loops, below)}
    [] v.op = "#"       -> {Access(v.args[1], SizeLevels(v.args[1], dims), loops, below)}
    [] v.op = "sum"     ->
         LET index == Dimension(v.args[1], dims)
         IN  {Access(r.ref, r.left - 1, loops, below) : r \in FieldRefs(v.args[1], 0, dims)}
               \union Accesses(v.args[1], loops,
                               [i \in DOMAIN below \union {index} |->
                                  IF i = index THEN ReducedSizes(v.args[1], loops, dims) ELSE below[i]],
                               dims)
    [] OTHER            -> UNION {Accesses(v.args[i], loops, below, dims) : i \in DOMAIN v.args}

(* populate_message(): a repeated field is filled in a loop of its own (LOOP,
   LPC, BLP), over what its value has at its dimension. *)
RECURSIVE Populated(_, _, _)
Populated(v, loops, dims) ==
  IF v.op # "message" THEN Accesses(v, loops, loops, dims)
  ELSE UNION {
    LET d    == Dimension(f.value, dims)
        refs == {r \in FieldRefs(f.value, 0, dims) : r.left >= d /\ r.left > 0}
    IN  IF ~f.repeated THEN Populated(f.value, loops, dims)
        ELSE {Access(r.ref, d - 1, loops, loops) : r \in refs}
               \union Populated(f.value, Append(loops, LoopOver(refs, d, d, loops, dims)), dims) :
    f \in Range(v.fields)}

(* All accesses of a node: in the sizes of its loops, its condition, its message. *)
NodeAccesses(body, condition, dimension, dims) ==
  LET refs  == FieldRefs(body, 0, dims) \union FieldRefs(condition, 0, dims)
      loops == NodeLoops(refs, dimension, dims)
  IN  UNION {{Access(r.ref, i - 1, SubSeq(loops, 1, i - 1), SubSeq(loops, 1, i - 1)) :
                r \in {q \in refs : q.left >= i}} : i \in 1 .. dimension}
        \union Accesses(condition, loops, loops, dims) \union Populated(body, loops, dims)

(* Every index is below the size of what it is an index into. *)
InBounds(a, dims) ==
  LET ix == Indices(a.ref, a.levels, a.loops, dims)
  IN  \A i \in 1 .. a.levels :
        ix[i] \in DOMAIN a.below /\ Stem(a.ref, ix, i, dims) \in a.below[ix[i]]

-----------------------------------------------------------------------------
(* The repeated fields of a message, with the number of the loop they get, and
   the arguments of its reducing functions, with whether they are in such a
   field. *)
RECURSIVE RepeatedFields(_, _)
RepeatedFields(v, level) ==
  IF v.op # "message" THEN {}
  ELSE UNION {IF f.repeated
              THEN {[value |-> f.value, level |-> level + 1]} \union RepeatedFields(f.value, level + 1)
              ELSE RepeatedFields(f.value, level) : f \in Range(v.fields)}

RECURSIVE Reductions(_, _)
Reductions(v, inside) ==
  CASE v.op \in {"literal", "ref"} -> {}
    [] v.op = "message" ->
         UNION {Reductions(f.value, inside \/ f.repeated) : f \in Range(v.fields)}
    [] OTHER ->
         {[value |-> v.args[i], inside |-> inside] : i \in {1} \cap {j \in DOMAIN v.args : v.op = "sum"}}
           \union UNION {Reductions(v.args[i], inside) : i \in DOMAIN v.args}

(* One loop for references of different dimensions: it is only bounded by
   those of the highest. *)
MixedDepths(v, dims) ==
  \E c \in {f.value : f \in RepeatedFields(v, 0) \union Reductions(v, FALSE)} :
    \E r \in FieldRefs(c, 0, dims) : 0 < r.left /\ r.left < Dimension(c, dims)

(* Results of nodes in a loop that does not have the number of their position. *)
ShiftedResults(v, dims) ==
  \E f \in RepeatedFields(v, Dimension(v, dims)) :
    LET d == Dimension(f.value, dims)
    IN  d > 0 /\ d # f.level /\ \E r \in FieldRefs(f.value, 0, dims) : dims[r.ref.label] >= d

(* The index of a reducing function hides that of a loop around it. *)
HiddenIndex(v, dims) ==
  \E f \in Reductions(v, FALSE) : f.inside /\ Dimension(f.value, dims) > 1

(* The references whose size is asked for. *)
RECURSIVE Counted(_)
Counted(v) ==
  CASE v.op \in {"literal", "ref"} -> {}
    [] v.op = "message" -> UNION {Counted(f.value) : f \in Range(v.fields)}
    [] v.op = "#"       -> {v.args[1]}
    [] OTHER            -> UNION {Counted(a) : a \in Range(v.args)}

Aligned(v, dims) == ~(MixedDepths(v, dims) \/ ShiftedResults(v, dims) \/ HiddenIndex(v, dims))
=============================================================================
