------------------------------- MODULE Blocks -------------------------------
(***************************************************************************)
(* tree-accessors.C: what a block of the flow says.  A block is a sequence *)
(* of elements: a key, the type of the value and the value.  The value of  *)
(* an element that is a block itself is a sequence of elements.            *)
(***************************************************************************)
EXTENDS Integers, Sequences, SequencesExt, TLC

(* The value of an element is in a field that is named after its type. *)
Element(key, type, value) == (type :> value) @@ [key |-> key, type |-> type]
ValueIn(e) == e[e.type]

(* find_in_blck(), called until it finds no more. *)
FindInBlck(block, key) == SelectSeq(block, LAMBDA e : e.key = key)

(* get_block_value() of a vector: the elements of the accepted types; each
   other one is an error. *)
BlockValues(block, key, types) ==
  LET values == SelectSeq(FindInBlck(block, key), LAMBDA e : e.type \in types)
  IN  [values |-> values, errors |-> Len(FindInBlck(block, key)) - Len(values)]

(* get_block_value() of an int: the last one, if there was no error. *)
BlockValue(block, key, types) ==
  LET r == BlockValues(block, key, types)
  IN  IF r.errors > 0 \/ r.values = <<>> THEN <<>> ELSE <<Last(r.values)>>

ValueOr(found, default) == IF found = <<>> THEN default ELSE ValueIn(found[1])

(* get_block_s() and get_block_i() with a default.  A number that is asked for
   as a string is taken as it is written, and a fraction is cut off a number. *)
GetBlockS(block, key, default) == ValueOr(BlockValue(block, key, {"string"}), default)
GetBlockName(block, key, default) == ValueOr(BlockValue(block, key, {"string", "integer"}), default)
GetBlockI(block, key, default) == ValueOr(BlockValue(block, key, {"integer", "float"}), default)

(* get_nv_block(): the pairs of all blocks with a label, the last of a name; a
   value of another type is an error and skipped. *)
NvElements(block, label) ==
  FlattenSeq([k \in DOMAIN BlockValues(block, label, {"block"}).values |->
                BlockValues(block, label, {"block"}).values[k].block])
NvPairs(block, label, types) ==
  LET good == SelectSeq(NvElements(block, label), LAMBDA e : e.type \in types)
  IN  [name \in {good[k].key : k \in DOMAIN good} |->
         ValueIn(Last(SelectSeq(good, LAMBDA e : e.key = name)))]
NvErrors(block, label, types) ==
  BlockValues(block, label, {"block"}).errors
    + Len(SelectSeq(NvElements(block, label), LAMBDA e : e.type \notin types))

(* get_blck_timeout(): seconds or a text with a unit, of any type, the default
   when the last one is no time or not positive; the value of an element is in
   milliseconds. *)
GetBlckTimeout(block, default) ==
  LET all == FindInBlck(block, "timeout")
  IN  IF all = <<>> \/ Last(all).type = "block" \/ ValueIn(Last(all)) <= 0 THEN default
      ELSE ValueIn(Last(all))
=============================================================================
