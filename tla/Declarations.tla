---------------------------- MODULE Declarations ----------------------------
(***************************************************************************)
(* What flow_compiler does with the declarations of the nodes before it    *)
(* looks at what they compute: fixup_node_ids() names them, and            *)
(* fixup_proto_refs() gives them the type of their result.                 *)
(*                                                                         *)
(* Nodes are the numbers of a sequence of declarations, in the order of    *)
(* the source: the label; the ids given to it, as label.id or in "id"      *)
(* elements, which are positive numbers; and how its action is written:    *)
(* "output" with a method, whose result has the type, "return" with a      *)
(* type, "plain" without one, or "none" at all.                            *)
(***************************************************************************)
EXTENDS Integers, Sequences, FiniteSetsExt, SequencesExt

Group(ds, n) == {m \in DOMAIN ds : ds[m].label = ds[n].label}

(* More than one id, in whatever form, is a redefinition. *)
Redefined(d) == Len(d.ids) > 1

Given(d) == IF d.ids = <<>> THEN 0 ELSE d.ids[1]

(* The second node of a label with the same id is an illegal reuse. *)
Reused(ds) ==
  \E n \in DOMAIN ds : \E m \in Group(ds, n) :
    m < n /\ Given(ds[n]) # 0 /\ Given(ds[m]) = Given(ds[n])

NamesRejected(ds) == Reused(ds) \/ \E n \in DOMAIN ds : Redefined(ds[n])

GivenIds(ds) == [n \in DOMAIN ds |-> Given(ds[n])]

(* The nodes that share their label and have no id yet. *)
Unnamed(ds, ids) == {n \in DOMAIN ds : ids[n] = 0 /\ Cardinality(Group(ds, n)) > 1}

(* The first id that no node of the label has, of as many as there are nodes. *)
FirstFree(ds, ids, n) ==
  Min({i \in 1 .. Len(ds) : \A m \in Group(ds, n) : ids[m] # i})

-----------------------------------------------------------------------------
Typed(ds, n) == {m \in Group(ds, n) : ds[m].action \in {"output", "return"}}

(* Nodes that say no type have that of the first of their label that does;
   all that do must say the same, and one of them has to. *)
TypesRejected(ds) ==
  \E n \in DOMAIN ds : Cardinality({ds[m].type : m \in Typed(ds, n)}) # 1

ResultType(ds, n) ==
  IF n \in Typed(ds, n) THEN ds[n].type ELSE ds[Min(Typed(ds, n))].type

(* The nodes that call a method; the others copy what they build. *)
Calls(ds) == {n \in DOMAIN ds : ds[n].action = "output"}
=============================================================================
