----------------------------- MODULE MCFlowGraph ----------------------------
(* All flows of three nodes of which the first two are alternates, and all of
   four nodes in which each refers to at most one. *)
EXTENDS FlowGraph

MCNodes == 1 .. 4
MCEntry == 5

Refs(of12, of3, of4, ofEntry) ==
  {<<r1, r2, r3, r4, e>> : r1 \in of12, r2 \in of12, r3 \in of3, r4 \in of4, e \in ofEntry}

AnyOne == {{Input}, {1}, {2}, {3}, {4}}
AnyLabel == {{Input}, {1}, {3}, {1, 3}}
AlternateRefs == Refs(AnyLabel, AnyLabel, {{}}, {{1}, {1, 3}})
OneByOneRefs == Refs(AnyOne, AnyOne, AnyOne, {{1}, {1, 2}})

Conditions(conditional) ==
  {k \in [MCNodes -> {{}, {Input}, {1}, {3}}] :
     \A n \in MCNodes : conditional[n] \equiv k[n] # {}}

WithAlternates ==
  UNION {{[first |-> <<1, 1, 3, 4>>, conditional |-> conditional,
           condition |-> k, refs |-> r] : k \in Conditions(conditional), r \in AlternateRefs} :
         conditional \in {<<TRUE, FALSE, FALSE, FALSE>>, <<FALSE, TRUE, FALSE, FALSE>>,
                          <<TRUE, TRUE, FALSE, FALSE>>, <<FALSE, FALSE, FALSE, FALSE>>}}

OneByOne ==
  {[first |-> <<1, 2, 3, 4>>, conditional |-> [n \in MCNodes |-> FALSE],
    condition |-> [n \in MCNodes |-> {}], refs |-> r] :
     r \in OneByOneRefs}

MCFlows == WithAlternates \union OneByOne
=============================================================================
