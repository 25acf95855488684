---------------------------- MODULE MCConnector -----------------------------
(* One connector with two looked up stubs and a fixed one. *)
EXTENDS Connector, TLC

CONSTANTS host, ip1, ip2, c1, c2, c3, c4

MCStubs ==
  StubsFor({[host |-> "fixed", port |-> 1]}, {[host |-> host, port |-> 1]}, 2,
           host :> {ip1, ip2})
MCCallers == {c1, c2, c3, c4}
Symmetry == Permutations(MCCallers) \union Permutations({ip1, ip2})
=============================================================================
