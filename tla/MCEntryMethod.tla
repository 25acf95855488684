--------------------------- MODULE MCEntryMethod ----------------------------
(* A request through two stages, the first of two nodes, or two through one stage
   of one node; the addresses of the first node change. *)
EXTENDS EntryMethod, TLC

CONSTANTS e1, e2, n1, n2, n3, host, ip1, ip2

Fixed(maxcc) == StubsFor({[host |-> "fixed", port |-> 1]}, {}, maxcc, <<>>)
Found(ips)   == StubsFor({}, {[host |-> host, port |-> 1]}, 1, host :> ips)

MCEntries == {e1, e2}
MCNodes   == {n1, n2, n3}
OneNode  == << <<n1>> >>
TwoStages == << <<n1, n2>>, <<n3>> >>
MCStubSets == n1 :> {Found({ip1}), {}} @@ n2 :> {Fixed(1)} @@ n3 :> {Found({ip1, ip2})}
Symmetry == Permutations(MCEntries)
OneAddress == n1 :> {Found({ip1})} @@ n2 :> {{}} @@ n3 :> {{}}
MaxccOne == n1 :> {Fixed(1)} @@ n2 :> {{}} @@ n3 :> {{}}
=============================================================================
