--------------------------- MODULE MCAddressStore ---------------------------
(* Two nodes that share a name; one of them has a second name. *)
EXTENDS AddressStore, TLC

CONSTANTS n1, n2, d1, d2, ip1, ip2

MCDnames == {d1, d2}
MCIps    == {ip1, ip2}
MCNodes  == {n1, n2}
MCdnames == n1 :> {d1} @@ n2 :> {d1, d2}
=============================================================================
