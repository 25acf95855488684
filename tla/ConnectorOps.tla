---------------------------- MODULE ConnectorOps ----------------------------
(***************************************************************************)
(* The connection pool of one node: class connector<CSERVICE> of           *)
(* template.server.C.  A connector value keeps, for every stub of the      *)
(* vector `stubs', the count in field 0 of its tuple (`active') and the    *)
(* sum `total_active'.  Every operator is the body of one method, executed *)
(* under the connector's own mutex `allocator': one atomic step.           *)
(*                                                                         *)
(* A stub is a record [ep, ip, copy]: the endpoint it was made for, the IP *)
(* it connects to (NoIp for a fixed endpoint, whose ipaddr is the empty    *)
(* string) and which of the maxcc copies it is.                            *)
(***************************************************************************)
EXTENDS Integers

CONSTANTS
  NoIp,      \* the empty ipaddr of a stub for a fixed endpoint
  NoPort,    \* the port of an endpoint without a colon
  NoConn,    \* the connection number -1
  Penalty    \* what finished() takes off the count of a dropped stub: 100000

ASSUME PenaltyAssumption == Penalty \in Nat \ {0}

(* The stubs the constructor makes: maxcc for every fixed endpoint, but only
   one once any name has been resolved, and one for every address of every
   looked up endpoint [host, port] that has a port and an entry in the
   partial function `addresses'. *)
StubsFor(fendpoints, dendpoints, maxcc, addresses) ==
  LET copies == IF DOMAIN addresses = {} THEN maxcc ELSE 1
      usable == {e \in dendpoints : e.port # NoPort /\ e.host \in DOMAIN addresses}
  IN  [ep : fendpoints, ip : {NoIp}, copy : 1 .. copies]
        \union UNION {[ep : {e}, ip : addresses[e.host], copy : {1}] : e \in usable}

(* A bug the checks must notice: stubs are made for fixed endpoints only. *)
NewConnectorFixedOnly(S) ==
  [active |-> [s \in {x \in S : x.ip = NoIp} |-> 0], total_active |-> 0]

(* A connector over the stubs S, none of them in use. *)
NewConnector(S) == [active |-> [s \in S |-> 0], total_active |-> 0]

(* The vector `stubs'; count() is its size. *)
StubsOf(c) == DOMAIN c.active

(* A bug the checks must notice: the stubs are not sorted by count. *)
AnyStub(c) == StubsOf(c)

(* The stubs that can come first when activity_index is sorted by count:
   the sort does not order stubs with equal counts. *)
LeastActive(c) ==
  {s \in StubsOf(c) : \A t \in StubsOf(c) : c.active[s] <= c.active[t]}

(* stub(): the effect of handing out s. *)
Allocate(c, s) ==
  [active       |-> [c.active EXCEPT ![s] = @ + 1],
   total_active |-> c.total_active + 1]

(* finished(): whether the stub is dropped, that is marked and its address
   handed to casd::remove_address(). *)
Drops(s, in_error, accumulate_addresses) ==
  in_error /\ accumulate_addresses /\ s.ip # NoIp

(* A bug the checks must notice: total_active is left alone. *)
FinishKeepsTotal(c, s, dropped) ==
  [c EXCEPT !.active[s] = @ - 1 - (IF dropped THEN Penalty ELSE 0)]

(* finished(): the effect of giving s back, dropped or not. *)
Finish(c, s, dropped) ==
  [active       |-> [c.active EXCEPT ![s] =
                       @ - 1 - (IF dropped THEN Penalty ELSE 0)],
   total_active |-> c.total_active - 1]
=============================================================================
