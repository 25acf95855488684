----------------------------- MODULE Connector ------------------------------
(***************************************************************************)
(* The threads that share one connector.  A caller is one element of a     *)
(* ConN vector of a generated method, or the local ConN of a blocking      *)
(* call: it asks for a stub, makes its RPC on it and gives it back.  Each  *)
(* method holds the mutex `allocator' from its first line to its last, so  *)
(* each is one step; everything else is the order in which threads call.   *)
(***************************************************************************)
EXTENDS ConnectorOps, FiniteSets

CONSTANTS
  Stubs,     \* the stubs the connector was constructed with
  Callers,   \* the calls that may be in progress at a time
  MaxDrops   \* bound: how often each stub is dropped

ASSUME StubsAssumption == IsFiniteSet(Stubs) /\ Stubs # {} /\ NoConn \notin Stubs
ASSUME CallersAssumption == IsFiniteSet(Callers)
ASSUME MaxDropsAssumption == MaxDrops \in Nat

VARIABLES
  connector,             \* the pool
  ConN,                  \* connection number of every caller
  accumulate_addresses,  \* the configuration flag, read once at startup
  drops                  \* history: how often every stub has been dropped

vars == <<connector, ConN, accumulate_addresses, drops>>

Init ==
  /\ connector = NewConnector(Stubs)
  /\ ConN = [c \in Callers |-> NoConn]
  /\ accumulate_addresses \in BOOLEAN
  /\ drops = [s \in Stubs |-> 0]

(***************************************************************************)
(* stub(): a caller without a connection gets a least used stub.           *)
(***************************************************************************)
Stub(c) ==
  /\ ConN[c] = NoConn
  /\ \E s \in LeastActive(connector) :
       /\ connector' = Allocate(connector, s)
       /\ ConN' = [ConN EXCEPT ![c] = s]
  /\ UNCHANGED <<accumulate_addresses, drops>>

(***************************************************************************)
(* finished(): the caller's RPC is over, in_error when it ended            *)
(* UNAVAILABLE.                                                            *)
(***************************************************************************)
Finished(c, in_error) ==
  /\ ConN[c] # NoConn
  /\ LET s       == ConN[c]
         dropped == Drops(s, in_error, accumulate_addresses)
     IN  /\ dropped => drops[s] < MaxDrops
         /\ connector' = Finish(connector, s, dropped)
         /\ drops' = [drops EXCEPT ![s] = @ + (IF dropped THEN 1 ELSE 0)]
  /\ ConN' = [ConN EXCEPT ![c] = NoConn]
  /\ UNCHANGED accumulate_addresses

Next == \E c \in Callers : Stub(c) \/ \E in_error \in BOOLEAN : Finished(c, in_error)

Spec == Init /\ [][Next]_vars

(***************************************************************************)
(* Properties.                                                             *)
(***************************************************************************)
Holders(s) == {c \in Callers : ConN[c] = s}
Busy       == {c \in Callers : ConN[c] # NoConn}

TypeOK ==
  /\ connector \in [active : [Stubs -> Int], total_active : Int]
  /\ ConN \in [Callers -> Stubs \union {NoConn}]
  /\ accumulate_addresses \in BOOLEAN
  /\ drops \in [Stubs -> Nat]

(* Whatever the interleaving of stub() and finished(), the count of a stub
   is the number of calls that hold it, less the penalties it took, and
   total_active is the number of calls holding any stub: no call is counted
   twice and none is forgotten. *)
Accounting ==
  /\ connector.total_active = Cardinality(Busy)
  /\ \A s \in Stubs :
       connector.active[s] = Cardinality(Holders(s)) - Penalty * drops[s]

(* As long as no stub is dropped, choosing a least used stub keeps every stub
   at most at its even share, rounded up, of the calls that can be in
   progress, in whatever order calls end. *)
EvenShare ==
  (\A s \in Stubs : drops[s] = 0) =>
     \A s \in Stubs :
       (Cardinality(Holders(s)) - 1) * Cardinality(Stubs) < Cardinality(Callers)

(* "Mark with a very high count so it won't be allocated anymore": a stub
   that was dropped is not handed out while there is one that was not. *)
DroppedNotAllocated ==
  [][\A c \in Callers : \A s \in Stubs :
       ConN[c] # s /\ ConN'[c] = s /\ drops[s] > 0
         => \A t \in Stubs : drops[t] > 0]_vars
=============================================================================
