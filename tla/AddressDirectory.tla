-------------------------- MODULE AddressDirectory --------------------------
(***************************************************************************)
(* What the address watcher and the versioned caches of the nodes promise  *)
(* together: there is one directory of address lists, it changes at some   *)
(* moments, and whoever asks for the connector of a node gets one built    *)
(* from the lists as they are at that moment - all of them, never a mix of *)
(* old and new ones.                                                       *)
(***************************************************************************)
CONSTANTS
  Dnames,    \* the names that are looked up
  Ips,       \* the addresses a lookup can produce
  Nodes,     \* the client nodes
  dnames,    \* the names each node depends on
  Unknown    \* in place of an address list: never looked up successfully

VARIABLES
  listing,   \* the address list of every name
  seen,      \* the lists the current connector of each node was built from
  asked      \* flips whenever a node's connector is asked for

vars == <<listing, seen, asked>>

Lists == [Dnames -> (SUBSET Ips) \union {Unknown}]

Init ==
  /\ listing = [d \in Dnames |-> Unknown]
  /\ seen = [n \in Nodes |-> listing]
  /\ asked = [n \in Nodes |-> FALSE]

(* A name that was looked up once has a list from then on. *)
Relist ==
  /\ listing' \in Lists
  /\ \A d \in Dnames : listing'[d] = Unknown => listing[d] = Unknown
  /\ UNCHANGED <<seen, asked>>

Ask(n) ==
  /\ seen' = [seen EXCEPT ![n] =
                [d \in Dnames |-> IF d \in dnames[n] THEN listing[d] ELSE Unknown]]
  /\ asked' = [asked EXCEPT ![n] = ~@]
  /\ UNCHANGED listing

Next == Relist \/ \E n \in Nodes : Ask(n)

Spec == Init /\ [][Next]_vars
=============================================================================
