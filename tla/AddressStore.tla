---------------------------- MODULE AddressStore ----------------------------
(***************************************************************************)
(* Namespace casd of template.server.C - the thread that keeps looking up  *)
(* the names of the node endpoints and the address store it fills - and    *)
(* the per node cache in front of it, X_get_connector() with X_nversion    *)
(* and the address map of X_conp.                                          *)
(*                                                                         *)
(* The store is guarded by address_store_mutex, the cache of node X by     *)
(* X_conm; `updates' and the iteration counter are written by the watcher  *)
(* alone, so all the lookups of an iteration are one step of it.  A store  *)
(* entry has version 0 while the name is not in the map: an entry is made  *)
(* in an iteration, and iterations are counted from 1.                     *)
(***************************************************************************)
EXTENDS Integers, FiniteSets

CONSTANTS
  Dnames,    \* the names (and plug-in commands) that are looked up
  Ips,       \* the addresses a lookup can produce
  Nodes,     \* the client nodes
  dnames,    \* the names each node depends on
  Unknown,   \* the name has no entry in an address map
  NoUpdate,  \* the lookup failed: nothing was pushed on updates
  loops,     \* the iterations keep_looking() is to make, 0 for no limit
  MaxIterations \* bound: the iterations that are looked at

ASSUME DnamesAssumption ==
  /\ IsFiniteSet(Dnames)
  /\ dnames \in [Nodes -> SUBSET Dnames]
ASSUME IpsAssumption == \A S \in SUBSET Ips : S # Unknown /\ S # NoUpdate
ASSUME LoopsAssumption == loops \in Nat /\ MaxIterations \in Nat

VARIABLES
  watcher,                 \* where the thread running keep_looking() is
  updates,                 \* the answers of this iteration
  address_store,           \* name -> [ips, version]
  last_changed_iteration,
  current_iteration,
  deleted_ips,
  stop_looking,
  nversion,                \* X_nversion of every node
  addresses,               \* X_conp->addresses of every node
  asked,                   \* history: flips with every X_get_connector()
  accumulate_addresses     \* the configuration flag, read once at startup

storeVars == <<address_store, last_changed_iteration, deleted_ips>>
loopVars  == <<watcher, updates, current_iteration>>
nodeVars  == <<nversion, addresses, asked>>
vars == <<storeVars, loopVars, nodeVars, stop_looking, accumulate_addresses>>

NoAddresses == [d \in Dnames |-> Unknown]

Init ==
  /\ watcher = "start"
  /\ updates = [d \in Dnames |-> NoUpdate]
  /\ address_store = [d \in Dnames |-> [ips |-> {}, version |-> 0]]
  /\ last_changed_iteration = 0
  /\ current_iteration = 0
  /\ deleted_ips = {}
  /\ stop_looking = FALSE
  /\ nversion = [n \in Nodes |-> 0]
  /\ addresses = [n \in Nodes |-> NoAddresses]
  /\ asked = [n \in Nodes |-> FALSE]
  /\ accumulate_addresses \in BOOLEAN

-----------------------------------------------------------------------------
(* The watcher. *)

(* keep_looking() up to its loop: with no names, or when the resolver cannot
   be initialized, the thread ends; otherwise iteration 1 begins. *)
StartLooking ==
  /\ watcher = "start"
  /\ \/ /\ watcher' = "finished"
        /\ UNCHANGED current_iteration
     \/ /\ Dnames # {}
        /\ watcher' = "loop"
        /\ current_iteration' = 1
  /\ UNCHANGED <<updates, storeVars, nodeVars, stop_looking, accumulate_addresses>>

(* A bug the checks must notice: stop_looking is not tested. *)
MayLoopUntilLoops == loops = 0 \/ current_iteration <= loops

(* The loop condition of keep_looking(). *)
MayLoop == (loops = 0 \/ current_iteration <= loops) /\ ~stop_looking

(* One round of lookups, those of c-ares and those of the plug-ins: every
   name is answered with a set of addresses, or fails and is left out. *)
LookUp ==
  /\ watcher = "loop" /\ MayLoop
  /\ current_iteration <= MaxIterations
  /\ updates' \in [Dnames -> (SUBSET Ips) \union {NoUpdate}]
  /\ watcher' = "update"
  /\ UNCHANGED <<current_iteration, storeVars, nodeVars, stop_looking, accumulate_addresses>>

LeaveLoop ==
  /\ watcher = "loop" /\ ~MayLoop
  /\ watcher' = "finished"
  /\ UNCHANGED <<updates, current_iteration, storeVars, nodeVars, stop_looking,
                 accumulate_addresses>>

(* A bug the checks must notice: only the sizes are compared. *)
SizeChanged(old, new) == Cardinality(old) # Cardinality(new)

(* update_addresses(): "changed" - the sizes differ or some address is new;
   for finite sets this is when the sets differ. *)
Changed(old, new) == old # new

(* update_addresses(): the address list after an update with ips. *)
Merge(old, ips) ==
  IF accumulate_addresses THEN old \union (ips \ deleted_ips) ELSE ips

Updated == {d \in Dnames : updates[d] # NoUpdate}

(* The names whose entry is made or changed by the answers at hand. *)
Restamped ==
  {d \in Updated : \/ address_store[d].version = 0
                   \/ Changed(address_store[d].ips,
                              Merge(address_store[d].ips, updates[d]))}

(* All the answers are applied under one lock of address_store_mutex.  (The
   code empties `updates' when the next iteration begins; nothing reads it in
   between.) *)
UpdateAddresses ==
  /\ watcher = "update"
  /\ address_store' = [d \in Dnames |->
       [ips     |-> IF d \in Updated THEN Merge(address_store[d].ips, updates[d])
                    ELSE address_store[d].ips,
        version |-> IF d \in Restamped THEN current_iteration
                    ELSE address_store[d].version]]
  /\ last_changed_iteration' =
       IF Restamped # {} THEN current_iteration ELSE last_changed_iteration
  /\ deleted_ips' = IF Updated # {} THEN {} ELSE deleted_ips
  /\ watcher' = "sleep"
  /\ updates' = [d \in Dnames |-> NoUpdate]
  /\ UNCHANGED <<current_iteration, nodeVars, stop_looking, accumulate_addresses>>

(* A bug the checks must notice: the iterations are not counted. *)
WakeUncounted ==
  /\ watcher = "sleep"
  /\ watcher' = "loop"
  /\ UNCHANGED <<updates, current_iteration, storeVars, nodeVars, stop_looking,
                 accumulate_addresses>>

(* sleep() returns and the loop counts the next iteration. *)
Wake ==
  /\ watcher = "sleep"
  /\ current_iteration' = current_iteration + 1
  /\ watcher' = "loop"
  /\ UNCHANGED <<updates, storeVars, nodeVars, stop_looking, accumulate_addresses>>

(* main() is about to join the watcher. *)
StopLooking ==
  /\ ~stop_looking
  /\ stop_looking' = TRUE
  /\ UNCHANGED <<storeVars, loopVars, nodeVars, accumulate_addresses>>

-----------------------------------------------------------------------------
(* The threads that run entries. *)

(* remove_address(), called by a connector that drops a stub: the address is
   one of those the connector was built from. *)
RemoveAddress(ip) ==
  /\ accumulate_addresses
  /\ \E n \in Nodes : \E d \in dnames[n] :
       addresses[n][d] # Unknown /\ ip \in addresses[n][d]
  /\ deleted_ips' = deleted_ips \union {ip}
  /\ UNCHANGED <<address_store, last_changed_iteration, loopVars, nodeVars,
                 stop_looking, accumulate_addresses>>

(* get_latest_addresses(): the names whose entry is newer than the cache. *)
NewerThan(n) == {d \in dnames[n] : address_store[d].version > nversion[n]}

(* A bug the checks must notice: the map is not refreshed but replaced. *)
GetConnectorNewerOnly(n) ==
  /\ IF nversion[n] = last_changed_iteration \/ NewerThan(n) = {}
     THEN UNCHANGED <<nversion, addresses>>
     ELSE \E newest \in NewerThan(n) :
            /\ nversion' = [nversion EXCEPT ![n] = address_store[newest].version]
            /\ addresses' = [addresses EXCEPT ![n] =
                 [d \in NewerThan(n) |-> address_store[d].ips]]
  /\ asked' = [asked EXCEPT ![n] = ~@]
  /\ UNCHANGED <<storeVars, loopVars, stop_looking, accumulate_addresses>>

(* X_get_connector(): when some list of the node is newer than its connector
   a new connector is built from the refreshed map. *)
GetConnector(n) ==
  /\ IF nversion[n] = last_changed_iteration \/ NewerThan(n) = {}
     THEN UNCHANGED <<nversion, addresses>>
     ELSE \E newest \in NewerThan(n) :
            /\ \A d \in NewerThan(n) :
                 address_store[d].version <= address_store[newest].version
            /\ nversion' = [nversion EXCEPT ![n] = address_store[newest].version]
            /\ addresses' = [addresses EXCEPT ![n] =
                 [d \in Dnames |-> IF d \in NewerThan(n) THEN address_store[d].ips
                                   ELSE addresses[n][d]]]
  /\ asked' = [asked EXCEPT ![n] = ~@]
  /\ UNCHANGED <<storeVars, loopVars, stop_looking, accumulate_addresses>>

-----------------------------------------------------------------------------
Watcher == StartLooking \/ LookUp \/ LeaveLoop \/ UpdateAddresses \/ Wake

Next ==
  \/ Watcher
  \/ StopLooking
  \/ \E ip \in Ips : RemoveAddress(ip)
  \/ \E n \in Nodes : GetConnector(n)

Spec == Init /\ [][Next]_vars

(* The operating system runs the watcher thread, and sleep() returns. *)
FairSpec == Spec /\ WF_vars(Watcher)

-----------------------------------------------------------------------------
(* Properties. *)

TypeOK ==
  /\ watcher \in {"start", "loop", "update", "sleep", "finished"}
  /\ updates \in [Dnames -> (SUBSET Ips) \union {NoUpdate}]
  /\ address_store \in [Dnames -> [ips : SUBSET Ips, version : Nat]]
  /\ last_changed_iteration \in Nat
  /\ current_iteration \in Nat
  /\ deleted_ips \in SUBSET Ips
  /\ stop_looking \in BOOLEAN
  /\ nversion \in [Nodes -> Nat]
  /\ addresses \in [Nodes -> [Dnames -> (SUBSET Ips) \union {Unknown}]]
  /\ asked \in [Nodes -> BOOLEAN]
  /\ accumulate_addresses \in BOOLEAN

(* The list a connector built now would get for a name. *)
Listing == [d \in Dnames |-> IF address_store[d].version = 0 THEN Unknown
                             ELSE address_store[d].ips]

(* Versions never run ahead: an entry is at most as new as the last change,
   the last change belongs to an iteration that was begun, to an earlier one
   while the answers of this one are not applied yet, and no cache is newer
   than the last change. *)
VersionsOrdered ==
  /\ \A d \in Dnames : address_store[d].version <= last_changed_iteration
  /\ \A n \in Nodes : nversion[n] <= last_changed_iteration
  /\ last_changed_iteration <= current_iteration
  /\ watcher \in {"loop", "update"} => last_changed_iteration < current_iteration

(* A cache that is at least as new as an entry holds exactly that entry's
   list: comparing versions is enough to know that nothing has to be copied,
   for every node and name and whatever the watcher is doing meanwhile. *)
CacheCoherent ==
  \A n \in Nodes : \A d \in Dnames :
    IF d \in dnames[n]
    THEN address_store[d].version <= nversion[n] => addresses[n][d] = Listing[d]
    ELSE addresses[n][d] = Unknown

(* What finished() says of a stub it drops, "so it won't be allocated anymore":
   an address it reported is forgotten by the store no sooner than it is in no
   list, so that no connector built later has it again. *)
DroppedGo ==
  [][\A ip \in deleted_ips \ deleted_ips' :
       \A d \in Dnames : ip \notin address_store'[d].ips]_vars

(* The store and the caches implement the directory: a connector that is
   asked for is always built from the current lists of all its names. *)
Directory == INSTANCE AddressDirectory WITH
               listing <- Listing, seen <- addresses, asked <- asked
ImplementsDirectory == Directory!Spec

(* main() can join the watcher: once told to stop it leaves its loop. *)
WatcherStops == stop_looking ~> watcher = "finished"
=============================================================================
