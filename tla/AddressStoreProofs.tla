------------------------- MODULE AddressStoreProofs -------------------------
(***************************************************************************)
(* Proofs about the address store for any names, addresses, nodes and      *)
(* number of iterations.  The inductive invariant is TypeOK, the order of  *)
(* the versions and the coherence of the caches; the first says why an     *)
(* update stamps entries with a version no cache has reached, the second   *)
(* why copying the newer entries makes the whole cache current.            *)
(***************************************************************************)
EXTENDS AddressStore, TLAPS

USE DnamesAssumption, IpsAssumption, LoopsAssumption

-----------------------------------------------------------------------------
(* Type correctness. *)

LEMMA MergeType ==
  ASSUME NEW old \in SUBSET Ips, NEW ips \in SUBSET Ips
  PROVE  Merge(old, ips) \in SUBSET Ips
  BY DEF Merge

LEMMA UpdatedType ==
  ASSUME TypeOK, NEW d \in Updated
  PROVE  d \in Dnames /\ updates[d] \in SUBSET Ips
<1>1. d \in Dnames /\ updates[d] # NoUpdate
  BY DEF Updated
<1>2. updates[d] \in (SUBSET Ips) \union {NoUpdate}
  BY <1>1 DEF TypeOK
<1>3. QED
  BY <1>1, <1>2, Zenon

LEMMA InitTypeOK == Init => TypeOK
<1> SUFFICES ASSUME Init PROVE TypeOK
  OBVIOUS
<1>1. updates \in [Dnames -> (SUBSET Ips) \union {NoUpdate}]
  BY DEF Init
<1>2. address_store \in [Dnames -> [ips : SUBSET Ips, version : Nat]]
  BY DEF Init
<1>3. addresses \in [Nodes -> [Dnames -> (SUBSET Ips) \union {Unknown}]]
  BY DEF Init, NoAddresses
<1>4. QED
  BY <1>1, <1>2, <1>3 DEF Init, TypeOK

LEMMA UpdateTypeOK ==
  ASSUME TypeOK, UpdateAddresses
  PROVE  TypeOK'
<1>1. ASSUME NEW d \in Dnames
      PROVE  /\ (IF d \in Updated THEN Merge(address_store[d].ips, updates[d])
                 ELSE address_store[d].ips) \in SUBSET Ips
             /\ (IF d \in Restamped THEN current_iteration
                 ELSE address_store[d].version) \in Nat
  BY MergeType, UpdatedType DEF TypeOK
<1>2. address_store' \in [Dnames -> [ips : SUBSET Ips, version : Nat]]
  BY <1>1 DEF UpdateAddresses
<1>3. last_changed_iteration' \in Nat
  BY DEF UpdateAddresses, TypeOK
<1>4. QED
  BY <1>2, <1>3 DEF UpdateAddresses, TypeOK, nodeVars

LEMMA GetConnectorTypeOK ==
  ASSUME TypeOK, NEW n \in Nodes, GetConnector(n)
  PROVE  TypeOK'
<1>1. NewerThan(n) \subseteq Dnames
  BY DEF NewerThan
<1>2. nversion' \in [Nodes -> Nat]
  BY <1>1 DEF GetConnector, TypeOK
<1>3. addresses' \in [Nodes -> [Dnames -> (SUBSET Ips) \union {Unknown}]]
  BY <1>1 DEF GetConnector, TypeOK
<1>4. asked' \in [Nodes -> BOOLEAN]
  BY DEF GetConnector, TypeOK
<1>5. QED
  BY <1>2, <1>3, <1>4 DEF GetConnector, TypeOK, storeVars, loopVars

LEMMA NextTypeOK == TypeOK /\ [Next]_vars => TypeOK'
<1> SUFFICES ASSUME TypeOK, [Next]_vars PROVE TypeOK'
  OBVIOUS
<1> USE DEF storeVars, loopVars, nodeVars
<1>1. CASE UNCHANGED vars
  BY <1>1 DEF vars, TypeOK
<1>2. CASE StartLooking
  BY <1>2 DEF StartLooking, TypeOK
<1>3. CASE LookUp
  BY <1>3 DEF LookUp, TypeOK
<1>4. CASE LeaveLoop
  BY <1>4 DEF LeaveLoop, TypeOK
<1>5. CASE UpdateAddresses
  BY <1>5, UpdateTypeOK
<1>6. CASE Wake
  BY <1>6 DEF Wake, TypeOK
<1>7. CASE StopLooking
  BY <1>7 DEF StopLooking, TypeOK
<1>8. ASSUME NEW ip \in Ips, RemoveAddress(ip) PROVE TypeOK'
  BY <1>8 DEF RemoveAddress, TypeOK
<1>9. ASSUME NEW n \in Nodes, GetConnector(n) PROVE TypeOK'
  BY <1>9, GetConnectorTypeOK
<1>10. QED
  BY <1>1, <1>2, <1>3, <1>4, <1>5, <1>6, <1>7, <1>8, <1>9 DEF Next, Watcher

(* The variables of the store and of the caches keep their types. *)
THEOREM TypeCorrect == Spec => []TypeOK
  BY InitTypeOK, NextTypeOK, PTL DEF Spec

-----------------------------------------------------------------------------
(* Versions.  The strengthening: before the first iteration all are 0. *)

Begun == watcher = "start" => last_changed_iteration = 0 /\ current_iteration = 0

VersionsInv == VersionsOrdered /\ Begun

LEMMA InitVersions == Init => VersionsInv
  BY DEF Init, VersionsInv, VersionsOrdered, Begun

LEMMA UpdateVersions ==
  ASSUME TypeOK, VersionsInv, UpdateAddresses
  PROVE  VersionsInv'
<1>1. /\ watcher = "update" /\ watcher' = "sleep"
      /\ last_changed_iteration < current_iteration
      /\ current_iteration' = current_iteration /\ nversion' = nversion
  BY DEF UpdateAddresses, VersionsInv, VersionsOrdered, nodeVars
<1>2. last_changed_iteration' = IF Restamped # {} THEN current_iteration
                                ELSE last_changed_iteration
  BY DEF UpdateAddresses
<1>3. /\ last_changed_iteration <= last_changed_iteration'
      /\ last_changed_iteration' <= current_iteration
      /\ last_changed_iteration' \in Nat
  BY <1>1, <1>2 DEF TypeOK
<1>4. \A d \in Dnames : address_store'[d].version <= last_changed_iteration'
  <2> SUFFICES ASSUME NEW d \in Dnames
               PROVE  address_store'[d].version <= last_changed_iteration'
    OBVIOUS
  <2>1. address_store'[d].version = IF d \in Restamped THEN current_iteration
                                    ELSE address_store[d].version
    BY DEF UpdateAddresses
  <2>2. CASE d \in Restamped
    BY <1>2, <2>1, <2>2 DEF TypeOK
  <2>3. CASE d \notin Restamped
    BY <1>3, <2>1, <2>3 DEF TypeOK, VersionsInv, VersionsOrdered
  <2>4. QED
    BY <2>2, <2>3
<1>5. \A n \in Nodes : nversion'[n] <= last_changed_iteration'
  BY <1>1, <1>2, <1>3 DEF TypeOK, VersionsInv, VersionsOrdered
<1>6. QED
  BY <1>1, <1>3, <1>4, <1>5 DEF VersionsInv, VersionsOrdered, Begun

LEMMA GetConnectorVersions ==
  ASSUME TypeOK, VersionsInv, NEW n \in Nodes, GetConnector(n)
  PROVE  VersionsInv'
<1>1. \A m \in Nodes : nversion'[m] <= last_changed_iteration
  BY DEF GetConnector, NewerThan, TypeOK, VersionsInv, VersionsOrdered
<1>2. QED
  BY <1>1 DEF GetConnector, VersionsInv, VersionsOrdered, Begun, storeVars, loopVars

LEMMA NextVersions == TypeOK /\ VersionsInv /\ [Next]_vars => VersionsInv'
<1> SUFFICES ASSUME TypeOK, VersionsInv, [Next]_vars PROVE VersionsInv'
  OBVIOUS
<1> USE DEF storeVars, loopVars, nodeVars
<1>1. CASE UNCHANGED vars
  BY <1>1 DEF vars, VersionsInv, VersionsOrdered, Begun
<1>2. CASE StartLooking
  BY <1>2 DEF StartLooking, VersionsInv, VersionsOrdered, Begun, TypeOK
<1>3. CASE LookUp
  BY <1>3 DEF LookUp, VersionsInv, VersionsOrdered, Begun
<1>4. CASE LeaveLoop
  BY <1>4 DEF LeaveLoop, VersionsInv, VersionsOrdered, Begun
<1>5. CASE UpdateAddresses
  BY <1>5, UpdateVersions
<1>6. CASE Wake
  BY <1>6 DEF Wake, VersionsInv, VersionsOrdered, Begun, TypeOK
<1>7. CASE StopLooking
  BY <1>7 DEF StopLooking, VersionsInv, VersionsOrdered, Begun
<1>8. ASSUME NEW ip \in Ips, RemoveAddress(ip) PROVE VersionsInv'
  BY <1>8 DEF RemoveAddress, VersionsInv, VersionsOrdered, Begun
<1>9. ASSUME NEW n \in Nodes, GetConnector(n) PROVE VersionsInv'
  BY <1>9, GetConnectorVersions
<1>10. QED
  BY <1>1, <1>2, <1>3, <1>4, <1>5, <1>6, <1>7, <1>8, <1>9 DEF Next, Watcher

(* No version runs ahead of the iteration it belongs to. *)
THEOREM VersionsOrderedHolds == Spec => []VersionsOrdered
<1>1. TypeOK /\ VersionsInv /\ [Next]_vars => VersionsInv'
  BY NextVersions
<1>2. VersionsInv => VersionsOrdered
  BY DEF VersionsInv
<1>3. QED
  BY <1>1, <1>2, InitVersions, TypeCorrect, PTL DEF Spec

(* The same for the strengthened invariant, for use below. *)
LEMMA VersionsInvHolds == Spec => []VersionsInv
  BY NextVersions, InitVersions, TypeCorrect, PTL DEF Spec

-----------------------------------------------------------------------------
(* Coherence. *)

LEMMA InitCoherent == Init => CacheCoherent
  BY DEF Init, CacheCoherent, Listing, NoAddresses

(* An update leaves the list of a name as it was, or stamps it with a version
   that no cache has reached. *)
LEMMA UpdateStamps ==
  ASSUME TypeOK, VersionsInv, UpdateAddresses, NEW d \in Dnames
  PROVE  \/ Listing'[d] = Listing[d] /\ address_store'[d].version = address_store[d].version
         \/ \A n \in Nodes : nversion'[n] < address_store'[d].version
<1>1. address_store'[d] = [ips     |-> IF d \in Updated THEN Merge(address_store[d].ips, updates[d])
                                       ELSE address_store[d].ips,
                           version |-> IF d \in Restamped THEN current_iteration
                                       ELSE address_store[d].version]
  BY DEF UpdateAddresses
<1>2. CASE d \in Restamped
  <2>1. address_store'[d].version = current_iteration /\ nversion' = nversion
    BY <1>1, <1>2 DEF UpdateAddresses, nodeVars
  <2>2. \A n \in Nodes : nversion[n] <= last_changed_iteration
    BY DEF VersionsInv, VersionsOrdered
  <2>3. last_changed_iteration < current_iteration
    BY DEF UpdateAddresses, VersionsInv, VersionsOrdered
  <2>4. QED
    BY <2>1, <2>2, <2>3 DEF TypeOK
<1>3. CASE d \notin Restamped
  <2>1. d \in Updated => Merge(address_store[d].ips, updates[d]) = address_store[d].ips
    BY <1>3 DEF Restamped, Changed
  <2>2. address_store'[d].ips = address_store[d].ips
        /\ address_store'[d].version = address_store[d].version
    BY <1>1, <1>3, <2>1
  <2>3. QED
    BY <2>2 DEF Listing
<1>4. QED
  BY <1>2, <1>3

LEMMA UpdateCoherent ==
  ASSUME TypeOK, VersionsInv, CacheCoherent, UpdateAddresses
  PROVE  CacheCoherent'
<1> SUFFICES ASSUME NEW n \in Nodes, NEW d \in Dnames
             PROVE  IF d \in dnames[n]
                    THEN address_store'[d].version <= nversion'[n]
                           => addresses'[n][d] = Listing'[d]
                    ELSE addresses'[n][d] = Unknown
  BY DEF CacheCoherent
<1>1. nversion' = nversion /\ addresses' = addresses
  BY DEF UpdateAddresses, nodeVars
<1>2. CASE d \notin dnames[n]
  BY <1>1, <1>2 DEF CacheCoherent
<1>3. CASE d \in dnames[n]
  <2>1. CASE Listing'[d] = Listing[d] /\ address_store'[d].version = address_store[d].version
    BY <1>1, <1>3, <2>1 DEF CacheCoherent
  <2>2. CASE nversion'[n] < address_store'[d].version
    <3>1. nversion'[n] \in Nat /\ address_store'[d].version \in Nat
      BY UpdateTypeOK DEF TypeOK
    <3>2. QED
      BY <1>3, <2>2, <3>1
  <2>3. QED
    BY <2>1, <2>2, UpdateStamps
<1>4. QED
  BY <1>2, <1>3

(* X_get_connector() makes the whole cache of the node current. *)
LEMMA GetConnectorCurrent ==
  ASSUME TypeOK, VersionsInv, CacheCoherent, NEW n \in Nodes, GetConnector(n)
  PROVE  /\ Listing' = Listing /\ address_store' = address_store
         /\ nversion' = [nversion EXCEPT ![n] = nversion'[n]]
         /\ addresses' = [addresses EXCEPT ![n] =
              [d \in Dnames |-> IF d \in dnames[n] THEN Listing[d] ELSE Unknown]]
         /\ \A d \in dnames[n] : address_store[d].version <= nversion'[n]
<1>1. Listing' = Listing /\ address_store' = address_store
  BY DEF GetConnector, Listing, storeVars
<1>2. NewerThan(n) \subseteq dnames[n] /\ dnames[n] \subseteq Dnames
  BY DEF NewerThan
<1>3. \A d \in dnames[n] \ NewerThan(n) :
         address_store[d].version <= nversion[n] /\ addresses[n][d] = Listing[d]
  BY <1>2 DEF NewerThan, CacheCoherent, TypeOK
<1>4. \A d \in Dnames \ dnames[n] : addresses[n][d] = Unknown
  BY DEF CacheCoherent
<1>5. \A d \in NewerThan(n) : Listing[d] = address_store[d].ips
  BY <1>2 DEF NewerThan, Listing, TypeOK
<1>6. CASE nversion[n] = last_changed_iteration \/ NewerThan(n) = {}
  <2>1. NewerThan(n) = {}
    BY <1>6 DEF NewerThan, TypeOK, VersionsInv, VersionsOrdered
  <2>2. nversion' = nversion /\ addresses' = addresses
    BY <1>6 DEF GetConnector
  <2>3. addresses[n] = [d \in Dnames |-> IF d \in dnames[n] THEN Listing[d] ELSE Unknown]
    BY <1>2, <1>3, <1>4, <2>1 DEF TypeOK
  <2>4. QED
    BY <1>1, <1>2, <1>3, <2>1, <2>2, <2>3 DEF TypeOK
<1>7. CASE ~(nversion[n] = last_changed_iteration \/ NewerThan(n) = {})
  <2>1. PICK newest \in NewerThan(n) :
          /\ \A d \in NewerThan(n) :
               address_store[d].version <= address_store[newest].version
          /\ nversion' = [nversion EXCEPT ![n] = address_store[newest].version]
          /\ addresses' = [addresses EXCEPT ![n] =
               [d \in Dnames |-> IF d \in NewerThan(n) THEN address_store[d].ips
                                 ELSE addresses[n][d]]]
    BY <1>7 DEF GetConnector
  <2>2. [d \in Dnames |-> IF d \in NewerThan(n) THEN address_store[d].ips
                          ELSE addresses[n][d]]
        = [d \in Dnames |-> IF d \in dnames[n] THEN Listing[d] ELSE Unknown]
    BY <1>2, <1>3, <1>4, <1>5
  <2>3. nversion'[n] = address_store[newest].version /\ newest \in dnames[n] /\ newest \in Dnames
    BY <1>2, <2>1 DEF TypeOK
  <2>4. \A d \in dnames[n] : address_store[d].version <= nversion'[n]
    <3> SUFFICES ASSUME NEW d \in dnames[n]
                 PROVE  address_store[d].version <= nversion'[n]
      OBVIOUS
    <3>1. nversion[n] < address_store[newest].version
      BY <2>1 DEF NewerThan, TypeOK
    <3>2. d \in Dnames /\ address_store[d].version \in Nat
          /\ address_store[newest].version \in Nat /\ nversion[n] \in Nat
      BY <1>2, <2>3 DEF TypeOK
    <3>3. CASE d \in NewerThan(n)
      BY <2>1, <2>3, <3>3
    <3>4. CASE d \notin NewerThan(n)
      BY <1>3, <2>3, <3>1, <3>2, <3>4
    <3>5. QED
      BY <3>3, <3>4
  <2>5. QED
    BY <1>1, <2>1, <2>2, <2>3, <2>4
<1>8. QED
  BY <1>6, <1>7

LEMMA GetConnectorCoherent ==
  ASSUME TypeOK, VersionsInv, CacheCoherent, NEW n \in Nodes, GetConnector(n)
  PROVE  CacheCoherent'
<1> SUFFICES ASSUME NEW m \in Nodes, NEW d \in Dnames
             PROVE  IF d \in dnames[m]
                    THEN address_store'[d].version <= nversion'[m]
                           => addresses'[m][d] = Listing'[d]
                    ELSE addresses'[m][d] = Unknown
  BY DEF CacheCoherent
<1>1. CASE m = n
  BY <1>1, GetConnectorCurrent DEF TypeOK
<1>2. CASE m # n
  <2>1. nversion'[m] = nversion[m] /\ addresses'[m] = addresses[m]
    BY <1>2, GetConnectorCurrent DEF TypeOK
  <2>2. QED
    BY <2>1, GetConnectorCurrent DEF CacheCoherent
<1>3. QED
  BY <1>1, <1>2

LEMMA NextCoherent == TypeOK /\ VersionsInv /\ CacheCoherent /\ [Next]_vars => CacheCoherent'
<1> SUFFICES ASSUME TypeOK, VersionsInv, CacheCoherent, [Next]_vars PROVE CacheCoherent'
  OBVIOUS
<1> USE DEF storeVars, loopVars, nodeVars
<1>1. CASE UNCHANGED <<address_store, nversion, addresses>>
  BY <1>1 DEF CacheCoherent, Listing
<1>2. CASE UpdateAddresses
  BY <1>2, UpdateCoherent
<1>3. ASSUME NEW n \in Nodes, GetConnector(n) PROVE CacheCoherent'
  BY <1>3, GetConnectorCoherent
<1>4. CASE StartLooking \/ LookUp \/ LeaveLoop \/ Wake \/ StopLooking \/ UNCHANGED vars
  BY <1>1, <1>4 DEF StartLooking, LookUp, LeaveLoop, Wake, StopLooking, vars
<1>5. ASSUME NEW ip \in Ips, RemoveAddress(ip) PROVE CacheCoherent'
  BY <1>1, <1>5 DEF RemoveAddress
<1>6. QED
  BY <1>2, <1>3, <1>4, <1>5 DEF Next, Watcher

(* Comparing versions is enough: a cache as new as an entry holds its list. *)
THEOREM CacheCoherentHolds == Spec => []CacheCoherent
<1>1. TypeOK /\ VersionsInv /\ CacheCoherent /\ [Next]_vars => CacheCoherent'
  BY NextCoherent
<1>2. QED
  BY <1>1, InitCoherent, TypeCorrect, VersionsInvHolds, PTL DEF Spec

-----------------------------------------------------------------------------
(* Refinement. *)

LEMMA InitImplements == Init => Directory!Init
  BY DEF Init, Directory!Init, Listing, NoAddresses

(* Steps of the watcher change the directory's lists or nothing. *)
LEMMA UpdateImplements ==
  ASSUME TypeOK, TypeOK', VersionsInv, UpdateAddresses
  PROVE  Directory!Relist
<1>1. Listing' \in Directory!Lists
  BY DEF Listing, TypeOK, Directory!Lists
<1>2. \A d \in Dnames : Listing'[d] = Unknown => Listing[d] = Unknown
  <2> SUFFICES ASSUME NEW d \in Dnames, Listing'[d] = Unknown
               PROVE  Listing[d] = Unknown
    OBVIOUS
  <2>1. address_store'[d].version = 0
    BY DEF Listing, TypeOK
  <2>2. address_store'[d].version = IF d \in Restamped THEN current_iteration
                                    ELSE address_store[d].version
    BY DEF UpdateAddresses
  <2>3. current_iteration # 0
    BY DEF UpdateAddresses, VersionsInv, VersionsOrdered, TypeOK
  <2>4. QED
    BY <2>1, <2>2, <2>3 DEF Listing
<1>3. QED
  BY <1>1, <1>2 DEF Directory!Relist, UpdateAddresses, nodeVars

LEMMA NextImplements ==
  TypeOK /\ TypeOK' /\ VersionsInv /\ CacheCoherent /\ [Next]_vars
    => [Directory!Next]_(Directory!vars)
<1> SUFFICES ASSUME TypeOK, TypeOK', VersionsInv, CacheCoherent, [Next]_vars
             PROVE  Directory!Next \/ UNCHANGED Directory!vars
  OBVIOUS
<1> USE DEF storeVars, loopVars, nodeVars
<1>1. CASE UNCHANGED <<address_store, addresses, asked>>
  BY <1>1 DEF Directory!vars, Listing
<1>2. CASE UpdateAddresses
  BY <1>2, UpdateImplements DEF Directory!Next
<1>3. ASSUME NEW n \in Nodes, GetConnector(n) PROVE Directory!Ask(n)
  <2>1. asked' = [asked EXCEPT ![n] = ~@]
    BY <1>3 DEF GetConnector
  <2>2. QED
    BY <1>3, <2>1, GetConnectorCurrent DEF Directory!Ask
<1>4. CASE StartLooking \/ LookUp \/ LeaveLoop \/ Wake \/ StopLooking \/ UNCHANGED vars
  BY <1>1, <1>4 DEF StartLooking, LookUp, LeaveLoop, Wake, StopLooking, vars
<1>5. ASSUME NEW ip \in Ips, RemoveAddress(ip)
      PROVE  Directory!Next \/ UNCHANGED Directory!vars
  BY <1>1, <1>5 DEF RemoveAddress
<1>6. QED
  BY <1>2, <1>3, <1>4, <1>5 DEF Next, Watcher, Directory!Next

(* Whoever asks for a connector gets one built from the current lists. *)
THEOREM ImplementsDirectoryHolds == Spec => ImplementsDirectory
<1>1. TypeOK /\ TypeOK' /\ VersionsInv /\ CacheCoherent /\ [Next]_vars
        => [Directory!Next]_(Directory!vars)
  BY NextImplements
<1>2. QED
  BY <1>1, InitImplements, TypeCorrect, VersionsInvHolds, CacheCoherentHolds, PTL
     DEF Spec, ImplementsDirectory, Directory!Spec
=============================================================================
