-------------------------- MODULE ConnectorProofs ---------------------------
(***************************************************************************)
(* Proofs about one connector for any number of stubs, of callers and of   *)
(* drops.  Accounting is inductive together with TypeOK; EvenShare needs   *)
(* it and a counting lemma: when every stub is held by at least m calls,   *)
(* at least m * Cardinality(Stubs) calls are in progress.                  *)
(***************************************************************************)
EXTENDS Connector, FiniteSetTheorems, TLAPS

USE StubsAssumption, CallersAssumption, MaxDropsAssumption, PenaltyAssumption

-----------------------------------------------------------------------------
(* Type correctness. *)

LEMMA InitTypeOK == Init => TypeOK
  BY DEF Init, TypeOK, NewConnector

LEMMA StubTypeOK ==
  ASSUME TypeOK, NEW c \in Callers, Stub(c)
  PROVE  TypeOK'
<1>1. PICK s \in LeastActive(connector) :
        /\ connector' = Allocate(connector, s)
        /\ ConN' = [ConN EXCEPT ![c] = s]
  BY DEF Stub
<1>2. s \in Stubs
  BY <1>1 DEF LeastActive, StubsOf, TypeOK
<1>3. QED
  BY <1>1, <1>2 DEF Stub, TypeOK, Allocate

LEMMA FinishedTypeOK ==
  ASSUME TypeOK, NEW c \in Callers, NEW in_error \in BOOLEAN, Finished(c, in_error)
  PROVE  TypeOK'
<1> DEFINE s == ConN[c]
           dropped == Drops(s, in_error, accumulate_addresses)
<1>1. s \in Stubs
  BY DEF Finished, TypeOK
<1>2. connector' = Finish(connector, s, dropped)
  BY DEF Finished
<1>3. connector' \in [active : [Stubs -> Int], total_active : Int]
  <2> HIDE DEF s, dropped
  <2>1. connector.active \in [Stubs -> Int] /\ connector.total_active \in Int
    BY DEF TypeOK
  <2>2. CASE dropped
    BY <1>1, <1>2, <2>1, <2>2 DEF Finish
  <2>3. CASE ~dropped
    BY <1>1, <1>2, <2>1, <2>3 DEF Finish
  <2>4. QED
    BY <2>2, <2>3
<1>4. drops' \in [Stubs -> Nat]
  <2>1. drops' = [drops EXCEPT ![s] = @ + (IF dropped THEN 1 ELSE 0)]
    BY DEF Finished
  <2> HIDE DEF s, dropped
  <2>2. QED
    BY <1>1, <2>1 DEF TypeOK
<1>5. QED
  BY <1>3, <1>4 DEF Finished, TypeOK

LEMMA NextTypeOK == TypeOK /\ [Next]_vars => TypeOK'
<1> SUFFICES ASSUME TypeOK, [Next]_vars PROVE TypeOK'
  OBVIOUS
<1>1. CASE UNCHANGED vars
  BY <1>1 DEF vars, TypeOK
<1>2. ASSUME NEW c \in Callers, Stub(c) PROVE TypeOK'
  BY <1>2, StubTypeOK
<1>3. ASSUME NEW c \in Callers, NEW in_error \in BOOLEAN, Finished(c, in_error)
      PROVE TypeOK'
  BY <1>3, FinishedTypeOK
<1>4. QED
  BY <1>1, <1>2, <1>3 DEF Next

(* The variables of a connector keep their types. *)
THEOREM TypeCorrect == Spec => []TypeOK
  BY InitTypeOK, NextTypeOK, PTL DEF Spec

-----------------------------------------------------------------------------
(* Accounting. *)

(* The sets of callers that the counts stand for are finite. *)
LEMMA CallerSetsFinite ==
  /\ IsFiniteSet(Busy) /\ Cardinality(Busy) \in Nat
  /\ \A s : IsFiniteSet(Holders(s)) /\ Cardinality(Holders(s)) \in Nat
<1>1. Busy \in SUBSET Callers /\ \A s : Holders(s) \in SUBSET Callers
  BY DEF Busy, Holders
<1>2. QED
  BY <1>1, FS_Subset, FS_CardinalityType

(* stub() adds its caller to the holders of the stub it hands out only. *)
LEMMA StubHolders ==
  ASSUME TypeOK, NEW c \in Callers, ConN[c] = NoConn, NEW s \in Stubs,
         ConN' = [ConN EXCEPT ![c] = s]
  PROVE  /\ Cardinality(Busy') = Cardinality(Busy) + 1
         /\ \A t \in Stubs : Cardinality(Holders(t)') =
              IF t = s THEN Cardinality(Holders(t)) + 1 ELSE Cardinality(Holders(t))
<1>1. Busy' = Busy \union {c} /\ c \notin Busy
  BY DEF Busy, TypeOK
<1>2. Holders(s)' = Holders(s) \union {c} /\ c \notin Holders(s)
  BY DEF Holders, TypeOK
<1>3. \A t \in Stubs \ {s} : Holders(t)' = Holders(t)
  BY DEF Holders, TypeOK
<1>4. Cardinality(Busy') = Cardinality(Busy) + 1
  BY <1>1, CallerSetsFinite, FS_AddElement
<1>5. Cardinality(Holders(s)') = Cardinality(Holders(s)) + 1
  BY <1>2, CallerSetsFinite, FS_AddElement
<1>6. QED
  BY <1>3, <1>4, <1>5

(* finished() removes its caller from the holders of its stub only. *)
LEMMA FinishedHolders ==
  ASSUME TypeOK, NEW c \in Callers, NEW s \in Stubs, ConN[c] = s,
         ConN' = [ConN EXCEPT ![c] = NoConn]
  PROVE  /\ Cardinality(Busy') = Cardinality(Busy) - 1
         /\ \A t \in Stubs : Cardinality(Holders(t)') =
              IF t = s THEN Cardinality(Holders(t)) - 1 ELSE Cardinality(Holders(t))
<1>1. Busy' = Busy \ {c} /\ c \in Busy
  BY DEF Busy, TypeOK
<1>2. Holders(s)' = Holders(s) \ {c} /\ c \in Holders(s)
  BY DEF Holders, TypeOK
<1>3. \A t \in Stubs \ {s} : Holders(t)' = Holders(t)
  BY DEF Holders, TypeOK
<1>4. Cardinality(Busy') = Cardinality(Busy) - 1
  BY <1>1, CallerSetsFinite, FS_RemoveElement
<1>5. Cardinality(Holders(s)') = Cardinality(Holders(s)) - 1
  <2>1. IsFiniteSet(Holders(s))
    BY CallerSetsFinite
  <2>2. Cardinality(Holders(s) \ {c}) = Cardinality(Holders(s)) - 1
    BY <1>2, <2>1, FS_RemoveElement
  <2>3. QED
    BY <1>2, <2>2
<1>6. QED
  BY <1>3, <1>4, <1>5

LEMMA InitAccounting == Init => Accounting
<1> SUFFICES ASSUME Init PROVE Accounting
  OBVIOUS
<1>1. Busy = {} /\ \A s \in Stubs : Holders(s) = {}
  BY DEF Init, Busy, Holders
<1>2. QED
  BY <1>1, FS_EmptySet DEF Init, Accounting, NewConnector

LEMMA StubAccounting ==
  ASSUME TypeOK, Accounting, NEW c \in Callers, Stub(c)
  PROVE  Accounting'
<1>1. PICK s \in Stubs :
        /\ connector' = Allocate(connector, s)
        /\ ConN' = [ConN EXCEPT ![c] = s]
  BY DEF Stub, LeastActive, StubsOf, TypeOK
<1>2. drops' = drops /\ ConN[c] = NoConn
  BY DEF Stub
<1>3. connector'.total_active = Cardinality(Busy')
  BY <1>1, <1>2, StubHolders DEF Accounting, Allocate
<1>4. ASSUME NEW t \in Stubs
      PROVE  connector'.active[t] = Cardinality(Holders(t)') - Penalty * drops'[t]
  <2>1. /\ connector.active[t] = Cardinality(Holders(t)) - Penalty * drops[t]
        /\ connector.active[t] \in Int /\ Penalty * drops[t] \in Int
        /\ Cardinality(Holders(t)) \in Nat
    BY CallerSetsFinite DEF Accounting, TypeOK
  <2>2. connector'.active[t] = IF t = s THEN connector.active[t] + 1
                               ELSE connector.active[t]
    BY <1>1 DEF Allocate, TypeOK
  <2>3. Cardinality(Holders(t)') = IF t = s THEN Cardinality(Holders(t)) + 1
                                   ELSE Cardinality(Holders(t))
    BY <1>1, <1>2, StubHolders
  <2>4. QED
    BY <1>2, <2>1, <2>2, <2>3
<1>5. QED
  BY <1>3, <1>4 DEF Accounting

LEMMA FinishedAccounting ==
  ASSUME TypeOK, Accounting, NEW c \in Callers, NEW in_error \in BOOLEAN,
         Finished(c, in_error)
  PROVE  Accounting'
<1> DEFINE dropped == Drops(ConN[c], in_error, accumulate_addresses)
<1>1. PICK s \in Stubs :
        /\ ConN[c] = s
        /\ connector' = Finish(connector, s, dropped)
        /\ ConN' = [ConN EXCEPT ![c] = NoConn]
        /\ drops' = [drops EXCEPT ![s] = @ + (IF dropped THEN 1 ELSE 0)]
  BY DEF Finished, TypeOK
<1> HIDE DEF dropped
<1>2. connector'.total_active = Cardinality(Busy')
  BY <1>1, FinishedHolders DEF Accounting, Finish
<1>3. ASSUME NEW t \in Stubs
      PROVE  connector'.active[t] = Cardinality(Holders(t)') - Penalty * drops'[t]
  <2>1. /\ connector.active[t] = Cardinality(Holders(t)) - Penalty * drops[t]
        /\ connector.active[t] \in Int /\ drops[t] \in Nat
        /\ Cardinality(Holders(t)) \in Nat
    BY CallerSetsFinite DEF Accounting, TypeOK
  <2>2. Cardinality(Holders(t)') = IF t = s THEN Cardinality(Holders(t)) - 1
                                   ELSE Cardinality(Holders(t))
    BY <1>1, FinishedHolders
  <2>3. CASE t # s
    <3>1. connector'.active[t] = connector.active[t] /\ drops'[t] = drops[t]
      BY <1>1, <2>3 DEF Finish, TypeOK
    <3>2. QED
      BY <2>1, <2>2, <2>3, <3>1
  <2>4. CASE t = s /\ dropped
    <3>1. connector'.active[t] = connector.active[t] - 1 - Penalty
      BY <1>1, <2>4 DEF Finish, TypeOK
    <3>2. drops'[t] = drops[t] + 1
      BY <1>1, <2>4 DEF TypeOK
    <3>3. Penalty * (drops[t] + 1) = Penalty * drops[t] + Penalty
      BY <2>1
    <3>4. Penalty * drops[t] \in Int
      BY <2>1
    <3>5. QED
      BY <2>1, <2>2, <2>4, <3>1, <3>2, <3>3, <3>4
  <2>5. CASE t = s /\ ~dropped
    <3>1. connector'.active[t] = connector.active[t] - 1 - 0
      BY <1>1, <2>5 DEF Finish, TypeOK
    <3>2. drops'[t] = drops[t] + 0
      BY <1>1, <2>5 DEF TypeOK
    <3>3. drops'[t] = drops[t] /\ Penalty * drops[t] \in Int
      BY <2>1, <3>2
    <3>4. QED
      BY <2>1, <2>2, <2>5, <3>1, <3>3
  <2>6. QED
    BY <2>3, <2>4, <2>5
<1>4. QED
  BY <1>2, <1>3 DEF Accounting

LEMMA NextAccounting == TypeOK /\ Accounting /\ [Next]_vars => Accounting'
<1> SUFFICES ASSUME TypeOK, Accounting, [Next]_vars PROVE Accounting'
  OBVIOUS
<1>1. CASE UNCHANGED vars
  BY <1>1 DEF vars, Accounting, Busy, Holders
<1>2. ASSUME NEW c \in Callers, Stub(c) PROVE Accounting'
  BY <1>2, StubAccounting
<1>3. ASSUME NEW c \in Callers, NEW in_error \in BOOLEAN, Finished(c, in_error)
      PROVE Accounting'
  BY <1>3, FinishedAccounting
<1>4. QED
  BY <1>1, <1>2, <1>3 DEF Next

(* Counts and total_active always are the numbers of calls in progress. *)
THEOREM AccountingHolds == Spec => []Accounting
<1>1. Init => Accounting
  BY InitAccounting
<1>2. TypeOK /\ Accounting /\ [Next]_vars => Accounting'
  BY NextAccounting
<1>3. QED
  BY <1>1, <1>2, TypeCorrect, PTL DEF Spec
-----------------------------------------------------------------------------
(* The even share. *)

(* If every stub is held by at least m calls, the calls in progress are at
   least m for each stub: pairing every stub with 1 .. m injects into Busy. *)
LEMMA ManyHolders ==
  ASSUME TypeOK, NEW m \in Nat, \A s \in Stubs : m <= Cardinality(Holders(s))
  PROVE  m * Cardinality(Stubs) <= Cardinality(Busy)
<1> DEFINE card(s) == Cardinality(Holders(s))
           number  == [s \in Stubs |->
                         CHOOSE f : f \in Bijection(1 .. card(s), Holders(s))]
           pair    == [p \in Stubs \X (1 .. m) |-> number[p[1]][p[2]]]
<1>1. \A s \in Stubs : number[s] \in Bijection(1 .. card(s), Holders(s))
  <2> SUFFICES ASSUME NEW s \in Stubs
               PROVE  number[s] \in Bijection(1 .. card(s), Holders(s))
    OBVIOUS
  <2>1. ExistsBijection(1 .. card(s), Holders(s))
    BY CallerSetsFinite, FS_CardinalityType
  <2>2. \E f : f \in Bijection(1 .. card(s), Holders(s))
    BY <2>1 DEF ExistsBijection
  <2>3. number[s] = CHOOSE f : f \in Bijection(1 .. card(s), Holders(s))
    OBVIOUS
  <2> HIDE DEF number
  <2>4. QED
    BY <2>2, <2>3
<1>2. \A s \in Stubs : card(s) \in Nat /\ m <= card(s)
  BY CallerSetsFinite
<1>3. \A s \in Stubs : \A i \in 1 .. m :
        /\ number[s][i] \in Holders(s)
        /\ \A j \in 1 .. m : number[s][i] = number[s][j] => i = j
  <2> SUFFICES ASSUME NEW s \in Stubs, NEW i \in 1 .. m
               PROVE  /\ number[s][i] \in Holders(s)
                      /\ \A j \in 1 .. m : number[s][i] = number[s][j] => i = j
    OBVIOUS
  <2> HIDE DEF number
  <2>1. \A j \in 1 .. m : j \in 1 .. card(s)
    BY <1>2
  <2> HIDE DEF card
  <2>2. QED
    BY <1>1, <2>1 DEF Bijection, Injection, IsInjective
<1>4. \A s \in Stubs : \A c \in Holders(s) : c \in Busy /\ ConN[c] = s
  BY DEF Holders, Busy
<1> HIDE DEF number, card
<1>5. \A p \in Stubs \X (1 .. m) :
        pair[p] = number[p[1]][p[2]] /\ p[1] \in Stubs /\ p[2] \in 1 .. m
  OBVIOUS
<1>6. pair \in [Stubs \X (1 .. m) -> Busy]
  BY <1>3, <1>4
<1>7. ASSUME NEW p \in Stubs \X (1 .. m), NEW q \in Stubs \X (1 .. m),
             pair[p] = pair[q]
      PROVE  p = q
  <2>1. p = <<p[1], p[2]>> /\ q = <<q[1], q[2]>>
    OBVIOUS
  <2>2. p[1] = q[1]
    BY <1>3, <1>4, <1>5, <1>7
  <2>3. p[2] = q[2]
    BY <1>3, <1>5, <1>7, <2>2
  <2>4. QED
    BY <2>1, <2>2, <2>3
<1> HIDE DEF pair
<1>8. pair \in Injection(Stubs \X (1 .. m), Busy)
  BY <1>6, <1>7 DEF Injection, IsInjective
<1>9. Cardinality(Stubs \X (1 .. m)) <= Cardinality(Busy)
  BY <1>8, CallerSetsFinite, FS_Injection
<1>10. IsFiniteSet(1 .. m) /\ Cardinality(1 .. m) = m
  BY FS_Interval
<1>11. Cardinality(Stubs \X (1 .. m)) = Cardinality(Stubs) * m
  BY <1>10, FS_Product
<1>12. Cardinality(Stubs) \in Nat
  BY FS_CardinalityType
<1>13. QED
  BY <1>9, <1>11, <1>12

(* With a free caller, not all callers are busy. *)
LEMMA FreeCaller ==
  ASSUME TypeOK, NEW c \in Callers, ConN[c] = NoConn
  PROVE  Cardinality(Busy) < Cardinality(Callers)
<1>1. Busy \in SUBSET Callers /\ Busy # Callers
  BY DEF Busy
<1>2. QED
  BY <1>1, CallerSetsFinite, FS_Subset, FS_CardinalityType

(* The even share is a bound that only gets easier with fewer holders. *)
LEMMA ShareMonotone ==
  ASSUME NEW n \in Nat, NEW h \in Nat, NEW k \in Nat, k <= h, NEW b \in Nat,
         (h - 1) * n < b
  PROVE  (k - 1) * n < b
<1>1. (h - 1) * n = (k - 1) * n + (h - k) * n
  OBVIOUS
<1>2. (h - k) \in Nat /\ (h - k) * n \in Nat /\ (k - 1) * n \in Int
  OBVIOUS
<1>3. QED
  BY <1>1, <1>2

LEMMA InitEvenShare == Init => EvenShare
<1> SUFFICES ASSUME Init, NEW s \in Stubs
             PROVE  (Cardinality(Holders(s)) - 1) * Cardinality(Stubs) < Cardinality(Callers)
  BY DEF EvenShare
<1>1. Holders(s) = {}
  BY DEF Init, Holders
<1>2. Cardinality(Holders(s)) = 0
  BY <1>1, FS_EmptySet
<1>3. Cardinality(Stubs) \in Nat \ {0} /\ Cardinality(Callers) \in Nat
  BY FS_CardinalityType, FS_EmptySet
<1>4. QED
  BY <1>2, <1>3

LEMMA StubEvenShare ==
  ASSUME TypeOK, Accounting, EvenShare, NEW c \in Callers, Stub(c)
  PROVE  EvenShare'
<1> SUFFICES ASSUME \A s \in Stubs : drops'[s] = 0, NEW t \in Stubs
             PROVE  (Cardinality(Holders(t)') - 1) * Cardinality(Stubs) < Cardinality(Callers)
  BY DEF EvenShare
<1>1. PICK s \in Stubs :
        /\ \A u \in Stubs : connector.active[s] <= connector.active[u]
        /\ ConN' = [ConN EXCEPT ![c] = s]
  BY DEF Stub, LeastActive, StubsOf, TypeOK
<1>2. ConN[c] = NoConn /\ \A u \in Stubs : drops[u] = 0
  BY DEF Stub
<1>3. \A u \in Stubs : connector.active[u] = Cardinality(Holders(u))
  <2> SUFFICES ASSUME NEW u \in Stubs
               PROVE  connector.active[u] = Cardinality(Holders(u))
    OBVIOUS
  <2>1. connector.active[u] = Cardinality(Holders(u)) - Penalty * 0
    BY <1>2 DEF Accounting
  <2>2. QED
    BY <2>1, CallerSetsFinite
<1>4. Cardinality(Holders(s)) * Cardinality(Stubs) < Cardinality(Callers)
  <2>1. \A u \in Stubs : Cardinality(Holders(s)) <= Cardinality(Holders(u))
    BY <1>1, <1>3
  <2>2. Cardinality(Holders(s)) * Cardinality(Stubs) <= Cardinality(Busy)
    BY <2>1, CallerSetsFinite, ManyHolders
  <2>3. Cardinality(Holders(s)) * Cardinality(Stubs) \in Nat
    BY CallerSetsFinite, FS_CardinalityType
  <2>4. QED
    BY <1>2, <2>2, <2>3, CallerSetsFinite, FreeCaller, FS_CardinalityType
<1>5. Cardinality(Holders(t)') = IF t = s THEN Cardinality(Holders(t)) + 1
                                 ELSE Cardinality(Holders(t))
  BY <1>1, <1>2, StubHolders
<1>6. CASE t = s
  <2>1. Cardinality(Holders(t)') - 1 = Cardinality(Holders(s))
    BY <1>5, <1>6, CallerSetsFinite
  <2>2. QED
    BY <1>4, <2>1
<1>7. CASE t # s
  BY <1>2, <1>5, <1>7 DEF EvenShare
<1>8. QED
  BY <1>6, <1>7

LEMMA FinishedEvenShare ==
  ASSUME TypeOK, EvenShare, NEW c \in Callers, NEW in_error \in BOOLEAN,
         Finished(c, in_error)
  PROVE  EvenShare'
<1> DEFINE dropped == Drops(ConN[c], in_error, accumulate_addresses)
<1> SUFFICES ASSUME \A s \in Stubs : drops'[s] = 0, NEW t \in Stubs
             PROVE  (Cardinality(Holders(t)') - 1) * Cardinality(Stubs) < Cardinality(Callers)
  BY DEF EvenShare
<1>1. PICK s \in Stubs :
        /\ ConN[c] = s
        /\ ConN' = [ConN EXCEPT ![c] = NoConn]
        /\ drops' = [drops EXCEPT ![s] = @ + (IF dropped THEN 1 ELSE 0)]
  BY DEF Finished, TypeOK
<1> HIDE DEF dropped
<1>2. \A u \in Stubs : drops[u] = 0
  <2> SUFFICES ASSUME NEW u \in Stubs PROVE drops[u] = 0
    OBVIOUS
  <2>1. drops[u] \in Nat /\ drops'[u] = 0
    BY DEF TypeOK
  <2>2. drops'[u] = drops[u] \/ drops'[u] = drops[u] + 1 \/ drops'[u] = drops[u] + 0
    BY <1>1 DEF TypeOK
  <2>3. QED
    BY <2>1, <2>2
<1>3. (Cardinality(Holders(t)) - 1) * Cardinality(Stubs) < Cardinality(Callers)
  BY <1>2 DEF EvenShare
<1>4. Cardinality(Holders(t)') <= Cardinality(Holders(t)) /\ Cardinality(Holders(t)') \in Nat
  <2>1. Cardinality(Holders(t)') = IF t = s THEN Cardinality(Holders(t)) - 1
                                   ELSE Cardinality(Holders(t))
    BY <1>1, FinishedHolders
  <2>2. Cardinality(Holders(t)) \in Nat /\ (t = s => Cardinality(Holders(t)) # 0)
    <3>1. t = s => c \in Holders(t)
      BY <1>1 DEF Holders
    <3>2. QED
      BY <3>1, CallerSetsFinite, FS_EmptySet
  <2>3. QED
    BY <2>1, <2>2
<1>5. QED
  BY <1>3, <1>4, CallerSetsFinite, FS_CardinalityType, ShareMonotone

LEMMA NextEvenShare == TypeOK /\ Accounting /\ EvenShare /\ [Next]_vars => EvenShare'
<1> SUFFICES ASSUME TypeOK, Accounting, EvenShare, [Next]_vars PROVE EvenShare'
  OBVIOUS
<1>1. CASE UNCHANGED vars
  BY <1>1 DEF vars, EvenShare, Holders
<1>2. ASSUME NEW c \in Callers, Stub(c) PROVE EvenShare'
  BY <1>2, StubEvenShare
<1>3. ASSUME NEW c \in Callers, NEW in_error \in BOOLEAN, Finished(c, in_error)
      PROVE EvenShare'
  BY <1>3, FinishedEvenShare
<1>4. QED
  BY <1>1, <1>2, <1>3 DEF Next

(* Without drops no stub ever carries more than its even share, rounded up,
   of the calls that can be in progress. *)
THEOREM EvenShareHolds == Spec => []EvenShare
<1>1. Init => EvenShare
  BY InitEvenShare
<1>2. TypeOK /\ Accounting /\ EvenShare /\ [Next]_vars => EvenShare'
  BY NextEvenShare
<1>3. QED
  BY <1>1, <1>2, TypeCorrect, AccountingHolds, PTL DEF Spec
=============================================================================
