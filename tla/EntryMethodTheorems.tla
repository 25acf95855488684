------------------------ MODULE EntryMethodTheorems -------------------------
(***************************************************************************)
(* What the inductive invariant of EntryMethodProofs says of the requests: *)
(* the invariants the runs check, for any number of requests, stages,      *)
(* nodes, calls, stubs and connectors, and the refinement of               *)
(* ScatterGather.                                                          *)
(***************************************************************************)
EXTENDS EntryMethodProofs

-----------------------------------------------------------------------------
(* What follows from the invariant at once. *)

LEMMA TypeInIInv == IInv => TypeOK
<1> SUFFICES ASSUME IInv PROVE TypeOK
  OBVIOUS
<1>1. ASSUME NEW n \in Nodes, NEW g \in DOMAIN connectors[n], NEW c, c = connectors[n][g]
      PROVE  StubsOf(c) \in StubSets[n] /\ \A s \in StubsOf(c) : c.active[s] \in Int
  <2>1. c \in ConnectorRecords /\ StubsOf(c) \in StubSets[n]
    BY <1>1 DEF IInv, PoolsOK
  <2>2. QED
    BY <2>1, RecordFields
<1>2. ASSUME NEW e \in Entries, NEW m, m = method[e]
      PROVE  /\ m.pc \in States
             /\ m.stage \in DOMAIN stages /\ m.at \in 1 .. Len(NodesOf(m)) + 1
             /\ m.queue \subseteq DOMAIN m.status /\ m.recv \in 0 .. Len(m.status)
             /\ \A n \in Nodes : /\ m.ConP[n] \in 0 .. Len(connectors[n])
                                 /\ m.sent[n] \in 0 .. m.end[n] - m.begin[n]
             /\ (m.pc = "done") = (m.result # "none")
  <2>1. /\ PoolsOK /\ m \in MethodRecords /\ Placed(m) /\ PoolsUsed(StubTable, m)
        /\ \A n \in Nodes : DOMAIN StubTable[n] = DOMAIN connectors[n]
    BY <1>2, EntryFacts, InvFields
  <2>2. m.recv \in Nat /\ Len(m.status) \in Nat /\ m.pc \in States
    BY <2>1 DEF MethodRecords
  <2>3. ASSUME NEW n \in Nodes
        PROVE  m.ConP[n] \in 0 .. Len(connectors[n]) /\ m.sent[n] \in 0 .. m.end[n] - m.begin[n]
    <3> DEFINE b == m.begin[n]
               z == m.end[n]
               t == m.sent[n]
               l == Len(connectors[n])
               g == m.ConP[n]
    <3>1. b \in Nat /\ z \in Nat /\ t \in Nat /\ b + t <= z
      BY <2>1 DEF MethodRecords, PoolsUsed
    <3>2. l \in Nat /\ g \in (1 .. l) \union {0}
      BY <2>1, TableNow DEF PoolsUsed
    <3> HIDE DEF b, z, t, l, g
    <3>3. g \in 0 .. l /\ t \in 0 .. z - b
      BY <3>1, <3>2
    <3>4. QED
      BY <3>3 DEF b, z, t, l, g
  <2>4. QED
    BY <2>1, <2>2, <2>3 DEF Placed
<1>3. QED
  BY <1>1, <1>2 DEF TypeOK

LEMMA HoldingIsHeld ==
  ASSUME NEW e \in Entries, NEW n \in Nodes
  PROVE  Holding(e, n, method[e].ConP[n]) = HeldBy(method[e], n)
  BY DEF Holding, HeldBy

LEMMA WindowInIInv == IInv => WindowRespected
<1> SUFFICES ASSUME IInv, NEW e \in Entries, NEW n \in Nodes, method[e].ConP[n] # 0
             PROVE  Cardinality(Holding(e, n, method[e].ConP[n])) <= Count(method[e], n)
  BY TypeInIInv DEF WindowRespected
<1> DEFINE m == method[e]
<1>1. /\ PoolsOK /\ PoolsUsed(StubTable, m)
      /\ \A k \in Nodes : DOMAIN StubTable[k] = DOMAIN connectors[k]
  BY EntryFacts, InvFields
<1>2. /\ m.ConP[n] \in DOMAIN connectors[n]
      /\ Cardinality(HeldBy(m, n)) <= Cardinality(StubTable[n][m.ConP[n]])
  BY <1>1 DEF PoolsUsed
<1>3. StubTable[n][m.ConP[n]] = StubsOf(Pool(m, n))
  BY <1>1, <1>2, TableNow DEF Pool, Connector
<1>4. QED
  BY <1>2, <1>3, HoldingIsHeld DEF Count

LEMMA HeldWhileOutInIInv == IInv => HeldWhileOut
<1> SUFFICES ASSUME IInv, NEW e \in Entries, NEW m, m = method[e], m.pc \in {"send", "wait", "event"},
                    NEW p \in DOMAIN NodesOf(m), NEW n, n = NodesOf(m)[p],
                    NEW i \in 1 .. m.end[n] - m.begin[n]
             PROVE  m.ConN[n][i] # NoConn <=>
                      m.status[m.begin[n] + i] = "out" \/ m.begin[n] + i \in m.queue
  BY DEF HeldWhileOut
<1>1. MethodInv(StubTable, m)
  BY EntryFacts
<1>2. LoopInv(StubTable, m)
  BY <1>1 DEF MethodInv, SendInv, WaitInv, EventInv
<1>3. CallInvAt(m, n, i)
  BY <1>2 DEF LoopInv
<1>4. QED
  BY <1>3 DEF CallInvAt

LEMMA NothingLeftInIInv == IInv => NothingLeft
<1> SUFFICES ASSUME IInv, NEW e \in Entries, NEW m, m = method[e], m.result # "none"
             PROVE  /\ m.queue = {} /\ \A x \in DOMAIN m.status : m.status[x] # "out"
                    /\ \A n \in Nodes : Holding(e, n, m.ConP[n]) = {}
  BY DEF NothingLeft
<1>1. MethodInv(StubTable, m)
  BY EntryFacts
<1>2. m.pc = "done"
  BY <1>1, InvFields
<1>3. DoneInv(m)
  BY <1>1, <1>2 DEF MethodInv
<1>4. QED
  BY <1>3, HoldingIsHeld DEF DoneInv, HoldsNothing, AllEnded

(* The variables keep their types: a thread is at a known place of its
   program, and what it refers to is there. *)
THEOREM TypeCorrect == Spec => []TypeOK
  BY IInvHolds, TypeInIInv, PTL

(* While a stage runs, its calls hold a connection exactly as long as they
   are out or their end is still on the queue: NodeOf, the comparison of a
   tag with the ends of the nodes, finds the call every event belongs to. *)
THEOREM HeldWhileOutHolds == Spec => []HeldWhileOut
  BY IInvHolds, HeldWhileOutInIInv, PTL

(* No request ever has more calls to a node under way than the connector it
   took has stubs, whatever the order in which its calls end. *)
THEOREM WindowRespectedHolds == Spec => []WindowRespected
  BY IInvHolds, WindowInIInv, PTL

(* A request that has returned has no call out, no event on its queue, and
   no connection, whichever way it returned. *)
THEOREM NothingLeftHolds == Spec => []NothingLeft
  BY IInvHolds, NothingLeftInIInv, PTL

-----------------------------------------------------------------------------
(* PoolAccounting: the calls that hold a connection, as a set. *)

HoldersIn(M, n, g) ==
  UNION {{e} \X {i \in HeldBy(M[e], n) : M[e].ConP[n] = g} : e \in Entries}
StubHoldersIn(M, n, g, s) == {h \in HoldersIn(M, n, g) : M[h[1]].ConN[n][h[2]] = s}

LEMMA HoldersNow ==
  /\ \A n \in Nodes : \A g : Holders(n, g) = HoldersIn(method, n, g)
  /\ \A n \in Nodes : \A g, s : StubHolders(n, g, s) = StubHoldersIn(method, n, g, s)
<1>1. \A n \in Nodes : \A g : Holders(n, g) = HoldersIn(method, n, g)
  <2> SUFFICES ASSUME NEW n \in Nodes, NEW g PROVE Holders(n, g) = HoldersIn(method, n, g)
    OBVIOUS
  <2>1. \A e \in Entries :
          Holding(e, n, g) = {i \in HeldBy(method[e], n) : method[e].ConP[n] = g}
    BY DEF Holding, HeldBy
  <2>2. QED
    BY <2>1 DEF Holders, HoldersIn
<1>2. QED
  BY <1>1 DEF StubHolders, StubHoldersIn

LEMMA HolderIn ==
  ASSUME NEW M, NEW n, NEW g
  PROVE  \A h : h \in HoldersIn(M, n, g) <=>
                  \E e \in Entries : \E i \in HeldBy(M[e], n) : h = <<e, i>> /\ M[e].ConP[n] = g
  BY DEF HoldersIn

LEMMA StubHolderIn ==
  ASSUME NEW M, NEW n, NEW g, NEW s
  PROVE  \A h : h \in StubHoldersIn(M, n, g, s) <=>
                  \E e \in Entries : \E i \in HeldBy(M[e], n) :
                     h = <<e, i>> /\ M[e].ConP[n] = g /\ M[e].ConN[n][i] = s
  BY HolderIn DEF StubHoldersIn

(* A thread that holds the same connections of a node counts the same there. *)
HeldAlike(M, M2, n) == \A e \in Entries :
  /\ HeldBy(M2[e], n) = HeldBy(M[e], n)
  /\ \A i \in HeldBy(M[e], n) :
       M2[e].ConN[n][i] = M[e].ConN[n][i] /\ M2[e].ConP[n] = M[e].ConP[n]

LEMMA SameHolders ==
  ASSUME NEW M, NEW M2, NEW n, HeldAlike(M, M2, n)
  PROVE  \A g : /\ HoldersIn(M2, n, g) = HoldersIn(M, n, g)
                /\ \A s : StubHoldersIn(M2, n, g, s) = StubHoldersIn(M, n, g, s)
<1> USE DEF HeldAlike
<1>1. ASSUME NEW g PROVE HoldersIn(M2, n, g) = HoldersIn(M, n, g)
  <2>1. \A h : h \in HoldersIn(M2, n, g) <=> h \in HoldersIn(M, n, g)
    BY HolderIn
  <2>2. QED
    BY <2>1
<1>2. ASSUME NEW g, NEW s PROVE StubHoldersIn(M2, n, g, s) = StubHoldersIn(M, n, g, s)
  <2>1. \A h : h \in StubHoldersIn(M2, n, g, s) <=> h \in StubHoldersIn(M, n, g, s)
    BY StubHolderIn
  <2>2. QED
    BY <2>1
<1>3. QED
  BY <1>1, <1>2

(* One more call holds a stub: it is one more of its connector and of its
   stub, and all others are what they were. *)
GainsHolder(M, M2, n, g0, s, h) ==
  /\ HoldersIn(M2, n, g0) = HoldersIn(M, n, g0) \union {h}
  /\ h \notin HoldersIn(M, n, g0)
  /\ StubHoldersIn(M2, n, g0, s) = StubHoldersIn(M, n, g0, s) \union {h}
  /\ h \notin StubHoldersIn(M, n, g0, s)
  /\ \A t : t # s => StubHoldersIn(M2, n, g0, t) = StubHoldersIn(M, n, g0, t)
  /\ \A k \in Nodes : \A g : k # n \/ g # g0 =>
       /\ HoldersIn(M2, k, g) = HoldersIn(M, k, g)
       /\ \A t : StubHoldersIn(M2, k, g, t) = StubHoldersIn(M, k, g, t)

PutAt(M, e, m) == [M EXCEPT ![e] = m]

LEMMA OneMoreHolder ==
  ASSUME NEW M \in [Entries -> MethodRecords], NEW e \in Entries, NEW m2,
         NEW M2, M2 = PutAt(M, e, m2),
         NEW n, NEW i, NEW s, HoldsOneMore(M[e], m2, n, i, s)
  PROVE  GainsHolder(M, M2, n, m2.ConP[n], s, <<e, i>>)
<1> DEFINE m  == M[e]
           g0 == m2.ConP[n]
           h0 == <<e, i>>
<1>1. M2[e] = m2 /\ \A f \in Entries \ {e} : M2[f] = M[f]
  BY DEF PutAt
<1>2. /\ n \in Nodes /\ m2.ConP[n] = m.ConP[n] /\ i \notin HeldBy(m, n)
      /\ HeldBy(m2, n) = HeldBy(m, n) \union {i} /\ m2.ConN[n][i] = s
      /\ \A j \in HeldBy(m, n) : m2.ConN[n][j] = m.ConN[n][j]
  BY DEF HoldsOneMore
<1>3. \A k \in Nodes \ {n} :
        /\ HeldBy(m2, k) = HeldBy(m, k)
        /\ \A j \in HeldBy(m, k) : m2.ConN[k][j] = m.ConN[k][j] /\ m2.ConP[k] = m.ConP[k]
  BY DEF HoldsOneMore
<1> HIDE DEF m, g0
<1>4. \A g : h0 \notin HoldersIn(M, n, g)
  <2> SUFFICES ASSUME NEW g, h0 \in HoldersIn(M, n, g) PROVE FALSE
    OBVIOUS
  <2>1. PICK f \in Entries : \E j \in HeldBy(M[f], n) : h0 = <<f, j>>
    BY HolderIn
  <2>2. i \in HeldBy(M[e], n)
    BY <2>1
  <2>3. QED
    BY <1>2, <2>2 DEF m
<1>5. \A h : h \in HoldersIn(M2, n, g0) <=> h \in HoldersIn(M, n, g0) \/ h = h0
  <2> SUFFICES ASSUME NEW h
               PROVE  h \in HoldersIn(M2, n, g0) <=> h \in HoldersIn(M, n, g0) \/ h = h0
    OBVIOUS
  <2>1. ASSUME h \in HoldersIn(M2, n, g0) PROVE h \in HoldersIn(M, n, g0) \/ h = h0
    <3>0. PICK f \in Entries : \E j \in HeldBy(M2[f], n) : h = <<f, j>> /\ M2[f].ConP[n] = g0
      BY <2>1, HolderIn
    <3>1. PICK j \in HeldBy(M2[f], n) : h = <<f, j>> /\ M2[f].ConP[n] = g0
      BY <3>0
    <3>2. CASE f # e
      BY <1>1, <3>1, <3>2, HolderIn
    <3>3. CASE f = e
      <4>1. j = i \/ (j \in HeldBy(M[e], n) /\ M[e].ConP[n] = g0)
        BY <1>1, <1>2, <3>1, <3>3 DEF m
      <4>2. QED
        BY <3>1, <3>3, <4>1, HolderIn
    <3>4. QED
      BY <3>2, <3>3
  <2>2. ASSUME h \in HoldersIn(M, n, g0) PROVE h \in HoldersIn(M2, n, g0)
    <3>0. PICK f \in Entries : \E j \in HeldBy(M[f], n) : h = <<f, j>> /\ M[f].ConP[n] = g0
      BY <2>2, HolderIn
    <3>1. PICK j \in HeldBy(M[f], n) : h = <<f, j>> /\ M[f].ConP[n] = g0
      BY <3>0
    <3>2. j \in HeldBy(M2[f], n) /\ M2[f].ConP[n] = g0
      BY <1>1, <1>2, <3>1 DEF m
    <3>3. QED
      BY <3>1, <3>2, HolderIn
  <2>3. h0 \in HoldersIn(M2, n, g0)
    <3>1. i \in HeldBy(M2[e], n) /\ M2[e].ConP[n] = g0
      BY <1>1, <1>2 DEF g0
    <3>2. QED
      BY <3>1, HolderIn
  <2>4. QED
    BY <2>1, <2>2, <2>3
<1>6. \A h : h # h0 /\ h \in HoldersIn(M, n, g0) => M2[h[1]].ConN[n][h[2]] = M[h[1]].ConN[n][h[2]]
  <2> SUFFICES ASSUME NEW h \in HoldersIn(M, n, g0)
               PROVE  M2[h[1]].ConN[n][h[2]] = M[h[1]].ConN[n][h[2]]
    OBVIOUS
  <2>0. PICK f \in Entries : \E j \in HeldBy(M[f], n) : h = <<f, j>>
    BY HolderIn
  <2>1. PICK j \in HeldBy(M[f], n) : h = <<f, j>>
    BY <2>0
  <2>2. M2[f].ConN[n][j] = M[f].ConN[n][j]
    BY <1>1, <1>2, <2>1 DEF m
  <2>3. QED
    BY <2>1, <2>2
<1>7. M2[h0[1]].ConN[n][h0[2]] = s
  BY <1>1, <1>2
<1>8. HoldersIn(M2, n, g0) = HoldersIn(M, n, g0) \union {h0}
  BY <1>5
<1>9. StubHoldersIn(M2, n, g0, s) = StubHoldersIn(M, n, g0, s) \union {h0}
  <2> HIDE DEF h0
  <2>1. QED
    BY <1>4, <1>5, <1>6, <1>7 DEF StubHoldersIn
<1>10. \A t : t # s => StubHoldersIn(M2, n, g0, t) = StubHoldersIn(M, n, g0, t)
  <2> HIDE DEF h0
  <2>1. QED
    BY <1>4, <1>5, <1>6, <1>7 DEF StubHoldersIn
<1>11. ASSUME NEW k \in Nodes, k # n
       PROVE  \A g : /\ HoldersIn(M2, k, g) = HoldersIn(M, k, g)
                     /\ \A t : StubHoldersIn(M2, k, g, t) = StubHoldersIn(M, k, g, t)
  <2>1. \A f \in Entries :
          /\ HeldBy(M2[f], k) = HeldBy(M[f], k)
          /\ \A j \in HeldBy(M[f], k) :
               M2[f].ConN[k][j] = M[f].ConN[k][j] /\ M2[f].ConP[k] = M[f].ConP[k]
    BY <1>1, <1>3, <1>11 DEF m
  <2>2. QED
    BY <2>1, SameHolders DEF HeldAlike
<1>12. ASSUME NEW g, g # g0
       PROVE  /\ HoldersIn(M2, n, g) = HoldersIn(M, n, g)
              /\ \A t : StubHoldersIn(M2, n, g, t) = StubHoldersIn(M, n, g, t)
  <2>1. M2[e].ConP[n] # g /\ M[e].ConP[n] # g
    BY <1>1, <1>2, <1>12 DEF m, g0
  <2>2. \A f \in Entries \ {e} : M2[f] = M[f]
    BY <1>1
  <2>3. \A h : h \in HoldersIn(M2, n, g) <=> h \in HoldersIn(M, n, g)
    BY <2>1, <2>2, HolderIn
  <2>4. HoldersIn(M2, n, g) = HoldersIn(M, n, g)
    BY <2>3
  <2>5. ASSUME NEW t PROVE StubHoldersIn(M2, n, g, t) = StubHoldersIn(M, n, g, t)
    <3>1. \A h : h \in StubHoldersIn(M2, n, g, t) <=> h \in StubHoldersIn(M, n, g, t)
      BY <2>1, <2>2, StubHolderIn
    <3>2. QED
      BY <3>1
  <2>6. QED
    BY <2>4, <2>5
<1>13. h0 \notin StubHoldersIn(M, n, g0, s)
  BY <1>4 DEF StubHoldersIn
<1>14. QED
  <2>1. \A k \in Nodes : \A g : k # n \/ g # g0 =>
          /\ HoldersIn(M2, k, g) = HoldersIn(M, k, g)
          /\ \A t : StubHoldersIn(M2, k, g, t) = StubHoldersIn(M, k, g, t)
    BY <1>11, <1>12
  <2>2. GainsHolder(M, M2, n, g0, s, h0)
    BY <1>4, <1>8, <1>9, <1>10, <1>13, <2>1 DEF GainsHolder
  <2>3. QED
    BY <2>2 DEF g0

(* There are finitely many of them. *)
LEMMA HoldersFinite ==
  ASSUME IInv, NEW n \in Nodes
  PROVE  /\ \A g : /\ IsFiniteSet(HoldersIn(method, n, g))
                   /\ Cardinality(HoldersIn(method, n, g)) \in Nat
         /\ \A g, s : /\ IsFiniteSet(StubHoldersIn(method, n, g, s))
                      /\ Cardinality(StubHoldersIn(method, n, g, s)) \in Nat
<1> DEFINE all == Entries \X (1 .. MaxCalls)
<1>1. IsFiniteSet(all)
  <2>1. IsFiniteSet(1 .. MaxCalls)
    BY BoundsAssumption, FS_Interval
  <2>2. QED
    BY <2>1, EntriesAssumption, FS_Product
<1>2. ASSUME NEW e \in Entries, NEW i \in HeldBy(method[e], n) PROVE i \in 1 .. MaxCalls
  <2>1. method[e] \in MethodRecords /\ PoolsUsed(StubTable, method[e])
    BY EntryFacts, InvFields
  <2> DEFINE l == Len(method[e].ConN[n])
  <2>2. i \in 1 .. l /\ l \in Nat /\ l <= MaxCalls
    BY <2>1, HeldFinite DEF PoolsUsed
  <2> HIDE DEF l
  <2>3. QED
    BY <2>2, BoundsAssumption
<1>3. \A g : HoldersIn(method, n, g) \in SUBSET all
  <2> SUFFICES ASSUME NEW g, NEW h \in HoldersIn(method, n, g) PROVE h \in all
    OBVIOUS
  <2>1. PICK e \in Entries : \E i \in HeldBy(method[e], n) : h = <<e, i>>
    BY HolderIn
  <2>2. PICK i \in HeldBy(method[e], n) : h = <<e, i>>
    BY <2>1
  <2>3. QED
    BY <1>2, <2>2
<1>4. \A g, s : StubHoldersIn(method, n, g, s) \in SUBSET HoldersIn(method, n, g)
  BY DEF StubHoldersIn
<1> HIDE DEF all
<1>5. \A g : IsFiniteSet(HoldersIn(method, n, g)) /\ Cardinality(HoldersIn(method, n, g)) \in Nat
  BY <1>1, <1>3, FS_Subset, FS_CardinalityType
<1>6. QED
  BY <1>4, <1>5, FS_Subset, FS_CardinalityType

(* A penalty more or less. *)
LEMMA PenaltyMore ==
  ASSUME NEW P \in Nat \ {0}, NEW o \in Int, o % P = 0
  PROVE  (o - P) % P = 0
<1> DEFINE q == o \div P
<1>1. q \in Int /\ o = P * q + (o % P)
  OBVIOUS
<1>2. o = P * q
  <2>1. P * q \in Int
    BY <1>1
  <2>2. QED
    BY <1>1, <2>1
<1> HIDE DEF q
<1>3. P * (q - 1) = P * q - P
  BY <1>1
<1>4. (P * (q - 1)) % P = 0
  BY <1>1
<1>5. QED
  BY <1>2, <1>3, <1>4

(* What a stub counts over the calls that hold it. *)
Within(over) == over = 0 \/ (accumulate_addresses /\ over % Penalty = 0)

LEMMA WithinPenalty ==
  ASSUME NEW over \in Int, Within(over), accumulate_addresses
  PROVE  Within(over - Penalty)
<1>1. over % Penalty = 0
  <2>1. 0 % Penalty = 0
    BY PenaltyAssumption
  <2>2. QED
    BY <2>1 DEF Within
<1>2. QED
  BY <1>1, PenaltyAssumption, PenaltyMore DEF Within

(* A connector counts the calls that hold its stubs. *)
CountsIn(M, c, n, g) ==
  /\ c.total_active = Cardinality(HoldersIn(M, n, g))
  /\ \A s \in StubsOf(c) : Within(c.active[s] - Cardinality(StubHoldersIn(M, n, g, s)))

AllCounted == \A n \in Nodes : \A g \in DOMAIN connectors[n] : CountsIn(method, connectors[n][g], n, g)

LEMMA AccountingIsAllCounted == AllCounted <=> PoolAccounting
<1> SUFFICES ASSUME NEW n \in Nodes, NEW g \in DOMAIN connectors[n]
             PROVE  CountsIn(method, connectors[n][g], n, g) <=>
                      /\ connectors[n][g].total_active = Cardinality(Holders(n, g))
                      /\ \A s \in StubsOf(connectors[n][g]) :
                           Within(connectors[n][g].active[s] - Cardinality(StubHolders(n, g, s)))
  BY DEF AllCounted, PoolAccounting, Within
<1>1. QED
  BY HoldersNow DEF CountsIn

(* stub(): one more call is counted. *)
LEMMA OneMoreCounted ==
  ASSUME NEW M, NEW M2, NEW n, NEW g, NEW s, NEW h, NEW c \in ConnectorRecords,
         CountsIn(M, c, n, g), s \in StubsOf(c), GainsHolder(M, M2, n, g, s, h),
         IsFiniteSet(HoldersIn(M, n, g)), IsFiniteSet(StubHoldersIn(M, n, g, s))
  PROVE  CountsIn(M2, Allocate(c, s), n, g)
<1> USE DEF GainsHolder
<1> DEFINE all  == HoldersIn(M, n, g)
           some == StubHoldersIn(M, n, g, s)
           d    == Allocate(c, s)
<1>1. c.active \in [StubsOf(c) -> Int] /\ c.total_active \in Int
  BY RecordFields
<1>2. /\ d.total_active = c.total_active + 1 /\ StubsOf(d) = StubsOf(c)
      /\ d.active[s] = c.active[s] + 1
      /\ \A t \in StubsOf(c) : t # s => d.active[t] = c.active[t]
  BY <1>1 DEF Allocate, StubsOf
<1>3. /\ Cardinality(HoldersIn(M2, n, g)) = Cardinality(all) + 1
      /\ Cardinality(StubHoldersIn(M2, n, g, s)) = Cardinality(some) + 1
      /\ Cardinality(some) \in Nat
  <2>1. IsFiniteSet(all) /\ h \notin all /\ IsFiniteSet(some) /\ h \notin some
    OBVIOUS
  <2> HIDE DEF all, some
  <2>2. /\ Cardinality(all \union {h}) = Cardinality(all) + 1
        /\ Cardinality(some \union {h}) = Cardinality(some) + 1 /\ Cardinality(some) \in Nat
    BY <2>1, FS_AddElement, FS_CardinalityType
  <2>3. QED
    BY <2>2 DEF all, some
<1>4. c.total_active = Cardinality(all) /\ Within(c.active[s] - Cardinality(some))
      /\ \A t \in StubsOf(c) : Within(c.active[t] - Cardinality(StubHoldersIn(M, n, g, t)))
  BY DEF CountsIn
<1> HIDE DEF all, some, d
<1>5. d.total_active = Cardinality(HoldersIn(M2, n, g))
  BY <1>2, <1>3, <1>4
<1>6. Within(d.active[s] - Cardinality(StubHoldersIn(M2, n, g, s)))
  <2>1. d.active[s] - Cardinality(StubHoldersIn(M2, n, g, s)) = c.active[s] - Cardinality(some)
    <3> DEFINE a == c.active[s]
               k == Cardinality(some)
    <3>1. a \in Int /\ k \in Nat
      BY <1>1, <1>3
    <3> HIDE DEF a, k
    <3>2. (a + 1) - (k + 1) = a - k
      BY <3>1
    <3>3. QED
      BY <1>2, <1>3, <3>2 DEF a, k
  <2>2. QED
    BY <1>4, <2>1
<1>7. \A t \in StubsOf(c) : t # s => Within(d.active[t] - Cardinality(StubHoldersIn(M2, n, g, t)))
  BY <1>2, <1>4
<1>8. QED
  BY <1>2, <1>5, <1>6, <1>7 DEF CountsIn, d

(* finished(): one call less is counted, and a penalty if the stub is dropped. *)
LEMMA OneLessCounted ==
  ASSUME NEW M, NEW M2, NEW n, NEW g, NEW s, NEW h, NEW c \in ConnectorRecords,
         CountsIn(M, c, n, g), s \in StubsOf(c), NEW dropped \in BOOLEAN,
         dropped => accumulate_addresses, GainsHolder(M2, M, n, g, s, h),
         IsFiniteSet(HoldersIn(M, n, g)), IsFiniteSet(StubHoldersIn(M, n, g, s))
  PROVE  CountsIn(M2, Finish(c, s, dropped), n, g)
<1> USE DEF GainsHolder
<1> DEFINE all  == HoldersIn(M2, n, g)
           some == StubHoldersIn(M2, n, g, s)
           d    == Finish(c, s, dropped)
           off  == IF dropped THEN Penalty ELSE 0
<1>1. c.active \in [StubsOf(c) -> Int] /\ c.total_active \in Int
  BY RecordFields
<1>2. off \in Int
  BY PenaltyAssumption
<1>3. /\ d.total_active = c.total_active - 1 /\ StubsOf(d) = StubsOf(c)
      /\ d.active[s] = c.active[s] - 1 - off
      /\ \A t \in StubsOf(c) : t # s => d.active[t] = c.active[t]
  <2> HIDE DEF off
  <2>1. d = [active |-> [c.active EXCEPT ![s] = @ - 1 - off], total_active |-> c.total_active - 1]
    BY DEF Finish, off
  <2> HIDE DEF d
  <2>2. QED
    BY <1>1, <1>2, <2>1 DEF StubsOf
<1>4. IsFiniteSet(all) /\ IsFiniteSet(some)
  <2>1. all \in SUBSET HoldersIn(M, n, g) /\ some \in SUBSET StubHoldersIn(M, n, g, s)
    OBVIOUS
  <2>2. QED
    BY <2>1, FS_Subset
<1>5. /\ Cardinality(HoldersIn(M, n, g)) = Cardinality(all) + 1
      /\ Cardinality(StubHoldersIn(M, n, g, s)) = Cardinality(some) + 1
      /\ Cardinality(all) \in Nat /\ Cardinality(some) \in Nat
  BY <1>4, FS_AddElement, FS_CardinalityType
<1>6. c.total_active = Cardinality(all) + 1 /\ Within(c.active[s] - (Cardinality(some) + 1))
      /\ \A t \in StubsOf(c) : Within(c.active[t] - Cardinality(StubHoldersIn(M, n, g, t)))
  BY <1>5 DEF CountsIn
<1> DEFINE a == c.active[s]
           k == Cardinality(some)
<1>7. a \in Int /\ k \in Nat /\ Within(a - (k + 1)) /\ d.active[s] = a - 1 - off
  BY <1>1, <1>3, <1>5, <1>6
<1> HIDE DEF a, k, d
<1>8. d.total_active = Cardinality(all)
  BY <1>3, <1>5, <1>6
<1>9. Within(d.active[s] - k)
  <2>1. CASE dropped
    <3>1. (a - 1 - Penalty) - k = (a - (k + 1)) - Penalty /\ a - (k + 1) \in Int
      BY <1>7, PenaltyAssumption
    <3>2. Within((a - (k + 1)) - Penalty)
      BY <1>7, <2>1, <3>1, WithinPenalty
    <3>3. QED
      BY <1>7, <2>1, <3>1, <3>2
  <2>2. CASE ~dropped
    <3>1. (a - 1 - 0) - k = a - (k + 1)
      BY <1>7
    <3>2. QED
      BY <1>7, <2>2, <3>1
  <2>3. QED
    BY <2>1, <2>2
<1>10. \A t \in StubsOf(c) : t # s => Within(d.active[t] - Cardinality(StubHoldersIn(M2, n, g, t)))
  BY <1>3, <1>6
<1>11. QED
  BY <1>3, <1>8, <1>9, <1>10 DEF CountsIn, d, k

LEMMA StepAccounting ==
  ASSUME IInv, AllCounted, NEW e \in Entries, NEW m2, Step(e, m2)
  PROVE  AllCounted'
<1> DEFINE m == method[e]
<1>1. /\ method' = [method EXCEPT ![e] = m2] /\ PoolStep(m, m2) /\ PoolsOK
      /\ method \in [Entries -> MethodRecords]
  BY DEF Step, Become, IInv
<1>2. m2 \in MethodRecords
  BY InvFields DEF Step
<1>3. method'[e] = m2 /\ \A f \in Entries \ {e} : method'[f] = method[f]
  BY <1>1
<1>4. ASSUME KeepsHolding(m, m2), NEW n \in Nodes
      PROVE  \A g : /\ HoldersIn(method', n, g) = HoldersIn(method, n, g)
                    /\ \A s : StubHoldersIn(method', n, g, s) = StubHoldersIn(method, n, g, s)
  <2>1. \A f \in Entries :
          /\ HeldBy(method'[f], n) = HeldBy(method[f], n)
          /\ \A i \in HeldBy(method[f], n) :
               method'[f].ConN[n][i] = method[f].ConN[n][i] /\ method'[f].ConP[n] = method[f].ConP[n]
    BY <1>3, <1>4 DEF KeepsHolding
  <2>2. HeldAlike(method, method', n)
    BY <2>1 DEF HeldAlike
  <2>3. QED
    BY <2>2, SameHolders
<1>5. ASSUME KeepsHolding(m, m2), NEW n \in Nodes, NEW g \in DOMAIN connectors[n],
             connectors'[n][g] = connectors[n][g]
      PROVE  CountsIn(method', connectors'[n][g], n, g)
  <2>1. CountsIn(method, connectors[n][g], n, g)
    BY DEF AllCounted
  <2>2. QED
    BY <1>4, <1>5, <2>1 DEF CountsIn
<1>6. CASE KeepsHolding(m, m2) /\ UNCHANGED connectors
  BY <1>5, <1>6 DEF AllCounted
<1>7. ASSUME KeepsHolding(m, m2), NEW k, NEW T, Added(k, T)
      PROVE  AllCounted'
  <2> DEFINE l == Len(connectors[k]) + 1
             c == NewConnector(T)
  <2>1. /\ connectors'[k][l] = c
        /\ \A g \in DOMAIN connectors[k] : connectors'[k][g] = connectors[k][g]
        /\ DOMAIN connectors'[k] = DOMAIN connectors[k] \union {l}
        /\ \A n \in Nodes : n # k => connectors'[n] = connectors[n]
    BY <1>1, <1>7, AddedFacts
  <2>2. k \in Nodes
    BY <1>7 DEF Added
  <2>3. l \notin DOMAIN connectors[k] /\ l # 0
    BY <1>1, <2>2, TableNow
  <2> HIDE DEF l
  <2>4. HoldersIn(method, k, l) = {}
    <3> SUFFICES ASSUME NEW h \in HoldersIn(method, k, l) PROVE FALSE
      OBVIOUS
    <3>1. PICK f \in Entries : \E i \in HeldBy(method[f], k) : method[f].ConP[k] = l
      BY HolderIn
    <3>2. PoolsUsed(StubTable, method[f]) /\ DOMAIN StubTable[k] = DOMAIN connectors[k]
      BY <2>2, EntryFacts, InvFields
    <3>3. QED
      BY <2>2, <2>3, <3>1, <3>2 DEF PoolsUsed
  <2>5. /\ HoldersIn(method', k, l) = {} /\ \A s : StubHoldersIn(method', k, l, s) = {}
    BY <1>4, <1>7, <2>2, <2>4 DEF StubHoldersIn
  <2>6. c.total_active = 0 /\ \A s \in StubsOf(c) : c.active[s] = 0
    BY DEF NewConnector, StubsOf
  <2> HIDE DEF c
  <2>7. CountsIn(method', c, k, l)
    <3>1. Cardinality(HoldersIn(method', k, l)) = 0
          /\ \A s : Cardinality(StubHoldersIn(method', k, l, s)) = 0
      BY <2>5, FS_EmptySet
    <3>2. 0 - 0 = 0
      OBVIOUS
    <3>3. QED
      BY <2>6, <3>1, <3>2 DEF CountsIn, Within
  <2>8. ASSUME NEW n \in Nodes, NEW g \in DOMAIN connectors'[n]
        PROVE  CountsIn(method', connectors'[n][g], n, g)
    <3>1. CASE n = k /\ g = l
      BY <2>1, <2>7, <3>1
    <3>2. CASE ~(n = k /\ g = l)
      <4>1. g \in DOMAIN connectors[n] /\ connectors'[n][g] = connectors[n][g]
        BY <2>1, <3>2
      <4>2. QED
        BY <1>5, <1>7, <4>1
    <3>3. QED
      BY <3>1, <3>2
  <2>9. QED
    BY <2>8 DEF AllCounted
<1>8. ASSUME NEW n, NEW i, NEW s, HoldsOneMore(m, m2, n, i, s), s \in StubsOf(Pool(m, n)),
             Replaced(n, m.ConP[n], Allocate(Pool(m, n), s))
      PROVE  AllCounted'
  <2> DEFINE g0 == m.ConP[n]
             c  == Pool(m, n)
             h  == <<e, i>>
  <2>1. n \in Nodes /\ m2.ConP[n] = g0
    BY <1>8 DEF HoldsOneMore
  <2>2. c = connectors[n][g0] /\ g0 \in DOMAIN connectors[n]
    BY <1>8 DEF Replaced, Pool, Connector
  <2>3. c \in ConnectorRecords /\ CountsIn(method, c, n, g0)
    BY <1>1, <2>1, <2>2 DEF PoolsOK, AllCounted
  <2> HIDE DEF g0, c, h, m
  <2>4. /\ connectors'[n][g0] = Allocate(c, s)
        /\ \A k \in Nodes : DOMAIN connectors'[k] = DOMAIN connectors[k]
        /\ \A k \in Nodes : \A g \in DOMAIN connectors[k] :
             k # n \/ g # g0 => connectors'[k][g] = connectors[k][g]
    <3>1. Replaced(n, g0, Allocate(c, s))
      BY <1>8 DEF g0, c
    <3>2. QED
      BY <1>1, <3>1, ReplacedFacts
  <2>5. GainsHolder(method, method', n, g0, s, h)
    <3>1. HoldsOneMore(method[e], m2, n, i, s)
      BY <1>8 DEF m
    <3>2. GainsHolder(method, method', n, m2.ConP[n], s, <<e, i>>)
      BY <1>1, <3>1, OneMoreHolder DEF PutAt
    <3>3. QED
      BY <2>1, <3>2 DEF h
  <2>6. CountsIn(method', Allocate(c, s), n, g0)
    <3>1. IsFiniteSet(HoldersIn(method, n, g0)) /\ IsFiniteSet(StubHoldersIn(method, n, g0, s))
      BY <2>1, HoldersFinite
    <3>2. s \in StubsOf(c)
      BY <1>8 DEF c
    <3>3. QED
      BY <2>3, <2>5, <3>1, <3>2, OneMoreCounted
  <2>7. ASSUME NEW k \in Nodes, NEW g \in DOMAIN connectors'[k]
        PROVE  CountsIn(method', connectors'[k][g], k, g)
    <3>1. CASE k = n /\ g = g0
      BY <2>4, <2>6, <3>1
    <3>2. CASE k # n \/ g # g0
      <4>1. g \in DOMAIN connectors[k] /\ connectors'[k][g] = connectors[k][g]
        BY <2>4, <3>2
      <4>2. CountsIn(method, connectors[k][g], k, g)
        BY <4>1 DEF AllCounted
      <4>3. QED
        BY <2>5, <3>2, <4>1, <4>2 DEF CountsIn, GainsHolder
    <3>3. QED
      BY <3>1, <3>2
  <2>8. QED
    BY <2>7 DEF AllCounted
<1>9. ASSUME NEW n, NEW i, NEW s, NEW in_error \in BOOLEAN,
             HoldsOneMore(m2, m, n, i, s), s \in StubsOf(Pool(m, n)),
             Replaced(n, m.ConP[n], Finish(Pool(m, n), s, Drops(s, in_error, accumulate_addresses)))
      PROVE  AllCounted'
  <2> DEFINE g0 == m.ConP[n]
             c  == Pool(m, n)
             h  == <<e, i>>
             d  == Drops(s, in_error, accumulate_addresses)
  <2>1. n \in Nodes /\ m.ConP[n] = g0
    BY <1>9 DEF HoldsOneMore
  <2>2. c = connectors[n][g0] /\ g0 \in DOMAIN connectors[n]
    BY <1>9 DEF Replaced, Pool, Connector
  <2>3. c \in ConnectorRecords /\ CountsIn(method, c, n, g0)
    BY <1>1, <2>1, <2>2 DEF PoolsOK, AllCounted
  <2>4. d \in BOOLEAN /\ (d => accumulate_addresses)
    BY ConfigurationAssumption DEF Drops
  <2> HIDE DEF g0, c, h, m, d
  <2>5. /\ connectors'[n][g0] = Finish(c, s, d)
        /\ \A k \in Nodes : DOMAIN connectors'[k] = DOMAIN connectors[k]
        /\ \A k \in Nodes : \A g \in DOMAIN connectors[k] :
             k # n \/ g # g0 => connectors'[k][g] = connectors[k][g]
    <3>1. Replaced(n, g0, Finish(c, s, d))
      BY <1>9 DEF g0, c, d
    <3>2. QED
      BY <1>1, <3>1, ReplacedFacts
  <2>6. GainsHolder(method', method, n, g0, s, h)
    <3>1. method' \in [Entries -> MethodRecords] /\ method = [method' EXCEPT ![e] = m]
      BY <1>1, <1>2 DEF m
    <3>2. HoldsOneMore(method'[e], m, n, i, s)
      BY <1>3, <1>9
    <3>3. GainsHolder(method', method, n, m.ConP[n], s, <<e, i>>)
      BY <3>1, <3>2, OneMoreHolder DEF PutAt
    <3>4. QED
      BY <2>1, <3>3 DEF h
  <2>7. CountsIn(method', Finish(c, s, d), n, g0)
    <3>1. IsFiniteSet(HoldersIn(method, n, g0)) /\ IsFiniteSet(StubHoldersIn(method, n, g0, s))
      BY <2>1, HoldersFinite
    <3>2. s \in StubsOf(c)
      BY <1>9 DEF c
    <3>3. QED
      BY <2>3, <2>4, <2>6, <3>1, <3>2, OneLessCounted
  <2>8. ASSUME NEW k \in Nodes, NEW g \in DOMAIN connectors'[k]
        PROVE  CountsIn(method', connectors'[k][g], k, g)
    <3>1. CASE k = n /\ g = g0
      BY <2>5, <2>7, <3>1
    <3>2. CASE k # n \/ g # g0
      <4>1. g \in DOMAIN connectors[k] /\ connectors'[k][g] = connectors[k][g]
        BY <2>5, <3>2
      <4>2. CountsIn(method, connectors[k][g], k, g)
        BY <4>1 DEF AllCounted
      <4>3. QED
        BY <2>6, <3>2, <4>1, <4>2 DEF CountsIn, GainsHolder
    <3>3. QED
      BY <3>1, <3>2
  <2>9. QED
    BY <2>8 DEF AllCounted
<1>10. QED
  BY <1>1, <1>6, <1>7, <1>8, <1>9 DEF PoolStep

LEMMA InitAccounting == Init => AllCounted
<1> SUFFICES ASSUME Init, NEW n \in Nodes, NEW g \in DOMAIN connectors[n]
             PROVE  CountsIn(method, connectors[n][g], n, g)
  BY DEF AllCounted
<1>1. PICK T : connectors[n] = <<NewConnector(T)>>
  BY DEF Init
<1> DEFINE c == NewConnector(T)
<1>2. c.total_active = 0 /\ \A s \in StubsOf(c) : c.active[s] = 0
  BY DEF NewConnector, StubsOf
<1> HIDE DEF c
<1>3. connectors[n][g] = c
  BY <1>1 DEF c
<1>4. \A e \in Entries : HeldBy(method[e], n) = {}
  <2> SUFFICES ASSUME NEW e \in Entries PROVE HeldBy(method[e], n) = {}
    OBVIOUS
  <2>1. PICK async \in BOOLEAN : method[e] = InitialMethod(async)
    BY DEF Init
  <2>2. method[e].ConN[n] = <<>>
    BY <2>1 DEF InitialMethod
  <2>3. QED
    BY <2>2 DEF HeldBy
<1>5. HoldersIn(method, n, g) = {} /\ \A s : StubHoldersIn(method, n, g, s) = {}
  BY <1>4 DEF HoldersIn, StubHoldersIn
<1>6. Cardinality(HoldersIn(method, n, g)) = 0
      /\ \A s : Cardinality(StubHoldersIn(method, n, g, s)) = 0
  BY <1>5, FS_EmptySet
<1>7. 0 - 0 = 0
  OBVIOUS
<1>8. QED
  BY <1>2, <1>3, <1>6, <1>7 DEF CountsIn, Within

LEMMA NextAccounting == IInv /\ AllCounted /\ [Next]_vars => AllCounted'
<1> SUFFICES ASSUME IInv, AllCounted, [Next]_vars PROVE AllCounted'
  OBVIOUS
<1>1. CASE Next
  BY <1>1, EveryStep, StepAccounting
<1>2. CASE UNCHANGED vars
  BY <1>2 DEF vars, AllCounted, CountsIn
<1>3. QED
  BY <1>1, <1>2

(* Every connector, replaced or not, counts the calls of all requests that
   hold one of its stubs, in total and stub by stub, up to the penalties
   of dropped stubs: whatever the interleaving, the cancellations and the
   address changes, a connection goes back to where it came from, once. *)
THEOREM PoolAccountingHolds == Spec => []PoolAccounting
<1>1. Spec => []AllCounted
  BY IInvHolds, InitAccounting, NextAccounting, PTL DEF Spec
<1>2. AllCounted => PoolAccounting
  BY AccountingIsAllCounted
<1>3. QED
  BY <1>1, <1>2, PTL

-----------------------------------------------------------------------------
(* The refinement of ScatterGather: what a step does to the call states of
   one request. *)

SameStage(m, m2)  == m2.stage = m.stage
SameResult(m, m2) == m2.result = m.result
SameStatus(m, m2) == m2.status = m.status
GivenUp(m)        == m.cancelled \/ m.expired
SameFlags(m, m2)  == m2.cancelled = m.cancelled /\ m2.expired = m.expired
Running(m)        == m.result = "none"

Stays(m, m2) == SameStage(m, m2) /\ SameResult(m, m2) /\ SameStatus(m, m2) /\ SameFlags(m, m2)
GivesUp(m, m2) == SameStage(m, m2) /\ SameResult(m, m2) /\ SameStatus(m, m2) /\ GivenUp(m2)
AddsTo(c, c2) ==
  /\ Len(c2) > Len(c) /\ \A x \in DOMAIN c : c2[x] = c[x]
  /\ \A x \in DOMAIN c2 \ DOMAIN c : c2[x] \in {"unsent", "out"}
Adds(m, m2) ==
  Running(m) /\ AddsTo(m.status, m2.status) /\ SameStage(m, m2) /\ SameResult(m, m2) /\ SameFlags(m, m2)
Sends(m, m2) ==
  /\ Running(m) /\ SameStage(m, m2) /\ SameResult(m, m2) /\ SameFlags(m, m2)
  /\ \E x \in DOMAIN m.status : m.status[x] = "unsent" /\ m2.status = [m.status EXCEPT ![x] = "out"]
Answers(m, m2) ==
  /\ SameStage(m, m2) /\ SameResult(m, m2) /\ SameFlags(m, m2)
  /\ \E x \in DOMAIN m.status, s \in Ended :
       m.status[x] = "out" /\ m2.status = [m.status EXCEPT ![x] = s]
Advances(m, m2) ==
  /\ Running(m) /\ AllOk(m) /\ m.stage < Len(stages)
  /\ m2.stage = m.stage + 1 /\ m2.status = <<>> /\ SameResult(m, m2) /\ SameFlags(m, m2)
MayReturn(m, r) ==
  \/ AllOk(m) /\ m.stage = Len(stages) /\ r = "ok"
  \/ \E x \in DOMAIN m.status : m.status[x] \in Failures /\ r = m.status[x]
  \/ GivenUp(m) /\ r = "cancelled"
  \/ r \in {"no_address", "refused"}
Returns(m, m2) ==
  /\ Running(m) /\ AllEnded(m) /\ MayReturn(m, m2.result)
  /\ SameStage(m, m2) /\ SameStatus(m, m2) /\ SameFlags(m, m2)

AbstractStep(m, m2) ==
  \/ Stays(m, m2) \/ GivesUp(m, m2) \/ Adds(m, m2) \/ Sends(m, m2)
  \/ Answers(m, m2) \/ Advances(m, m2) \/ Returns(m, m2)

StageOf  == [e \in Entries |-> method[e].stage]
CallsOf  == [e \in Entries |-> method[e].status]
FlagOf   == [e \in Entries |-> method[e].cancelled \/ method[e].expired]
ResultOf == [e \in Entries |-> method[e].result]

LEMMA MappedStep ==
  ASSUME NEW e \in Entries, NEW m, NEW m2, m = method[e], method \in [Entries -> MethodRecords],
         Become(e, m2), AbstractStep(m, m2)
  PROVE  [Promise!Next]_(Promise!vars)
<1>1. method'[e] = m2 /\ \A f \in Entries \ {e} : method'[f] = method[f]
  BY DEF Become
<1>2. /\ StageOf[e] = m.stage /\ CallsOf[e] = m.status /\ ResultOf[e] = m.result
      /\ FlagOf[e] = (m.cancelled \/ m.expired)
  BY DEF StageOf, CallsOf, ResultOf, FlagOf
<1>3. /\ StageOf' = [StageOf EXCEPT ![e] = m2.stage]
      /\ CallsOf' = [CallsOf EXCEPT ![e] = m2.status]
      /\ ResultOf' = [ResultOf EXCEPT ![e] = m2.result]
  BY <1>1 DEF StageOf, CallsOf, ResultOf
<1>4. GivenUp(m2) => FlagOf' = [FlagOf EXCEPT ![e] = TRUE]
  <2> SUFFICES ASSUME GivenUp(m2) PROVE FlagOf' = [FlagOf EXCEPT ![e] = TRUE]
    OBVIOUS
  <2>1. (method'[e].cancelled \/ method'[e].expired) = TRUE
    BY <1>1 DEF GivenUp
  <2>2. \A f \in Entries \ {e} :
          (method'[f].cancelled \/ method'[f].expired) = (method[f].cancelled \/ method[f].expired)
    BY <1>1
  <2>3. /\ DOMAIN FlagOf = Entries /\ DOMAIN FlagOf' = Entries
        /\ FlagOf'[e] = TRUE /\ \A f \in Entries \ {e} : FlagOf'[f] = FlagOf[f]
    BY <2>1, <2>2 DEF FlagOf
  <2>4. FlagOf = [f \in Entries |-> FlagOf[f]] /\ FlagOf' = [f \in Entries |-> FlagOf'[f]]
    BY DEF FlagOf
  <2>5. QED
    BY <2>3, <2>4
<1>5. SameFlags(m, m2) => FlagOf' = FlagOf
  <2>1. SUFFICES ASSUME SameFlags(m, m2), NEW f \in Entries
                 PROVE (method'[f].cancelled \/ method'[f].expired) = (method[f].cancelled \/ method[f].expired)
    BY DEF FlagOf
  <2>2. CASE f = e
    BY <1>1, <2>1, <2>2 DEF SameFlags
  <2>3. CASE f # e
    BY <1>1, <2>3
  <2>4. QED
    BY <2>2, <2>3
<1>6. CASE Stays(m, m2)
  BY <1>2, <1>3, <1>5, <1>6 DEF Stays, SameStage, SameResult, SameStatus, Promise!vars, StageOf, CallsOf, FlagOf, ResultOf
<1>7. CASE GivesUp(m, m2)
  <2>1. Promise!Cancel(e)
    <3>1. StageOf' = StageOf /\ CallsOf' = CallsOf /\ ResultOf' = ResultOf
      BY <1>2, <1>3, <1>7 DEF GivesUp, SameStage, SameResult, SameStatus, StageOf, CallsOf, ResultOf
    <3>2. FlagOf' = [FlagOf EXCEPT ![e] = TRUE]
      BY <1>4, <1>7 DEF GivesUp
    <3>3. QED
      BY <3>1, <3>2 DEF Promise!Cancel, StageOf, CallsOf, FlagOf, ResultOf
  <2>2. QED
    BY <2>1 DEF Promise!Next
<1>8. CASE Adds(m, m2)
  <2>1. Promise!Add(e)
    <3>1. /\ Running(m) /\ AddsTo(m.status, m2.status)
          /\ SameStage(m, m2) /\ SameResult(m, m2) /\ SameFlags(m, m2)
      BY <1>8 DEF Adds
    <3>2. StageOf' = StageOf /\ ResultOf' = ResultOf /\ FlagOf' = FlagOf /\ ResultOf[e] = "none"
      BY <1>2, <1>3, <1>5, <3>1 DEF Running, SameStage, SameResult, StageOf, ResultOf
    <3>3. CallsOf'[e] = m2.status /\ \A f \in Entries \ {e} : CallsOf'[f] = CallsOf[f]
      BY <1>1 DEF CallsOf
    <3>4. QED
      BY <1>2, <3>1, <3>2, <3>3 DEF AddsTo, Promise!Add, Promise!Running, StageOf, CallsOf, FlagOf, ResultOf
  <2>2. QED
    BY <2>1 DEF Promise!Next
<1>9. CASE Sends(m, m2)
  <2>0. PICK x \in DOMAIN m.status :
          m.status[x] = "unsent" /\ m2.status = [m.status EXCEPT ![x] = "out"]
    BY <1>9 DEF Sends
  <2>1. Promise!Send(e)
    <3>1. /\ x \in DOMAIN CallsOf[e] /\ CallsOf[e][x] = "unsent"
          /\ CallsOf' = [CallsOf EXCEPT ![e][x] = "out"]
      BY <1>2, <1>3, <2>0
    <3>0. Running(m) /\ SameStage(m, m2) /\ SameResult(m, m2) /\ SameFlags(m, m2)
      BY <1>9 DEF Sends
    <3>2. StageOf' = StageOf /\ ResultOf' = ResultOf /\ FlagOf' = FlagOf /\ ResultOf[e] = "none"
      BY <1>2, <1>3, <1>5, <3>0 DEF Running, SameStage, SameResult, StageOf, ResultOf
    <3>3. QED
      BY <3>1, <3>2 DEF Promise!Send, Promise!Running, StageOf, CallsOf, FlagOf, ResultOf
  <2>2. QED
    BY <2>1 DEF Promise!Next
<1>10. CASE Answers(m, m2)
  <2>0. PICK x \in DOMAIN m.status, s \in Ended :
          m.status[x] = "out" /\ m2.status = [m.status EXCEPT ![x] = s]
    BY <1>10 DEF Answers
  <2>1. Promise!Answer(e)
    <3>1. /\ x \in DOMAIN CallsOf[e] /\ CallsOf[e][x] = "out" /\ s \in Promise!Ended
          /\ CallsOf' = [CallsOf EXCEPT ![e][x] = s]
      BY <1>2, <1>3, <2>0 DEF Ended, Failures, Promise!Ended, Promise!Failures
    <3>2. StageOf' = StageOf /\ ResultOf' = ResultOf /\ FlagOf' = FlagOf
      BY <1>2, <1>3, <1>5, <1>10 DEF Answers, SameStage, SameResult, StageOf, ResultOf
    <3>3. QED
      BY <3>1, <3>2 DEF Promise!Answer, StageOf, CallsOf, FlagOf, ResultOf
  <2>2. QED
    BY <2>1 DEF Promise!Next
<1>11. CASE Advances(m, m2)
  <2>0. /\ Running(m) /\ AllOk(m) /\ m.stage < Len(stages) /\ m2.stage = m.stage + 1
        /\ m2.status = <<>> /\ SameResult(m, m2) /\ SameFlags(m, m2)
    BY <1>11 DEF Advances
  <2>1. /\ ResultOf' = ResultOf /\ FlagOf' = FlagOf /\ ResultOf[e] = "none"
        /\ StageOf' = [StageOf EXCEPT ![e] = @ + 1] /\ CallsOf' = [CallsOf EXCEPT ![e] = <<>>]
        /\ StageOf[e] < Len(stages)
    BY <1>2, <1>3, <1>5, <2>0 DEF Running, SameResult, ResultOf
  <2>2. Promise!Running(e) /\ Promise!Done(e)
    BY <1>2, <2>0 DEF AllOk, Running, Promise!Running, Promise!Done
  <2>3. Promise!Advance(e)
    BY <2>1, <2>2 DEF Promise!Advance, StageOf, CallsOf, FlagOf, ResultOf
  <2>4. QED
    BY <2>3 DEF Promise!Next
<1>12. CASE Returns(m, m2)
  <2>1. Promise!Return(e)
    <3> DEFINE r == m2.result
    <3>1. StageOf' = StageOf /\ CallsOf' = CallsOf /\ FlagOf' = FlagOf /\ ResultOf[e] = "none"
          /\ ResultOf' = [ResultOf EXCEPT ![e] = r]
      BY <1>2, <1>3, <1>5, <1>12 DEF Returns, Running, SameStage, SameStatus, StageOf, CallsOf
    <3>2. Promise!Running(e) /\ Promise!Quiet(e)
      BY <1>2, <1>12, <3>1 DEF Returns, AllEnded, Promise!Running, Promise!Quiet, CallsOf, ResultOf
    <3> DEFINE Allowed ==
          \/ Promise!Done(e) /\ StageOf[e] = Len(stages) /\ r = "ok"
          \/ \E x \in DOMAIN CallsOf[e] : CallsOf[e][x] \in Promise!Failures /\ r = CallsOf[e][x]
          \/ FlagOf[e] /\ r = "cancelled"
          \/ r \in {"no_address", "refused"}
    <3>3. MayReturn(m, r)
      BY <1>12 DEF Returns
    <3>4. Allowed
      <4>1. CASE AllOk(m) /\ m.stage = Len(stages) /\ r = "ok"
        BY <1>2, <4>1 DEF AllOk, Promise!Done, CallsOf
      <4>2. CASE \E x \in DOMAIN m.status : m.status[x] \in Failures /\ r = m.status[x]
        BY <1>2, <4>2 DEF Failures, Promise!Failures
      <4>3. CASE GivenUp(m) /\ r = "cancelled"
        BY <1>2, <4>3 DEF GivenUp
      <4>4. QED
        BY <3>3, <4>1, <4>2, <4>3 DEF MayReturn
    <3> HIDE DEF r
    <3>5. QED
      BY <3>1, <3>2, <3>4 DEF Promise!Return, StageOf, CallsOf, FlagOf, ResultOf
  <2>2. QED
    BY <2>1 DEF Promise!Next
<1>13. QED
  BY <1>6, <1>7, <1>8, <1>9, <1>10, <1>11, <1>12 DEF AbstractStep

-----------------------------------------------------------------------------
(* What the steps of a thread are made of. *)

LEMMA AfterStay ==
  ASSUME NEW m, NEW m1, NEW m2
  PROVE  /\ Stays(m, m1) /\ AbstractStep(m1, m2) => AbstractStep(m, m2)
         /\ AbstractStep(m, m1) /\ Stays(m1, m2) => AbstractStep(m, m2)
         /\ Stays(m, m2) => AbstractStep(m, m2)
<1> USE DEF Stays, GivesUp, Adds, Sends, Answers, Advances, Returns, SameStage, SameResult,
            SameStatus, SameFlags, Running, GivenUp
<1>1. ASSUME Stays(m, m1), AbstractStep(m1, m2) PROVE AbstractStep(m, m2)
  <2>1. AllOk(m) = AllOk(m1) /\ AllEnded(m) = AllEnded(m1)
        /\ (MayReturn(m, m2.result) = MayReturn(m1, m2.result))
    BY <1>1 DEF AllOk, AllEnded, MayReturn
  <2>2. Stays(m1, m2) => Stays(m, m2)
    BY <1>1
  <2>3. GivesUp(m1, m2) => GivesUp(m, m2)
    BY <1>1
  <2>4. (Adds(m1, m2) => Adds(m, m2)) /\ (Sends(m1, m2) => Sends(m, m2))
    BY <1>1
  <2>5. Answers(m1, m2) => Answers(m, m2)
    BY <1>1
  <2>6. (Advances(m1, m2) => Advances(m, m2)) /\ (Returns(m1, m2) => Returns(m, m2))
    BY <1>1, <2>1
  <2>7. QED
    BY <1>1, <2>2, <2>3, <2>4, <2>5, <2>6 DEF AbstractStep
<1>2. ASSUME AbstractStep(m, m1), Stays(m1, m2) PROVE AbstractStep(m, m2)
  BY <1>2 DEF AbstractStep
<1>3. QED
  BY <1>1, <1>2 DEF AbstractStep

LEMMA ReturnedStep ==
  ASSUME NEW m \in MethodRecords, NEW r, m.result = "none", AllEnded(m), MayReturn(m, r)
  PROVE  AbstractStep(m, Returned(m, r))
<1> DEFINE m2 == Returned(m, r)
<1>1. /\ m2.stage = m.stage /\ m2.status = m.status /\ m2.cancelled = m.cancelled
      /\ m2.expired = m.expired /\ m2.result = r
  BY DEF Returned, MethodRecords
<1> HIDE DEF m2
<1>2. Returns(m, m2)
  BY <1>1 DEF Returns, Running, SameStage, SameStatus, SameFlags
<1>3. QED
  BY <1>2 DEF AbstractStep, m2

LEMMA NextStageStep ==
  ASSUME NEW m \in MethodRecords, m.result = "none", AllOk(m), m.stage \in DOMAIN stages,
         NEW r \in Filled
  PROVE  AbstractStep(m, NextStage(m, r))
<1>1. AllEnded(m)
  BY DEF AllOk, AllEnded
<1>2. CASE m.stage = Len(stages)
  <2>1. MayReturn(m, r)
    BY <1>2 DEF MayReturn, Filled
  <2>2. QED
    BY <1>1, <1>2, <2>1, ReturnedStep DEF NextStage
<1>3. CASE m.stage # Len(stages)
  <2> DEFINE none == <<>>
             next == m.stage + 1
             m2   == NextStage(m, r)
  <2>1. m2 = [m EXCEPT !.pc = "prepare", !.stage = next, !.at = 1,
                       !.status = none, !.event = 0, !.recv = 0]
    BY <1>3 DEF NextStage, MethodRecords
  <2>2. m.stage < Len(stages)
    BY <1>3, StagesAssumption
  <2> HIDE DEF none, next, m2
  <2>3. /\ m2.stage = next /\ m2.status = none /\ m2.result = m.result
        /\ m2.cancelled = m.cancelled /\ m2.expired = m.expired
    BY <2>1 DEF MethodRecords
  <2>4. Advances(m, m2)
    BY <2>2, <2>3 DEF Advances, Running, SameResult, SameFlags, none, next
  <2>5. QED
    BY <2>4 DEF AbstractStep, m2
<1>4. QED
  BY <1>2, <1>3

LEMMA RestStays ==
  ASSUME NEW m \in MethodRecords
  PROVE  Stays(m, Handled(m)) /\ \A n : Stays(m, NextCall(m, n))
<1> USE DEF Stays, SameStage, SameResult, SameStatus, SameFlags
<1>1. Stays(m, Handled(m))
  <2>1. CASE m.status[m.event] # "ok"
    BY <2>1 DEF Handled, MethodRecords
  <2>2. CASE m.status[m.event] = "ok"
    <3> DEFINE next == m.recv + 1
               pc2  == IF m.recv + 1 < Len(m.status) THEN "wait" ELSE "drain"
    <3>1. Handled(m) = [m EXCEPT !.recv = next, !.pc = pc2]
      BY <2>2 DEF Handled, MethodRecords
    <3> HIDE DEF next, pc2
    <3>2. QED
      BY <3>1 DEF MethodRecords
  <2>3. QED
    BY <2>1, <2>2
<1>2. ASSUME NEW n PROVE Stays(m, NextCall(m, n))
  <2>1. CASE Len(m.status) < m.end[n]
    BY <2>1 DEF NextCall, MethodRecords
  <2>2. CASE ~(Len(m.status) < m.end[n])
    <3> DEFINE next == m.at + 1
    <3>1. NextCall(m, n) = [m EXCEPT !.pc = "prepare", !.at = next]
      BY <2>2 DEF NextCall, MethodRecords
    <3> HIDE DEF next
    <3>2. QED
      BY <3>1 DEF MethodRecords
  <2>3. QED
    BY <2>1, <2>2
<1>3. QED
  BY <1>1, <1>2

(* The next call of a node is sent. *)
LEMMA SentStep ==
  ASSUME NEW S, TableOK(S), NEW m, NEW n, NEW s, CanSend(S, m, n, s), m.result = "none",
         m.status[m.begin[n] + (m.sent[n] + 1)] = "unsent"
  PROVE  AbstractStep(m, SendCall(m, n, s)) /\ SendCall(m, n, s) \in MethodRecords
<1> DEFINE x  == m.begin[n] + (m.sent[n] + 1)
           m2 == SendCall(m, n, s)
<1>1. AfterSending(S, m, n, s, m2) /\ x \in DOMAIN m.status /\ m.status[x] = "unsent"
  BY SentFacts DEF CanSend
<1> HIDE DEF m2
<1>2. /\ m2 \in MethodRecords /\ m2.stage = m.stage /\ m2.result = m.result
      /\ m2.cancelled = m.cancelled /\ m2.expired = m.expired
      /\ m2.status = [m.status EXCEPT ![x] = "out"]
  BY <1>1 DEF AfterSending, SameRanges
<1> HIDE DEF x
<1>3. Sends(m, m2)
  BY <1>1, <1>2 DEF Sends, Running, SameStage, SameResult, SameFlags
<1>4. QED
  BY <1>2, <1>3 DEF AbstractStep, m2

(* Calls are added to those of the stage. *)
LEMMA AddedStep ==
  ASSUME NEW m \in MethodRecords, NEW m2, m.result = "none", AddsTo(m.status, m2.status),
         SameStage(m, m2), SameResult(m, m2), SameFlags(m, m2)
  PROVE  AbstractStep(m, m2)
  BY DEF AbstractStep, Adds, Running

LEMMA CallAppended ==
  ASSUME NEW c \in Seq(CallStates)
  PROVE  AddsTo(c, Append(c, "out"))
<1> DEFINE c2 == Append(c, "out")
<1>1. "out" \in CallStates
  BY DEF CallStates
<1>2. /\ c2 \in Seq(CallStates) /\ Len(c2) = Len(c) + 1
      /\ \A i \in 1 .. Len(c) : c2[i] = c[i]
      /\ c2[Len(c) + 1] = "out"
  BY <1>1, AppendProperties
<1>3. Len(c) \in Nat /\ DOMAIN c = 1 .. Len(c) /\ DOMAIN c2 = 1 .. Len(c2)
  BY <1>2
<1> HIDE DEF c2
<1>4. QED
  BY <1>2, <1>3 DEF AddsTo, c2

LEMMA CallsFilled ==
  ASSUME NEW c \in Seq(CallStates), NEW k \in Nat
  PROVE  /\ k = 0 => c \o Fill(k, "unsent") = c
         /\ k > 0 => AddsTo(c, c \o Fill(k, "unsent"))
<1> DEFINE f  == Fill(k, "unsent")
           c2 == c \o f
<1>1. f \in Seq(CallStates) /\ Len(f) = k /\ \A i \in DOMAIN f : f[i] = "unsent"
  BY FillFacts DEF CallStates
<1> HIDE DEF f
<1>2. /\ c2 \in Seq(CallStates) /\ Len(c2) = Len(c) + k
      /\ \A i \in 1 .. Len(c) + k : c2[i] = IF i <= Len(c) THEN c[i] ELSE f[i - Len(c)]
  BY <1>1, ConcatProperties
<1> DEFINE l == Len(c)
<1>3. l \in Nat /\ DOMAIN c = 1 .. l /\ DOMAIN c2 = 1 .. l + k /\ DOMAIN f = 1 .. k
  BY <1>1, <1>2
<1> HIDE DEF c2, l
<1>4. ASSUME k = 0 PROVE c2 = c
  <2>1. Len(c2) = Len(c) /\ \A i \in 1 .. Len(c) : c2[i] = c[i]
    <3>1. Len(c2) = l /\ \A i \in 1 .. l : i \in 1 .. l + k /\ i <= l
      BY <1>2, <1>3, <1>4 DEF l
    <3>2. QED
      BY <1>2, <3>1 DEF l
  <2>2. QED
    BY <1>2, <2>1, SeqEqual
<1>5. ASSUME k > 0 PROVE AddsTo(c, c2)
  <2>0. \A x \in DOMAIN c : x \in 1 .. l + k /\ x <= l
    BY <1>3
  <2>1. \A x \in DOMAIN c2 \ DOMAIN c : x - l \in 1 .. k /\ x \in 1 .. l + k /\ ~(x <= l)
    BY <1>3
  <2>2. /\ \A x \in DOMAIN c2 \ DOMAIN c : c2[x] = "unsent"
        /\ \A x \in DOMAIN c : c2[x] = c[x]
    BY <1>1, <1>2, <1>3, <2>0, <2>1 DEF l
  <2>3. Len(c2) > Len(c)
    BY <1>2, <1>3, <1>5 DEF l
  <2>4. QED
    BY <1>2, <1>3, <2>2, <2>3 DEF AddsTo, l
<1>6. QED
  BY <1>4, <1>5 DEF c2, f

-----------------------------------------------------------------------------
(* Every action takes a step ScatterGather allows, or none. *)

Promised(e) == \E m2 : Become(e, m2) /\ AbstractStep(method[e], m2)

(* Before its calls are sent, a thread has none under way. *)
LEMMA BeforeSending ==
  ASSUME IInv, NEW e \in Entries, method[e].pc \in {"prepare", "call"}
  PROVE  AllEnded(method[e]) /\ method[e].result = "none" /\ method[e] \in MethodRecords
<1>1. MethodInv(StubTable, method[e])
  BY EntryFacts
<1>2. method[e].result = "none" /\ method[e] \in MethodRecords
  BY <1>1, InvFields
<1>3. AllEnded(method[e])
  BY <1>1, PreparingInv DEF MethodInv, CallInv, AllOk, AllEnded
<1>4. QED
  BY <1>2, <1>3

LEMMA ErrorCheckPromised ==
  ASSUME IInv, NEW e \in Entries, ErrorCheck(e)
  PROVE  Promised(e)
<1>1. method[e].pc = "prepare" /\ Become(e, Returned(method[e], "refused"))
  BY DEF ErrorCheck
<1>2. MayReturn(method[e], "refused")
  BY DEF MayReturn
<1>3. QED
  BY <1>1, <1>2, BeforeSending, ReturnedStep DEF Promised

LEMMA PreparePromised ==
  ASSUME IInv, NEW e \in Entries, Prepare(e)
  PROVE  Promised(e)
<1> DEFINE m    == method[e]
           n    == NodesOf(m)[m.at]
           last == Len(connectors'[n])
<1>1. m.pc = "prepare" /\ m \in MethodRecords /\ m.result = "none" /\ AllEnded(m)
  BY BeforeSending DEF Prepare
<1>2. PICK k \in 0 .. MaxCalls :
        LET node == Started(m, n, last, <<>>, k)
        IN  \/ Become(e, NextCall(node, n))
            \/ \E r \in {"no_address", "refused"} : Become(e, Returned(m, r))
            \/ Become(e, [node EXCEPT !.at = @ + 1, !.ConN[n] = Fill(k, NoConn),
                                      !.status = @ \o Fill(k, "unsent")])
  BY DEF Prepare, Started
<1> DEFINE node == Started(m, n, last, <<>>, k)
           m2   == [node EXCEPT !.at = @ + 1, !.ConN[n] = Fill(k, NoConn),
                                !.status = @ \o Fill(k, "unsent")]
<1>3. k \in Nat
  BY BoundsAssumption
<1> HIDE DEF m, n, last
<1>4. Stays(m, node)
  BY <1>1 DEF Started, MethodRecords, Stays, SameStage, SameResult, SameStatus, SameFlags
<1>5. CASE Become(e, NextCall(node, n))
  <2>1. /\ NextCall(node, n).stage = node.stage /\ NextCall(node, n).status = node.status
        /\ NextCall(node, n).result = node.result
        /\ NextCall(node, n).cancelled = node.cancelled /\ NextCall(node, n).expired = node.expired
    <3> DEFINE next == node.at + 1
    <3>1. DOMAIN node = DOMAIN m
      BY <1>1 DEF Started
    <3>2. NextCall(node, n) = IF Len(node.status) < node.end[n] THEN [node EXCEPT !.pc = "call"]
                              ELSE [node EXCEPT !.pc = "prepare", !.at = next]
      BY DEF NextCall
    <3> HIDE DEF node, next
    <3>3. QED
      BY <3>2
  <2>2. Stays(node, NextCall(node, n))
    BY <2>1 DEF Stays, SameStage, SameResult, SameStatus, SameFlags
  <2> HIDE DEF node
  <2>3. AbstractStep(m, NextCall(node, n))
    BY <1>4, <2>2, AfterStay
  <2>4. QED
    BY <1>5, <2>3 DEF Promised, m
<1>6. ASSUME NEW r \in {"no_address", "refused"}, Become(e, Returned(m, r))
      PROVE  Promised(e)
  <2>1. MayReturn(m, r)
    BY DEF MayReturn
  <2>2. QED
    BY <1>1, <1>6, <2>1, ReturnedStep DEF Promised, m
<1>7. CASE Become(e, m2)
  <2> DEFINE c2 == m.status \o Fill(k, "unsent")
  <2>1. m2.status = c2 /\ m2.stage = m.stage /\ m2.result = m.result
        /\ m2.cancelled = m.cancelled /\ m2.expired = m.expired
    <3> DEFINE numbers == Fill(k, NoConn)
               next    == node.at + 1
    <3>1. node.status = m.status
      BY <1>4 DEF Stays, SameStatus
    <3>2. m2 = [node EXCEPT !.at = next, !.ConN[n] = numbers, !.status = c2]
      BY <3>1
    <3>3. {"status", "stage", "result", "cancelled", "expired"} \subseteq DOMAIN node
      BY <1>1 DEF Started, MethodRecords
    <3> HIDE DEF m2, c2, numbers, next, node
    <3>4. m2.status = c2 /\ m2.stage = node.stage /\ m2.result = node.result
          /\ m2.cancelled = node.cancelled /\ m2.expired = node.expired
      BY <3>2, <3>3
    <3>5. QED
      BY <1>4, <3>4 DEF Stays, SameStage, SameResult, SameFlags
  <2> HIDE DEF m2
  <2>2. m.status \in Seq(CallStates)
    BY <1>1 DEF MethodRecords
  <2>3. AbstractStep(m, m2)
    <3>1. CASE k = 0
      <4>1. Stays(m, m2)
        BY <1>3, <2>1, <2>2, <3>1, CallsFilled DEF Stays, SameStage, SameResult, SameStatus, SameFlags
      <4>2. QED
        BY <4>1, AfterStay
    <3>2. CASE k > 0
      <4>1. AddsTo(m.status, m2.status)
        BY <1>3, <2>1, <2>2, <3>2, CallsFilled
      <4>2. SameStage(m, m2) /\ SameResult(m, m2) /\ SameFlags(m, m2)
        BY <2>1 DEF SameStage, SameResult, SameFlags
      <4>3. QED
        BY <1>1, <4>1, <4>2, AddedStep
    <3>3. QED
      BY <1>3, <3>1, <3>2
  <2>4. QED
    BY <1>7, <2>3 DEF Promised, m
<1>8. QED
  BY <1>2, <1>5, <1>6, <1>7

LEMMA CallPromised ==
  ASSUME IInv, NEW e \in Entries, Call(e)
  PROVE  Promised(e)
<1> DEFINE m == method[e]
           n == NodesOf(m)[m.at]
<1>1. m.pc = "call" /\ m \in MethodRecords /\ m.result = "none" /\ AllEnded(m)
  BY BeforeSending DEF Call
<1>2. \/ m.cancelled /\ Become(e, Returned(m, "cancelled"))
      \/ \E r \in {"no_address", "refused"} : Become(e, Returned(m, r))
      \/ \E s : Become(e, [m EXCEPT !.pc = "called", !.ConN[n] = Append(@, s),
                                    !.status = Append(@, "out")])
  BY DEF Call
<1> HIDE DEF m, n
<1>3. CASE m.cancelled /\ Become(e, Returned(m, "cancelled"))
  <2>1. MayReturn(m, "cancelled")
    BY <1>3 DEF MayReturn, GivenUp
  <2>2. QED
    BY <1>1, <1>3, <2>1, ReturnedStep DEF Promised, m
<1>4. ASSUME NEW r \in {"no_address", "refused"}, Become(e, Returned(m, r))
      PROVE  Promised(e)
  <2>1. MayReturn(m, r)
    BY DEF MayReturn
  <2>2. QED
    BY <1>1, <1>4, <2>1, ReturnedStep DEF Promised, m
<1>5. ASSUME NEW s, Become(e, [m EXCEPT !.pc = "called", !.ConN[n] = Append(@, s),
                                        !.status = Append(@, "out")])
      PROVE  Promised(e)
  <2> DEFINE c2 == Append(m.status, "out")
             m2 == [m EXCEPT !.pc = "called", !.ConN[n] = Append(@, s), !.status = Append(@, "out")]
             numbers == Append(m.ConN[n], s)
  <2>1. m2 = [m EXCEPT !.pc = "called", !.ConN[n] = numbers, !.status = c2]
    OBVIOUS
  <2>2. AddsTo(m.status, c2)
    BY <1>1, CallAppended DEF MethodRecords
  <2>3. Become(e, m2)
    BY <1>5
  <2> HIDE DEF m2, c2, numbers
  <2>4. m2.status = c2 /\ SameStage(m, m2) /\ SameResult(m, m2) /\ SameFlags(m, m2)
    BY <1>1, <2>1 DEF MethodRecords, SameStage, SameResult, SameFlags
  <2>5. AbstractStep(m, m2)
    BY <1>1, <2>2, <2>4, AddedStep
  <2>6. QED
    BY <2>3, <2>5 DEF Promised, m
<1>6. QED
  BY <1>2, <1>3, <1>4, <1>5

LEMMA CalledPromised ==
  ASSUME IInv, NEW e \in Entries, Called(e)
  PROVE  Promised(e)
<1> DEFINE m  == method[e]
           n  == NodesOf(m)[m.at]
           s  == m.status[Len(m.status)]
           i  == Len(m.ConN[n])
           m1 == [m EXCEPT !.ConN[n][i] = NoConn]
           l  == Len(m.status)
<1>1. /\ m \in MethodRecords /\ MethodInv(StubTable, m) /\ m.pc = "called" /\ m.result = "none"
      /\ s # "out"
  BY EntryFacts, InvFields DEF Called
<1>2. Become(e, IF s = "ok" THEN NextCall(m1, n) ELSE Returned(m1, s))
  BY DEF Called
<1>3. CalledInv(m) /\ InTurnInv(m)
  BY <1>1 DEF MethodInv, CalledInv
<1>4. l \in Nat /\ DOMAIN m.status = 1 .. l /\ m.status \in Seq(CallStates)
  BY <1>1 DEF MethodRecords
<1>5. l \in DOMAIN m.status /\ s \in Ended
  <2>1. l > 0
    <3> DEFINE b == m.begin[n]
               j == Len(m.ConN[n])
    <3>1. n \in Nodes
      <4>1. m.at \in DOMAIN NodesOf(m)
        BY <1>1, <1>3, InvFields, StageNodes DEF InTurnInv
      <4>2. QED
        BY <1>1, <4>1, InvFields, StageNodes
    <3>2. b \in Nat /\ j \in Nat /\ j > 0 /\ b + j = l
      BY <1>1, <1>3, <3>1, HeldFinite DEF MethodRecords, InTurnInv, CalledInv
    <3> HIDE DEF b, j, l
    <3>3. QED
      BY <3>2
  <2>2. l \in DOMAIN m.status
    BY <1>4, <2>1
  <2>3. s \in CallStates /\ s # "unsent"
    BY <1>3, <1>4, <2>2 DEF CalledInv
  <2>4. QED
    BY <1>1, <2>2, <2>3 DEF CallStates
<1> HIDE DEF i, n
<1>6. Stays(m, m1) /\ m1.result = "none" /\ m1.status = m.status
  BY <1>1 DEF MethodRecords, Stays, SameStage, SameResult, SameStatus, SameFlags
<1>7. CASE s = "ok"
  <2>1. Stays(m1, NextCall(m1, n))
    <3> DEFINE next == m1.at + 1
    <3>1. NextCall(m1, n) = IF Len(m1.status) < m1.end[n] THEN [m1 EXCEPT !.pc = "call"]
                            ELSE [m1 EXCEPT !.pc = "prepare", !.at = next]
      BY DEF NextCall
    <3> HIDE DEF m1, next
    <3>2. QED
      BY <3>1 DEF Stays, SameStage, SameResult, SameStatus, SameFlags
  <2> HIDE DEF m1
  <2>2. AbstractStep(m, NextCall(m1, n))
    BY <1>6, <2>1, AfterStay
  <2>3. QED
    BY <1>2, <1>7, <2>2 DEF Promised
<1>8. CASE s # "ok"
  <2>1. AllEnded(m)
    <3>1. \A X \in DOMAIN m.status : X = l \/ X \in 1 .. l - 1
      BY <1>4
    <3>2. QED
      BY <1>1, <1>3, <3>1 DEF CalledInv, AllEnded
  <2>2. MayReturn(m, s)
    BY <1>5, <1>8 DEF MayReturn, Ended
  <2>3. Stays(m, m1)
    BY <1>6
  <2>4. /\ Returned(m1, s).stage = m.stage /\ Returned(m1, s).status = m.status
        /\ Returned(m1, s).cancelled = m.cancelled /\ Returned(m1, s).expired = m.expired
        /\ Returned(m1, s).result = s
    <3>1. "result" \in DOMAIN m1
      BY <1>1 DEF MethodRecords
    <3> HIDE DEF m1, s
    <3>2. QED
      BY <1>6, <3>1 DEF Returned, Stays, SameStage, SameResult, SameStatus, SameFlags
  <2> HIDE DEF m1, s
  <2>5. Returns(m, Returned(m1, s))
    BY <1>1, <2>1, <2>2, <2>4 DEF Returns, Running, SameStage, SameStatus, SameFlags
  <2>6. AbstractStep(m, Returned(m1, s))
    BY <2>5 DEF AbstractStep
  <2>7. QED
    BY <1>2, <1>8, <2>6 DEF Promised
<1>9. QED
  BY <1>7, <1>8

LEMMA EndNodesPromised ==
  ASSUME IInv, NEW e \in Entries, EndNodes(e)
  PROVE  Promised(e)
<1> DEFINE m == method[e]
<1>1. /\ m \in MethodRecords /\ MethodInv(StubTable, m) /\ m.pc = "prepare" /\ m.result = "none"
      /\ m.stage \in DOMAIN stages
  BY EntryFacts, InvFields DEF EndNodes
<1>0. PICK r \in Filled :
        Become(e, IF m.async_calls /\ Len(m.status) > 0 THEN [m EXCEPT !.pc = "send"]
                  ELSE NextStage(m, r))
  BY DEF EndNodes
<1>2. CASE m.async_calls /\ Len(m.status) > 0
  <2>1. Stays(m, [m EXCEPT !.pc = "send"])
    BY <1>1 DEF MethodRecords, Stays, SameStage, SameResult, SameStatus, SameFlags
  <2>2. QED
    BY <1>0, <1>1, <1>2, <2>1, AfterStay DEF Promised
<1>3. CASE ~(m.async_calls /\ Len(m.status) > 0)
  <2>1. AllOk(m)
    <3>1. PrepareInv(StubTable, m)
      BY <1>1 DEF MethodInv
    <3>2. m.async_calls => DOMAIN m.status = {}
      BY <1>1, <1>3 DEF MethodRecords
    <3>3. QED
      BY <1>1, <3>1, <3>2 DEF PrepareInv, AllOk, MethodRecords
  <2>2. QED
    BY <1>0, <1>1, <1>3, <2>1, NextStageStep DEF Promised
<1>4. QED
  BY <1>2, <1>3

LEMMA SendPromised ==
  ASSUME IInv, NEW e \in Entries, Send(e)
  PROVE  Promised(e)
<1> DEFINE m == method[e]
<1>1. TableOK(StubTable) /\ m.result = "none"
  BY EntryFacts, InvFields DEF Send
<1>2. PICK n, s : /\ CanSend(StubTable, m, n, s)
                  /\ m.status[m.begin[n] + (m.sent[n] + 1)] = "unsent"
                  /\ Become(e, AfterSend(StubTable, SendCall(m, n, s)))
  BY SendChoice
<1> DEFINE m1 == SendCall(m, n, s)
           m2 == AfterSend(StubTable, m1)
<1>3. AbstractStep(m, m1) /\ m1 \in MethodRecords
  BY <1>1, <1>2, SentStep
<1> HIDE DEF m1
<1>4. Stays(m1, m2)
  BY <1>3 DEF AfterSend, MethodRecords, Stays, SameStage, SameResult, SameStatus, SameFlags
<1> HIDE DEF m2
<1>5. AbstractStep(m, m2)
  BY <1>3, <1>4, AfterStay
<1>6. QED
  BY <1>2, <1>5 DEF Promised, m1, m2

LEMMA WakePromised ==
  ASSUME IInv, NEW e \in Entries, Wake(e)
  PROVE  Promised(e)
<1> DEFINE m == method[e]
<1>1. m \in MethodRecords
  BY EntryFacts
<1>2. PICK X \in m.queue :
        LET n == NodeOf(m, X)
            i == X - m.begin[n]
        IN  \/ Become(e, [m EXCEPT !.pc = "drain", !.abort = "cancelled", !.queue = @ \ {X}])
            \/ Become(e, [m EXCEPT !.pc = "event", !.event = X,
                                   !.queue = @ \ {X}, !.ConN[n][i] = NoConn])
  BY DEF Wake
<1> DEFINE n  == NodeOf(m, X)
           i  == X - m.begin[n]
           m2 == [m EXCEPT !.pc = "drain", !.abort = "cancelled", !.queue = @ \ {X}]
           m3 == [m EXCEPT !.pc = "event", !.event = X, !.queue = @ \ {X}, !.ConN[n][i] = NoConn]
<1>3. Become(e, m2) \/ Become(e, m3)
  BY <1>2
<1>4. Stays(m, m2)
  BY <1>1 DEF MethodRecords, Stays, SameStage, SameResult, SameStatus, SameFlags
<1>5. Stays(m, m3)
  <2> HIDE DEF n, i
  <2>1. QED
    BY <1>1 DEF MethodRecords, Stays, SameStage, SameResult, SameStatus, SameFlags
<1> HIDE DEF m2, m3
<1>6. QED
  BY <1>3, <1>4, <1>5, AfterStay DEF Promised

LEMMA HandleEventPromised ==
  ASSUME IInv, NEW e \in Entries, HandleEvent(e)
  PROVE  Promised(e)
<1> DEFINE m == method[e]
           n == NodeOf(m, m.event)
<1>1. /\ m \in MethodRecords /\ TableOK(StubTable) /\ m.pc = "event" /\ m.result = "none"
  BY EntryFacts, InvFields DEF HandleEvent
<1>2. \/ Become(e, Handled(m))
      \/ /\ MoreToSend(m, n)
         /\ \E s : TakeStub(m, n, s) /\ Become(e, Handled(SendCall(m, n, s)))
  BY DEF HandleEvent
<1>3. CASE Become(e, Handled(m))
  BY <1>1, <1>3, RestStays, AfterStay DEF Promised
<1>4. ASSUME MoreToSend(m, n), NEW s, TakeStub(m, n, s), Become(e, Handled(SendCall(m, n, s)))
      PROVE  Promised(e)
  <2> HIDE DEF n
  <2>1. /\ CanSend(StubTable, m, n, s)
        /\ m.status[m.begin[n] + (m.sent[n] + 1)] = "unsent"
    BY <1>1, <1>4, NextCallChoice DEF n
  <2> DEFINE m1 == SendCall(m, n, s)
             m2 == Handled(m1)
  <2>2. AbstractStep(m, m1) /\ m1 \in MethodRecords
    BY <1>1, <2>1, SentStep
  <2> HIDE DEF m1
  <2>3. AbstractStep(m, m2)
    BY <2>2, RestStays, AfterStay
  <2>4. QED
    BY <1>4, <2>3 DEF Promised, m1
<1>5. QED
  BY <1>2, <1>3, <1>4

LEMMA TimeoutPromised ==
  ASSUME IInv, NEW e \in Entries, Timeout(e)
  PROVE  Promised(e)
<1> DEFINE m  == method[e]
           m2 == [m EXCEPT !.pc = "drain", !.abort = "cancelled"]
<1>1. m \in MethodRecords /\ Become(e, m2)
  BY EntryFacts DEF Timeout
<1>2. Stays(m, m2)
  BY <1>1 DEF MethodRecords, Stays, SameStage, SameResult, SameStatus, SameFlags
<1> HIDE DEF m2
<1>3. QED
  BY <1>1, <1>2, AfterStay DEF Promised

(* An aborted stage returns for the reason it was aborted. *)
LEMMA AbortReturns ==
  ASSUME NEW m \in MethodRecords, AbortInv(m), m.abort # "none"
  PROVE  MayReturn(m, m.abort)
<1>1. m.abort = "cancelled" \/ m.abort \in Failures
  BY DEF MethodRecords
<1>2. CASE m.abort = "cancelled"
  BY <1>2 DEF AbortInv, MayReturn, GivenUp
<1>3. CASE m.abort \in Failures
  BY <1>3 DEF AbortInv, MayReturn
<1>4. QED
  BY <1>1, <1>2, <1>3

LEMMA CloseQueuePromised ==
  ASSUME IInv, NEW e \in Entries, CloseQueue(e)
  PROVE  Promised(e)
<1> DEFINE m  == method[e]
           m1 == [m EXCEPT !.queue = {}]
           m2 == [m1 EXCEPT !.pc = "release"]
<1>1. /\ m \in MethodRecords /\ MethodInv(StubTable, m) /\ m.pc = "drain" /\ m.result = "none"
      /\ m.stage \in DOMAIN stages
  BY EntryFacts, InvFields DEF CloseQueue
<1>0. PICK r \in Filled :
        /\ AllEnded(m1)
        /\ Become(e, IF m1.abort = "none" THEN NextStage(m1, r)
                     ELSE IF Held(m1) = {} THEN Returned(m1, m1.abort) ELSE m2)
  BY DEF CloseQueue
<1>2. DrainInv(StubTable, m)
  BY <1>1 DEF MethodInv
<1>3. /\ m1 \in MethodRecords /\ m1.status = m.status /\ m1.abort = m.abort /\ m1.stage = m.stage
      /\ m1.result = "none" /\ m1.cancelled = m.cancelled /\ m1.expired = m.expired
      /\ Stays(m, m1)
  BY <1>1 DEF MethodRecords, Stays, SameStage, SameResult, SameStatus, SameFlags
<1> HIDE DEF m1
<1>4. CASE m1.abort = "none"
  <2>1. AllOk(m1)
    BY <1>2, <1>3, <1>4 DEF DrainInv, AllOk
  <2>2. AbstractStep(m, NextStage(m1, r))
    BY <1>1, <1>3, <2>1, NextStageStep, AfterStay
  <2>3. QED
    BY <1>0, <1>4, <2>2 DEF Promised
<1>5. CASE m1.abort # "none" /\ Held(m1) = {}
  <2>1. MayReturn(m, m.abort)
    BY <1>1, <1>2, <1>3, <1>5, AbortReturns DEF DrainInv
  <2>2. MayReturn(m1, m1.abort)
    BY <1>3, <2>1 DEF MayReturn, AllOk, GivenUp
  <2>3. AbstractStep(m, Returned(m1, m1.abort))
    BY <1>0, <1>3, <2>2, ReturnedStep, AfterStay
  <2>4. QED
    BY <1>0, <1>5, <2>3 DEF Promised
<1>6. CASE m1.abort # "none" /\ Held(m1) # {}
  <2>1. Stays(m, m2)
    BY <1>3 DEF MethodRecords, Stays, SameStage, SameResult, SameStatus, SameFlags
  <2> HIDE DEF m2
  <2>2. QED
    BY <1>0, <1>6, <2>1, AfterStay DEF Promised
<1>7. QED
  BY <1>4, <1>5, <1>6

LEMMA ReleasePromised ==
  ASSUME IInv, NEW e \in Entries, Release(e)
  PROVE  Promised(e)
<1> DEFINE m  == method[e]
           X  == Least(Held(m))
           n  == NodeOf(m, X)
           i  == X - m.begin[n]
           m1 == [m EXCEPT !.ConN[n][i] = NoConn]
           m2 == Returned(m1, m.abort)
<1>1. /\ m \in MethodRecords /\ MethodInv(StubTable, m) /\ m.pc = "release" /\ m.result = "none"
  BY EntryFacts, InvFields DEF Release
<1>2. Become(e, IF Held(m1) = {} THEN m2 ELSE m1)
  BY DEF Release
<1>3. AbortInv(m) /\ m.abort # "none" /\ AllEnded(m)
  BY <1>1 DEF MethodInv, ReleaseInv
<1> HIDE DEF X, n, i
<1>4. Stays(m, m1) /\ "result" \in DOMAIN m1
  BY <1>1 DEF MethodRecords, Stays, SameStage, SameResult, SameStatus, SameFlags
<1> HIDE DEF m1
<1>5. CASE Held(m1) = {}
  <2>1. /\ SameStage(m, m2) /\ SameStatus(m, m2) /\ SameFlags(m, m2) /\ m2.result = m.abort
    BY <1>4 DEF Returned, Stays, SameStage, SameResult, SameStatus, SameFlags
  <2>2. MayReturn(m, m.abort)
    BY <1>1, <1>3, AbortReturns
  <2> HIDE DEF m2
  <2>3. Returns(m, m2)
    BY <1>1, <1>3, <2>1, <2>2 DEF Returns, Running
  <2>4. QED
    BY <1>2, <1>5, <2>3 DEF Promised, AbstractStep
<1>6. CASE Held(m1) # {}
  BY <1>2, <1>4, <1>6, AfterStay DEF Promised
<1>7. QED
  BY <1>5, <1>6

LEMMA CompletePromised ==
  ASSUME IInv, NEW e \in Entries, Complete(e)
  PROVE  Promised(e)
<1> DEFINE m == method[e]
<1>1. m \in MethodRecords
  BY EntryFacts
<1>2. PICK x \in DOMAIN m.status, s \in Ended :
        /\ m.status[x] = "out"
        /\ Become(e, [m EXCEPT !.status[x] = s,
                               !.queue = IF m.async_calls THEN @ \union {x} ELSE @])
  BY DEF Complete
<1> DEFINE m2 == [m EXCEPT !.status[x] = s, !.queue = IF m.async_calls THEN @ \union {x} ELSE @]
           c2 == [m.status EXCEPT ![x] = s]
<1>3. /\ m2.status = c2 /\ SameStage(m, m2) /\ SameResult(m, m2) /\ SameFlags(m, m2)
  BY <1>1 DEF MethodRecords, SameStage, SameResult, SameFlags
<1> HIDE DEF m2
<1>4. Answers(m, m2)
  BY <1>2, <1>3 DEF Answers
<1>5. QED
  BY <1>2, <1>4 DEF Promised, AbstractStep, m2

LEMMA InterruptedPromised ==
  ASSUME IInv, NEW e \in Entries, Cancel(e) \/ Expire(e)
  PROVE  Promised(e)
<1> DEFINE m == method[e]
<1>1. m \in MethodRecords
  BY EntryFacts
<1>2. PICK m2 : /\ Become(e, m2)
                /\ m2 = [m EXCEPT !.cancelled = TRUE] \/ m2 = [m EXCEPT !.expired = TRUE]
  BY DEF Cancel, Expire
<1>3. GivesUp(m, m2)
  BY <1>1, <1>2 DEF MethodRecords, GivesUp, SameStage, SameResult, SameStatus, GivenUp
<1>4. QED
  BY <1>2, <1>3 DEF Promised, AbstractStep

LEMMA ActionPromised ==
  ASSUME IInv, NEW e \in Entries, Thread(e) \/ Complete(e) \/ Cancel(e) \/ Expire(e)
  PROVE  Promised(e)
<1>1. CASE ErrorCheck(e) \/ Prepare(e) \/ Call(e) \/ Called(e)
  BY <1>1, ErrorCheckPromised, PreparePromised, CallPromised, CalledPromised
<1>2. CASE EndNodes(e) \/ Send(e) \/ Wake(e) \/ HandleEvent(e)
  BY <1>2, EndNodesPromised, SendPromised, WakePromised, HandleEventPromised
<1>3. CASE Timeout(e) \/ CloseQueue(e) \/ Release(e)
  BY <1>3, TimeoutPromised, CloseQueuePromised, ReleasePromised
<1>4. CASE Complete(e) \/ Cancel(e) \/ Expire(e)
  BY <1>4, CompletePromised, InterruptedPromised
<1>5. QED
  BY <1>1, <1>2, <1>3, <1>4 DEF Thread

LEMMA NextPromised == IInv /\ [Next]_vars => [Promise!Next]_(Promise!vars)
<1> SUFFICES ASSUME IInv, [Next]_vars PROVE [Promise!Next]_(Promise!vars)
  OBVIOUS
<1>1. CASE Next
  <2>1. PICK e \in Entries : Thread(e) \/ Complete(e) \/ Cancel(e) \/ Expire(e)
    BY <1>1 DEF Next
  <2>2. Promised(e)
    BY <2>1, ActionPromised
  <2>3. method \in [Entries -> MethodRecords]
    BY DEF IInv
  <2>4. QED
    BY <2>2, <2>3, MappedStep DEF Promised
<1>2. CASE UNCHANGED vars
  BY <1>2 DEF vars, Promise!vars
<1>3. QED
  BY <1>1, <1>2

LEMMA InitPromised == Init => Promise!Init
<1> SUFFICES ASSUME Init PROVE Promise!Init
  OBVIOUS
<1>1. \A e \in Entries : \E async \in BOOLEAN : method[e] = InitialMethod(async)
  BY DEF Init
<1>2. \A e \in Entries :
        /\ method[e].stage = 1 /\ method[e].status = <<>> /\ method[e].result = "none"
        /\ method[e].cancelled = FALSE /\ method[e].expired = FALSE
  <2> SUFFICES ASSUME NEW e \in Entries, NEW async \in BOOLEAN, method[e] = InitialMethod(async)
               PROVE  /\ method[e].stage = 1 /\ method[e].status = <<>> /\ method[e].result = "none"
                      /\ method[e].cancelled = FALSE /\ method[e].expired = FALSE
    BY <1>1
  <2>1. QED
    BY DEF InitialMethod
<1>3. \A e \in Entries : (method[e].cancelled \/ method[e].expired) = FALSE
  BY <1>2
<1>4. QED
  BY <1>2, <1>3 DEF Promise!Init

(* Whatever the interleaving and whichever way it makes its calls, a method
   keeps the promise of ScatterGather: it moves to the next stage only
   when all calls of this one succeeded, returns only when none is out,
   and returns the error of a call only when that call failed with it. *)
THEOREM ScatterGatherHolds == Spec => ImplementsScatterGather
  BY IInvHolds, InitPromised, NextPromised, PTL DEF Spec, ImplementsScatterGather, Promise!Spec
=============================================================================
