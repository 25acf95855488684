------------------------- MODULE EntryMethodProofs --------------------------
(***************************************************************************)
(* Proofs about the entry methods for any number of requests, stages,      *)
(* nodes, calls and stubs.  The inductive invariant says of every thread   *)
(* what holds at each position of its program (MethodInv); of what threads *)
(* share it only looks at the stubs of the connectors, which never change  *)
(* once a connector is made.  It is an operator of those and of the local  *)
(* state, so that a step of one thread is a fact about values, and leaves  *)
(* the invariant of the other threads alone.                               *)
(***************************************************************************)
EXTENDS EntryMethod, FiniteSetTheorems, SequenceTheorems,
        WellFoundedInduction, TLAPS

-----------------------------------------------------------------------------
(* The invariant. *)

(* The stubs of all connectors there have been. *)
StubTable == [n \in Nodes |-> [g \in DOMAIN connectors[n] |-> StubsOf(connectors[n][g])]]

Stubs      == UNION UNION {StubSets[n] : n \in Nodes}
CallStates == {"unsent", "out"} \union Ended
Results    == {"none", "ok", "refused", "no_address", "cancelled"} \union Failures

MethodRecords ==
  [pc : States, async_calls : BOOLEAN, stage : Nat, at : Nat,
   ConP : [Nodes -> Nat], begin : [Nodes -> Nat], end : [Nodes -> Nat], sent : [Nodes -> Nat],
   ConN : [Nodes -> Seq(Stubs \union {NoConn})], status : Seq(CallStates),
   queue : SUBSET Nat, event : Nat, recv : Nat, abort : {"none", "cancelled"} \union Failures,
   cancelled : BOOLEAN, expired : BOOLEAN, result : Results]

HeldBy(m, n)    == {i \in DOMAIN m.ConN[n] : m.ConN[n][i] # NoConn}
HoldsNothing(m) == \A n \in Nodes : HeldBy(m, n) = {}
AllOk(m)        == \A X \in DOMAIN m.status : m.status[X] = "ok"

(* The calls whose end has been taken off the queue. *)
Taken(m) == {X \in DOMAIN m.status : m.status[X] \in Ended /\ X \notin m.queue}

(* Window(), of the stubs of a table. *)
WindowOf(S, m, n) ==
  LET calls == m.end[n] - m.begin[n]
      count == Cardinality(S[n][m.ConP[n]])
  IN  IF calls < count THEN calls ELSE count

(* The types, the position in the program, and what the queue refers to. *)
Placed(m) ==
  /\ m \in MethodRecords
  /\ m.stage \in DOMAIN stages /\ m.at \in 1 .. Len(NodesOf(m)) + 1
  /\ m.queue \subseteq DOMAIN m.status /\ m.recv <= Len(m.status)
  /\ m.pc = "done" <=> m.result # "none"

(* What always holds of the entries of the nodes: the connections held are
   those of the connector taken, and no more than it has stubs. *)
PoolsUsed(S, m) == \A n \in Nodes :
  /\ m.ConP[n] \in DOMAIN S[n] \union {0}
  /\ m.begin[n] + m.sent[n] <= m.end[n]
  /\ Len(m.ConN[n]) <= MaxCalls
  /\ \A i \in HeldBy(m, n) : m.ConP[n] # 0 /\ m.ConN[n][i] \in S[n][m.ConP[n]]
  /\ m.ConP[n] # 0 => Cardinality(HeldBy(m, n)) <= Cardinality(S[n][m.ConP[n]])

FieldsOK(S, m) == Placed(m) /\ PoolsUsed(S, m)

(* The calls of the nodes prepared so far are numbered without gap or overlap,
   and a node that has calls has a stub. *)
Numbered(S, m) ==
  /\ m.at = 1 => Len(m.status) = 0
  /\ \A p \in 1 .. m.at - 1 : LET n == NodesOf(m)[p] IN
       /\ m.ConP[n] # 0
       /\ Len(m.ConN[n]) = m.end[n] - m.begin[n]
       /\ m.begin[n] < m.end[n] => S[n][m.ConP[n]] # {}
       /\ m.begin[n] = IF p = 1 THEN 0 ELSE m.end[NodesOf(m)[p - 1]]
       /\ p = m.at - 1 => m.end[n] = Len(m.status)
       /\ \A q \in 1 .. p - 1 : m.end[NodesOf(m)[q]] <= m.begin[n]

NothingSent(m) == m.queue = {} /\ m.recv = 0 /\ m.abort = "none"

PrepareInv(S, m) ==
  /\ HoldsNothing(m) /\ NothingSent(m)
  /\ m.async_calls =>
       /\ Numbered(S, m)
       /\ \A X \in DOMAIN m.status : m.status[X] = "unsent"
       /\ \A p \in 1 .. m.at - 1 : m.sent[NodesOf(m)[p]] = 0
  /\ ~m.async_calls => AllOk(m)

(* The node whose calls are made one by one. *)
InTurnInv(m) ==
  LET n == NodesOf(m)[m.at]
  IN  /\ ~m.async_calls /\ m.at <= Len(NodesOf(m))
      /\ m.ConP[n] # 0 /\ NothingSent(m)
      /\ m.begin[n] + Len(m.ConN[n]) = Len(m.status)
      /\ Len(m.status) <= m.end[n] /\ m.end[n] <= m.begin[n] + MaxCalls

CallInv(m) ==
  /\ InTurnInv(m) /\ Len(m.status) < m.end[NodesOf(m)[m.at]]
  /\ HoldsNothing(m) /\ AllOk(m)

CalledInv(m) ==
  /\ InTurnInv(m) /\ Len(m.ConN[NodesOf(m)[m.at]]) > 0
  /\ \A n \in Nodes :
       HeldBy(m, n) = IF n = NodesOf(m)[m.at] THEN {Len(m.ConN[n])} ELSE {}
  /\ \A X \in 1 .. Len(m.status) - 1 : m.status[X] = "ok"
  /\ m.status[Len(m.status)] # "unsent"

(* The end of a stage with overlapped calls. *)
EndInv(S, m) ==
  /\ m.async_calls /\ m.at = Len(NodesOf(m)) + 1
  /\ Numbered(S, m) /\ Len(m.status) > 0
  /\ \A n \in Nodes : (\A p \in DOMAIN NodesOf(m) : NodesOf(m)[p] # n) => HeldBy(m, n) = {}

(* The call i of node n: sent or not, and a connection is held for it while
   it is out and until its end is taken off the queue. *)
CallInvAt(m, n, i) ==
  LET X == m.begin[n] + i
  IN  /\ i <= m.sent[n] <=> m.status[X] # "unsent"
      /\ m.ConN[n][i] # NoConn <=> m.status[X] = "out" \/ X \in m.queue

LoopInv(S, m) ==
  /\ EndInv(S, m) /\ m.abort = "none"
  /\ \A X \in m.queue : m.status[X] \in Ended
  /\ \A p \in DOMAIN NodesOf(m) :
       \A i \in 1 .. m.end[NodesOf(m)[p]] - m.begin[NodesOf(m)[p]] : CallInvAt(m, NodesOf(m)[p], i)

SendInv(S, m) ==
  /\ LoopInv(S, m) /\ m.recv = 0 /\ Taken(m) = {}
  /\ \A p \in DOMAIN NodesOf(m) : m.sent[NodesOf(m)[p]] <= WindowOf(S, m, NodesOf(m)[p])
  /\ \E p \in DOMAIN NodesOf(m) : m.sent[NodesOf(m)[p]] < WindowOf(S, m, NodesOf(m)[p])

WaitInv(S, m) ==
  /\ LoopInv(S, m) /\ m.recv = Cardinality(Taken(m))
  /\ \A X \in Taken(m) : m.status[X] = "ok"

EventInv(S, m) ==
  LET n == NodeOf(m, m.event)
  IN  /\ LoopInv(S, m) /\ m.recv + 1 = Cardinality(Taken(m)) /\ m.event \in Taken(m)
      /\ \A X \in Taken(m) : X = m.event \/ m.status[X] = "ok"
      /\ Cardinality(HeldBy(m, n)) < Cardinality(S[n][m.ConP[n]])

(* Why the stage was given up. *)
AbortInv(m) ==
  /\ m.abort \in Failures => \E X \in DOMAIN m.status : m.status[X] = m.abort
  /\ m.abort = "cancelled" => m.cancelled \/ m.expired

DrainInv(S, m) ==
  /\ EndInv(S, m) /\ AbortInv(m)
  /\ m.abort = "none" => AllOk(m) /\ HoldsNothing(m)

ReleaseInv(S, m) ==
  /\ EndInv(S, m) /\ AbortInv(m) /\ m.abort # "none"
  /\ AllEnded(m) /\ m.queue = {} /\ Held(m) # {}

DoneInv(m) == HoldsNothing(m) /\ AllEnded(m) /\ m.queue = {}

MethodInv(S, m) ==
  /\ FieldsOK(S, m)
  /\ m.pc = "prepare" => PrepareInv(S, m)
  /\ m.pc = "call"    => CallInv(m)
  /\ m.pc = "called"  => CalledInv(m)
  /\ m.pc = "send"    => SendInv(S, m)
  /\ m.pc = "wait"    => WaitInv(S, m)
  /\ m.pc = "event"   => EventInv(S, m)
  /\ m.pc = "drain"   => DrainInv(S, m)
  /\ m.pc = "release" => ReleaseInv(S, m)
  /\ m.pc = "done"    => DoneInv(m)

ConnectorRecords ==
  [active : UNION {[T -> Int] : T \in UNION {StubSets[n] : n \in Nodes}}, total_active : Int]

PoolsOK ==
  /\ connectors \in [Nodes -> Seq(ConnectorRecords)]
  /\ \A n \in Nodes : Len(connectors[n]) > 0
  /\ \A n \in Nodes : \A g \in DOMAIN connectors[n] : StubsOf(connectors[n][g]) \in StubSets[n]

(* A table of the stubs of connectors. *)
TableOK(S) ==
  /\ DOMAIN S = Nodes
  /\ \A n \in Nodes : \A g \in DOMAIN S[n] : S[n][g] \in StubSets[n] /\ g # 0

IInv ==
  /\ PoolsOK
  /\ method \in [Entries -> MethodRecords]
  /\ \A e \in Entries : MethodInv(StubTable, method[e])

-----------------------------------------------------------------------------
(* Facts about the operators. *)

(* A set of numbers that is not empty has a least element. *)
LEMMA LeastIn ==
  ASSUME NEW T \in SUBSET Nat, T # {}
  PROVE  Least(T) \in T /\ \A q \in T : Least(T) <= q
<1> DEFINE upto == {0 .. k : k \in T}
           R    == StrictSubsetOrdering(Nat)
<1>1. \A k \in T : IsFiniteSet(0 .. k) /\ 0 .. k \in SUBSET Nat
  BY FS_Interval
<1>2. upto \subseteq FiniteSubsetsOf(Nat) /\ upto # {}
  BY <1>1 DEF FiniteSubsetsOf
<1>3. IsWellFoundedOn(R, FiniteSubsetsOf(Nat))
  BY FS_StrictSubsetOrderingWellFounded
<1> HIDE DEF upto, R
<1>4. \E x \in upto : \A y \in upto : ~ (<<y, x>> \in R)
  BY <1>2, <1>3, WFMin
<1>5. PICK k \in T : \A j \in T : ~ (<<0 .. j, 0 .. k>> \in R)
  BY <1>4 DEF upto
<1>6. \A j \in T : k <= j
  <2> SUFFICES ASSUME NEW j \in T, j < k PROVE FALSE
    OBVIOUS
  <2>1. 0 .. j \subseteq 0 .. k /\ k \in 0 .. k /\ k \notin 0 .. j
    OBVIOUS
  <2>2. <<0 .. j, 0 .. k>> \in R
    BY <2>1, <1>1 DEF R, StrictSubsetOrdering
  <2>3. QED
    BY <1>5, <2>2
<1>7. QED
  BY <1>6 DEF Least

(* The nodes of a stage. *)
LEMMA StageNodes ==
  ASSUME NEW m, m.stage \in DOMAIN stages
  PROVE  /\ Len(NodesOf(m)) \in Nat /\ DOMAIN NodesOf(m) = 1 .. Len(NodesOf(m))
         /\ \A p \in DOMAIN NodesOf(m) : NodesOf(m)[p] \in Nodes
         /\ \A p, q \in DOMAIN NodesOf(m) : NodesOf(m)[p] = NodesOf(m)[q] => p = q
  BY StagesAssumption DEF NodesOf

(* A call of a node is found by its number, and every number is that of a call. *)
LEMMA NodeOfCall ==
  ASSUME NEW S, NEW m, FieldsOK(S, m), Numbered(S, m), m.at = Len(NodesOf(m)) + 1,
         NEW p \in DOMAIN NodesOf(m), NEW X \in Nat,
         m.begin[NodesOf(m)[p]] < X, X <= m.end[NodesOf(m)[p]]
  PROVE  NodeOf(m, X) = NodesOf(m)[p]
<1> DEFINE last   == Len(NodesOf(m))
           before == {q \in 1 .. last - 1 : X <= m.end[NodesOf(m)[q]]}
<1>1. /\ last \in Nat /\ DOMAIN NodesOf(m) = 1 .. last
      /\ \A q \in 1 .. last : NodesOf(m)[q] \in Nodes
  BY StageNodes DEF FieldsOK, Placed
<1>2. m.begin \in [Nodes -> Nat] /\ m.end \in [Nodes -> Nat]
  BY DEF FieldsOK, Placed, MethodRecords
<1>3. \A q \in 1 .. p - 1 : m.end[NodesOf(m)[q]] < X
  <2>1. \A q \in 1 .. p - 1 : m.end[NodesOf(m)[q]] <= m.begin[NodesOf(m)[p]]
    <3>1. p \in 1 .. m.at - 1
      BY <1>1
    <3>2. QED
      BY <3>1 DEF Numbered
  <2>2. QED
    BY <1>1, <1>2, <2>1
<1>4. NodeOf(m, X) = NodesOf(m)[IF before = {} THEN last ELSE Least(before)]
  BY DEF NodeOf
<1> HIDE DEF last
<1>5. CASE p = last
  <2>1. before = {}
    BY <1>1, <1>2, <1>3, <1>5
  <2>2. QED
    BY <1>4, <1>5, <2>1
<1>6. CASE p # last
  <2>1. p \in before /\ before \in SUBSET Nat
    BY <1>1, <1>6
  <2>2. ASSUME NEW q \in before PROVE q \in Nat /\ ~(q < p)
    <3>1. q \in 1 .. last /\ q \in Nat /\ X <= m.end[NodesOf(m)[q]]
      BY <1>1
    <3>2. m.end[NodesOf(m)[q]] \in Nat
      BY <1>1, <1>2, <3>1
    <3>3. q \in 1 .. p - 1 => m.end[NodesOf(m)[q]] < X
      BY <1>3
    <3>4. q < p => q \in 1 .. p - 1
      BY <1>1, <3>1
    <3>5. QED
      BY <3>1, <3>2, <3>3, <3>4
  <2> HIDE DEF before
  <2>3. Least(before) \in before /\ Least(before) <= p
    BY <2>1, LeastIn
  <2>4. Least(before) = p
    BY <1>1, <2>2, <2>3
  <2>5. QED
    BY <1>4, <2>1, <2>4
<1>7. QED
  BY <1>5, <1>6

(* Every number is that of a call of a node. *)
LEMMA PlaceOfCall ==
  ASSUME NEW S, NEW m, FieldsOK(S, m), Numbered(S, m), m.at = Len(NodesOf(m)) + 1,
         NEW X \in DOMAIN m.status
  PROVE  \E p \in DOMAIN NodesOf(m) :
           /\ m.begin[NodesOf(m)[p]] < X /\ X <= m.end[NodesOf(m)[p]]
           /\ NodeOf(m, X) = NodesOf(m)[p]
<1> DEFINE last   == Len(NodesOf(m))
           beyond == {q \in 1 .. last : X <= m.end[NodesOf(m)[q]]}
           p      == Least(beyond)
<1>1. /\ last \in Nat /\ DOMAIN NodesOf(m) = 1 .. last
      /\ \A q \in 1 .. last : NodesOf(m)[q] \in Nodes
  BY StageNodes DEF FieldsOK, Placed
<1>2. /\ m.begin \in [Nodes -> Nat] /\ m.end \in [Nodes -> Nat]
      /\ X \in 1 .. Len(m.status) /\ Len(m.status) \in Nat
  BY DEF FieldsOK, Placed, MethodRecords
<1>3. last # 0 /\ last \in 1 .. m.at - 1 /\ last = m.at - 1
  <2>1. m.at # 1
    BY <1>2 DEF Numbered
  <2>2. QED
    BY <1>1, <2>1
<1>4. m.end[NodesOf(m)[last]] = Len(m.status)
  BY <1>3 DEF Numbered
<1>5. last \in beyond /\ beyond \in SUBSET Nat
  BY <1>1, <1>2, <1>3, <1>4
<1>6. p \in beyond /\ \A q \in beyond : p <= q
  <2> HIDE DEF beyond
  <2>1. QED
    BY <1>5, LeastIn
<1>7. p \in 1 .. last /\ X <= m.end[NodesOf(m)[p]]
  BY <1>6
<1> HIDE DEF p
<1>8. m.begin[NodesOf(m)[p]] = IF p = 1 THEN 0 ELSE m.end[NodesOf(m)[p - 1]]
  <2>1. p \in 1 .. m.at - 1
    BY <1>3, <1>7
  <2>2. QED
    BY <2>1 DEF Numbered
<1>9. m.begin[NodesOf(m)[p]] < X
  <2>1. CASE p = 1
    BY <1>2, <1>8, <2>1
  <2>2. CASE p # 1
    <3>1. p - 1 \in 1 .. last /\ ~(p <= p - 1)
      BY <1>1, <1>7, <2>2
    <3>2. ~(X <= m.end[NodesOf(m)[p - 1]])
      BY <1>6, <3>1
    <3>3. QED
      BY <1>1, <1>2, <1>8, <2>2, <3>1, <3>2
  <2>3. QED
    BY <2>1, <2>2
<1>10. p \in DOMAIN NodesOf(m) /\ X \in Nat
  BY <1>1, <1>2, <1>7
<1>11. NodeOf(m, X) = NodesOf(m)[p]
  BY <1>7, <1>9, <1>10, NodeOfCall
<1>12. QED
  BY <1>7, <1>9, <1>10, <1>11

-----------------------------------------------------------------------------
(* What a step leaves alone. *)

(* Two local states with the same nodes prepared and the same calls. *)
SameRanges(m, m2) ==
  /\ m2.stage = m.stage /\ m2.at = m.at /\ m2.async_calls = m.async_calls
  /\ m2.ConP = m.ConP /\ m2.begin = m.begin /\ m2.end = m.end
  /\ Len(m2.status) = Len(m.status)
  /\ \A n \in Nodes : Len(m2.ConN[n]) = Len(m.ConN[n])

LEMMA SameRangesFacts ==
  ASSUME NEW S, NEW m, NEW m2, SameRanges(m, m2), m.stage \in DOMAIN stages
  PROVE  /\ NodesOf(m2) = NodesOf(m)
         /\ \A X : NodeOf(m2, X) = NodeOf(m, X)
         /\ \A n : WindowOf(S, m2, n) = WindowOf(S, m, n)
         /\ Numbered(S, m) /\ m.at \in 1 .. Len(NodesOf(m)) + 1 => Numbered(S, m2)
<1>1. NodesOf(m2) = NodesOf(m)
  BY DEF SameRanges, NodesOf
<1>2. \A X : NodeOf(m2, X) = NodeOf(m, X)
  BY <1>1 DEF SameRanges, NodeOf
<1>3. \A n : WindowOf(S, m2, n) = WindowOf(S, m, n)
  BY DEF SameRanges, WindowOf
<1>4. ASSUME Numbered(S, m), m.at \in 1 .. Len(NodesOf(m)) + 1 PROVE Numbered(S, m2)
  <2>1. \A p \in 1 .. m.at - 1 : Len(m2.ConN[NodesOf(m)[p]]) = Len(m.ConN[NodesOf(m)[p]])
    <3>1. \A p \in 1 .. m.at - 1 : p \in DOMAIN NodesOf(m)
      BY <1>4, StageNodes
    <3>2. QED
      BY <3>1, StageNodes DEF SameRanges
  <2>2. QED
    BY <1>1, <1>4, <2>1 DEF SameRanges, Numbered
<1>5. QED
  BY <1>1, <1>2, <1>3, <1>4

SamePools(m, m2) ==
  /\ m2.ConP = m.ConP /\ m2.begin = m.begin /\ m2.end = m.end /\ m2.sent = m.sent
  /\ m2.ConN = m.ConN

LEMMA SamePoolsFacts ==
  ASSUME NEW S, NEW m, NEW m2, SamePools(m, m2)
  PROVE  /\ PoolsUsed(S, m) => PoolsUsed(S, m2)
         /\ \A n : HeldBy(m2, n) = HeldBy(m, n)
         /\ HoldsNothing(m) => HoldsNothing(m2)
<1>1. \A n : HeldBy(m2, n) = HeldBy(m, n)
  BY DEF SamePools, HeldBy
<1>2. QED
  BY <1>1 DEF SamePools, PoolsUsed, HoldsNothing

(* The method returns. *)
LEMMA ReturnedInv ==
  ASSUME NEW S, NEW m, FieldsOK(S, m), HoldsNothing(m), AllEnded(m), m.queue = {},
         NEW r \in Results \ {"none"}
  PROVE  MethodInv(S, Returned(m, r))
<1> DEFINE m2 == Returned(m, r)
<1>1. Placed(m) /\ m \in MethodRecords /\ PoolsUsed(S, m)
  BY DEF FieldsOK, Placed
<1>2. /\ m2 \in MethodRecords /\ m2.pc = "done" /\ m2.result = r
      /\ m2.ConP = m.ConP /\ m2.begin = m.begin /\ m2.end = m.end /\ m2.sent = m.sent
      /\ m2.ConN = m.ConN /\ m2.stage = m.stage /\ m2.at = m.at /\ m2.queue = m.queue
      /\ m2.status = m.status /\ m2.recv = m.recv
  BY <1>1 DEF Returned, MethodRecords, States
<1> HIDE DEF m2
<1>3. FieldsOK(S, m2) /\ HoldsNothing(m2)
  <2>1. SamePools(m, m2)
    BY <1>2 DEF SamePools
  <2>2. Placed(m2)
    BY <1>1, <1>2 DEF Placed, NodesOf
  <2>3. QED
    BY <1>1, <2>1, <2>2, SamePoolsFacts DEF FieldsOK
<1>4. DoneInv(m2)
  BY <1>2, <1>3 DEF DoneInv, AllEnded
<1>5. QED
  BY <1>2, <1>3, <1>4 DEF MethodInv, m2

(* The next stage begins, or the last one has ended. *)
LEMMA NextStageInv ==
  ASSUME NEW S, NEW m, FieldsOK(S, m), HoldsNothing(m), AllOk(m), m.queue = {},
         m.abort = "none", m.result = "none", NEW r \in Filled
  PROVE  MethodInv(S, NextStage(m, r))
<1>1. m \in MethodRecords /\ m.stage \in DOMAIN stages /\ PoolsUsed(S, m)
  BY DEF FieldsOK, Placed
<1>2. CASE m.stage = Len(stages)
  <2>1. AllEnded(m)
    BY DEF AllOk, AllEnded
  <2>2. QED
    BY <1>2, <2>1, ReturnedInv DEF NextStage, Results, Filled
<1>3. CASE m.stage # Len(stages)
  <2> DEFINE m2 == NextStage(m, r)
  <2>1. m2 = [m EXCEPT !.pc = "prepare", !.stage = m.stage + 1, !.at = 1,
                       !.status = <<>>, !.event = 0, !.recv = 0]
    BY <1>1, <1>3 DEF NextStage, MethodRecords
  <2>2. m.stage + 1 \in DOMAIN stages /\ m.stage + 1 \in Nat
    BY <1>1, <1>3, StagesAssumption
  <2>3. <<>> \in Seq(CallStates) /\ Len(<<>>) = 0
    BY EmptySeq
  <2> DEFINE none == <<>>
  <2> HIDE DEF m2, none
  <2>4. m2 = [m EXCEPT !.pc = "prepare", !.stage = m.stage + 1, !.at = 1,
                       !.status = none, !.event = 0, !.recv = 0]
    BY <2>1 DEF none
  <2>5. none \in Seq(CallStates) /\ Len(none) = 0
    BY <2>3 DEF none
  <2>6. /\ m2 \in MethodRecords /\ m2.pc = "prepare" /\ m2.result = "none"
        /\ m2.ConP = m.ConP /\ m2.begin = m.begin /\ m2.end = m.end /\ m2.sent = m.sent
        /\ m2.ConN = m.ConN /\ m2.stage = m.stage + 1 /\ m2.at = 1 /\ m2.queue = {}
        /\ m2.status = none /\ m2.recv = 0 /\ m2.abort = "none"
    BY <1>1, <2>2, <2>4, <2>5 DEF MethodRecords, States
  <2>7. FieldsOK(S, m2) /\ HoldsNothing(m2)
    <3>1. SamePools(m, m2)
      BY <2>6 DEF SamePools
    <3>2. m2.at \in 1 .. Len(NodesOf(m2)) + 1
      BY <2>2, <2>6, StageNodes
    <3>3. Placed(m2)
      BY <2>2, <2>5, <2>6, <3>2 DEF Placed
    <3>4. QED
      BY <1>1, <3>1, <3>3, SamePoolsFacts DEF FieldsOK
  <2>8. PrepareInv(S, m2)
    <3>1. Numbered(S, m2) /\ DOMAIN m2.status = {}
      BY <2>5, <2>6 DEF Numbered
    <3>2. AllOk(m2) /\ NothingSent(m2)
      BY <2>6, <3>1 DEF AllOk, NothingSent
    <3>3. QED
      BY <2>6, <2>7, <3>1, <3>2 DEF PrepareInv
  <2>9. QED
    BY <2>6, <2>7, <2>8 DEF MethodInv, m2
<1>4. QED
  BY <1>2, <1>3

-----------------------------------------------------------------------------
(* Taking a connection and giving it back. *)

LEMMA TableFacts ==
  ASSUME NEW S, TableOK(S), NEW n \in Nodes, NEW g \in DOMAIN S[n]
  PROVE  /\ IsFiniteSet(S[n][g]) /\ Cardinality(S[n][g]) \in Nat
         /\ S[n][g] \subseteq Stubs /\ NoConn \notin S[n][g]
         /\ S[n][g] # {} => Cardinality(S[n][g]) > 0
<1>1. S[n][g] \in StubSets[n]
  BY DEF TableOK
<1>2. IsFiniteSet(S[n][g]) /\ NoConn \notin S[n][g]
  BY <1>1, StubSetsAssumption
<1>3. S[n][g] \subseteq Stubs
  BY <1>1 DEF Stubs
<1>4. Cardinality(S[n][g]) \in Nat /\ (S[n][g] # {} => Cardinality(S[n][g]) > 0)
  BY <1>2, FS_CardinalityType, FS_EmptySet
<1>5. QED
  BY <1>2, <1>3, <1>4

LEMMA HeldFinite ==
  ASSUME NEW m \in MethodRecords, NEW n \in Nodes
  PROVE  /\ IsFiniteSet(HeldBy(m, n)) /\ Cardinality(HeldBy(m, n)) \in Nat
         /\ HeldBy(m, n) \subseteq 1 .. Len(m.ConN[n]) /\ Len(m.ConN[n]) \in Nat
         /\ DOMAIN m.ConN[n] = 1 .. Len(m.ConN[n])
<1>1. /\ HeldBy(m, n) \in SUBSET (1 .. Len(m.ConN[n])) /\ Len(m.ConN[n]) \in Nat
      /\ DOMAIN m.ConN[n] = 1 .. Len(m.ConN[n])
  BY DEF HeldBy, MethodRecords
<1>2. IsFiniteSet(1 .. Len(m.ConN[n]))
  BY <1>1, FS_Interval
<1>3. QED
  BY <1>1, <1>2, FS_Subset, FS_CardinalityType

(* The call i of node n gives its connection back. *)
Given(m, n, i) == [m EXCEPT !.ConN[n][i] = NoConn]

AfterGiving(S, m, n, i, m2) ==
  /\ m2 \in MethodRecords /\ PoolsUsed(S, m2) /\ SameRanges(m, m2)
  /\ m2.pc = m.pc /\ m2.sent = m.sent /\ m2.status = m.status /\ m2.queue = m.queue
  /\ m2.event = m.event /\ m2.recv = m.recv /\ m2.abort = m.abort
  /\ m2.cancelled = m.cancelled /\ m2.expired = m.expired /\ m2.result = m.result
  /\ m2.ConN = [m.ConN EXCEPT ![n] = [m.ConN[n] EXCEPT ![i] = NoConn]]
  /\ m2 = [m EXCEPT !.ConN = m2.ConN]
  /\ HeldBy(m2, n) = HeldBy(m, n) \ {i}
  /\ \A k \in Nodes \ {n} : HeldBy(m2, k) = HeldBy(m, k)
  /\ Cardinality(HeldBy(m2, n)) = Cardinality(HeldBy(m, n)) - 1

LEMMA GivenFacts ==
  ASSUME NEW S, TableOK(S), NEW m \in MethodRecords, PoolsUsed(S, m), NEW n \in Nodes,
         NEW i \in HeldBy(m, n)
  PROVE  AfterGiving(S, m, n, i, Given(m, n, i))
<1> DEFINE m2      == Given(m, n, i)
           numbers == [m.ConN[n] EXCEPT ![i] = NoConn]
           ConN2   == [m.ConN EXCEPT ![n] = numbers]
<1>1. m.ConN \in [Nodes -> Seq(Stubs \union {NoConn})] /\ i \in DOMAIN m.ConN[n]
  BY DEF MethodRecords, HeldBy
<1>2. numbers \in Seq(Stubs \union {NoConn}) /\ Len(numbers) = Len(m.ConN[n])
  BY <1>1, ExceptSeq
<1>3. m2 = [m EXCEPT !.ConN = ConN2]
  BY <1>1 DEF Given, MethodRecords
<1> HIDE DEF m2
<1>4. ConN2 \in [Nodes -> Seq(Stubs \union {NoConn})]
  BY <1>1, <1>2
<1>5. /\ ConN2[n] = numbers /\ DOMAIN numbers = DOMAIN m.ConN[n] /\ numbers[i] = NoConn
      /\ \A j \in DOMAIN numbers \ {i} : numbers[j] = m.ConN[n][j]
      /\ \A k \in Nodes \ {n} : ConN2[k] = m.ConN[k]
  BY <1>1
<1> HIDE DEF ConN2, numbers
<1>6. m2 \in MethodRecords
  BY <1>3, <1>4 DEF MethodRecords
<1>7. /\ m2.ConN = ConN2 /\ m2.stage = m.stage /\ m2.at = m.at /\ m2.async_calls = m.async_calls
      /\ m2.ConP = m.ConP /\ m2.begin = m.begin /\ m2.end = m.end
      /\ m2.pc = m.pc /\ m2.sent = m.sent /\ m2.status = m.status /\ m2.queue = m.queue
      /\ m2.event = m.event /\ m2.recv = m.recv /\ m2.abort = m.abort
      /\ m2.cancelled = m.cancelled /\ m2.expired = m.expired /\ m2.result = m.result
  BY <1>3 DEF MethodRecords
<1>8. \A k \in Nodes : Len(ConN2[k]) = Len(m.ConN[k])
  BY <1>2, <1>5
<1>9. SameRanges(m, m2)
  BY <1>7, <1>8 DEF SameRanges
<1>10. HeldBy(m2, n) = HeldBy(m, n) \ {i}
  BY <1>5, <1>7 DEF HeldBy
<1>11. \A k \in Nodes \ {n} : HeldBy(m2, k) = HeldBy(m, k)
  BY <1>5, <1>7 DEF HeldBy
<1>12. Cardinality(HeldBy(m2, n)) = Cardinality(HeldBy(m, n)) - 1
  BY <1>10, HeldFinite, FS_RemoveElement
<1>13. PoolsUsed(S, m2)
  <2> SUFFICES ASSUME NEW k \in Nodes
               PROVE  /\ m.ConP[k] \in DOMAIN S[k] \union {0}
                      /\ m.begin[k] + m.sent[k] <= m.end[k]
                      /\ Len(ConN2[k]) <= MaxCalls
                      /\ \A j \in HeldBy(m2, k) : m.ConP[k] # 0 /\ ConN2[k][j] \in S[k][m.ConP[k]]
                      /\ m.ConP[k] # 0 =>
                           Cardinality(HeldBy(m2, k)) <= Cardinality(S[k][m.ConP[k]])
    BY <1>7 DEF PoolsUsed
  <2>1. /\ m.ConP[k] \in DOMAIN S[k] \union {0} /\ m.begin[k] + m.sent[k] <= m.end[k]
        /\ Len(ConN2[k]) <= MaxCalls
    BY <1>8 DEF PoolsUsed
  <2>2. ASSUME NEW j \in HeldBy(m2, k)
        PROVE  m.ConP[k] # 0 /\ ConN2[k][j] \in S[k][m.ConP[k]]
    <3>1. j \in HeldBy(m, k) /\ (k = n => j # i)
      BY <1>10, <1>11
    <3>2. ConN2[k][j] = m.ConN[k][j]
      BY <1>5, <3>1 DEF HeldBy
    <3>3. QED
      BY <3>1, <3>2 DEF PoolsUsed
  <2>3. ASSUME m.ConP[k] # 0
        PROVE  Cardinality(HeldBy(m2, k)) <= Cardinality(S[k][m.ConP[k]])
    <3>1. Cardinality(HeldBy(m, k)) <= Cardinality(S[k][m.ConP[k]]) /\ m.ConP[k] \in DOMAIN S[k]
      BY <2>3 DEF PoolsUsed
    <3>2. Cardinality(HeldBy(m2, k)) <= Cardinality(HeldBy(m, k))
      BY <1>11, <1>12, HeldFinite
    <3>3. QED
      BY <1>6, <3>1, <3>2, HeldFinite, TableFacts
  <2>4. QED
    BY <2>1, <2>2, <2>3
<1>14. QED
  BY <1>3, <1>6, <1>7, <1>9, <1>10, <1>11, <1>12, <1>13 DEF AfterGiving, ConN2, numbers, m2

(* The next call of node n is sent on stub s. *)
CanSend(S, m, n, s) ==
  /\ m \in MethodRecords /\ PoolsUsed(S, m) /\ n \in Nodes
  /\ m.ConP[n] # 0 /\ s \in S[n][m.ConP[n]]
  /\ Cardinality(HeldBy(m, n)) < Cardinality(S[n][m.ConP[n]])
  /\ m.sent[n] + 1 \in DOMAIN m.ConN[n] /\ m.sent[n] + 1 \notin HeldBy(m, n)
  /\ m.begin[n] + m.sent[n] < m.end[n]
  /\ m.begin[n] + (m.sent[n] + 1) \in DOMAIN m.status

AfterSending(S, m, n, s, m2) ==
  /\ m2 \in MethodRecords /\ PoolsUsed(S, m2) /\ SameRanges(m, m2)
  /\ m2.pc = m.pc /\ m2.queue = m.queue /\ m2.event = m.event /\ m2.recv = m.recv
  /\ m2.abort = m.abort /\ m2.cancelled = m.cancelled /\ m2.expired = m.expired
  /\ m2.result = m.result
  /\ m2.ConN = [m.ConN EXCEPT ![n] = [m.ConN[n] EXCEPT ![m.sent[n] + 1] = s]]
  /\ m2.status = [m.status EXCEPT ![m.begin[n] + (m.sent[n] + 1)] = "out"]
  /\ m2.sent = [m.sent EXCEPT ![n] = m.sent[n] + 1]
  /\ HeldBy(m2, n) = HeldBy(m, n) \union {m.sent[n] + 1}
  /\ \A k \in Nodes \ {n} : HeldBy(m2, k) = HeldBy(m, k)
  /\ Cardinality(HeldBy(m2, n)) = Cardinality(HeldBy(m, n)) + 1

LEMMA SentFacts ==
  ASSUME NEW S, TableOK(S), NEW m, NEW n, NEW s, CanSend(S, m, n, s)
  PROVE  AfterSending(S, m, n, s, SendCall(m, n, s))
<1>0. /\ m \in MethodRecords /\ PoolsUsed(S, m) /\ n \in Nodes
      /\ m.ConP[n] # 0 /\ s \in S[n][m.ConP[n]]
      /\ Cardinality(HeldBy(m, n)) < Cardinality(S[n][m.ConP[n]])
      /\ m.sent[n] + 1 \in DOMAIN m.ConN[n] /\ m.sent[n] + 1 \notin HeldBy(m, n)
      /\ m.begin[n] + m.sent[n] < m.end[n]
      /\ m.begin[n] + (m.sent[n] + 1) \in DOMAIN m.status
  BY DEF CanSend
<1> DEFINE m2      == SendCall(m, n, s)
           i       == m.sent[n] + 1
           X       == m.begin[n] + i
           numbers == [m.ConN[n] EXCEPT ![i] = s]
           ConN2   == [m.ConN EXCEPT ![n] = numbers]
           status2 == [m.status EXCEPT ![X] = "out"]
           sent2   == [m.sent EXCEPT ![n] = i]
<1>1. /\ m.ConN \in [Nodes -> Seq(Stubs \union {NoConn})] /\ m.status \in Seq(CallStates)
      /\ m.sent \in [Nodes -> Nat] /\ i \in Nat /\ m.begin[n] \in Nat /\ m.end[n] \in Nat
  <2>1. m.begin \in [Nodes -> Nat] /\ m.end \in [Nodes -> Nat] /\ m.sent \in [Nodes -> Nat]
    BY <1>0 DEF MethodRecords
  <2>2. m.ConN \in [Nodes -> Seq(Stubs \union {NoConn})] /\ m.status \in Seq(CallStates)
    BY <1>0 DEF MethodRecords
  <2>3. QED
    BY <1>0, <2>1, <2>2
<1>2. m.ConP[n] \in DOMAIN S[n] /\ s \in Stubs /\ s # NoConn
  <2>1. m.ConP[n] \in DOMAIN S[n]
    BY <1>0 DEF PoolsUsed
  <2>2. QED
    BY <1>0, <2>1, TableFacts
<1>3. numbers \in Seq(Stubs \union {NoConn}) /\ Len(numbers) = Len(m.ConN[n])
  BY <1>0, <1>1, <1>2, ExceptSeq
<1>4. status2 \in Seq(CallStates) /\ Len(status2) = Len(m.status)
  <2>1. "out" \in CallStates
    BY DEF CallStates
  <2>2. QED
    BY <1>0, <1>1, <2>1, ExceptSeq
<1>5. m2 = [m EXCEPT !.ConN = ConN2, !.status = status2, !.sent = sent2]
  <2> HIDE DEF i, X
  <2>1. m2 = [m EXCEPT !.ConN[n][i] = s, !.status[X] = "out", !.sent[n] = i]
    BY DEF SendCall, i, X
  <2>2. QED
    BY <1>0, <1>1, <2>1 DEF MethodRecords
<1>6. ConN2 \in [Nodes -> Seq(Stubs \union {NoConn})] /\ sent2 \in [Nodes -> Nat]
  BY <1>0, <1>1, <1>3
<1>7. /\ ConN2[n] = numbers /\ DOMAIN numbers = DOMAIN m.ConN[n] /\ numbers[i] = s
      /\ \A j \in DOMAIN numbers \ {i} : numbers[j] = m.ConN[n][j]
      /\ \A k \in Nodes \ {n} : ConN2[k] = m.ConN[k] /\ sent2[k] = m.sent[k]
      /\ sent2[n] = i
  BY <1>0, <1>1
<1> HIDE DEF m2, ConN2, numbers, status2, sent2
<1>8. m2 \in MethodRecords
  BY <1>0, <1>4, <1>5, <1>6 DEF MethodRecords
<1>9. /\ m2.ConN = ConN2 /\ m2.stage = m.stage /\ m2.at = m.at /\ m2.async_calls = m.async_calls
      /\ m2.ConP = m.ConP /\ m2.begin = m.begin /\ m2.end = m.end /\ m2.status = status2
      /\ m2.pc = m.pc /\ m2.sent = sent2 /\ m2.queue = m.queue
      /\ m2.event = m.event /\ m2.recv = m.recv /\ m2.abort = m.abort
      /\ m2.cancelled = m.cancelled /\ m2.expired = m.expired /\ m2.result = m.result
  BY <1>0, <1>5 DEF MethodRecords
<1>10. \A k \in Nodes : Len(ConN2[k]) = Len(m.ConN[k])
  BY <1>0, <1>3, <1>7
<1>11. SameRanges(m, m2)
  BY <1>0, <1>4, <1>9, <1>10 DEF SameRanges
<1>12. HeldBy(m2, n) = HeldBy(m, n) \union {i}
  BY <1>0, <1>2, <1>7, <1>9 DEF HeldBy
<1>13. \A k \in Nodes \ {n} : HeldBy(m2, k) = HeldBy(m, k)
  BY <1>0, <1>7, <1>9 DEF HeldBy
<1>14. Cardinality(HeldBy(m2, n)) = Cardinality(HeldBy(m, n)) + 1
  BY <1>0, <1>12, HeldFinite, FS_AddElement
<1>15. PoolsUsed(S, m2)
  <2> SUFFICES ASSUME NEW k \in Nodes
               PROVE  /\ m.ConP[k] \in DOMAIN S[k] \union {0}
                      /\ m.begin[k] + sent2[k] <= m.end[k]
                      /\ Len(ConN2[k]) <= MaxCalls
                      /\ \A j \in HeldBy(m2, k) : m.ConP[k] # 0 /\ ConN2[k][j] \in S[k][m.ConP[k]]
                      /\ m.ConP[k] # 0 =>
                           Cardinality(HeldBy(m2, k)) <= Cardinality(S[k][m.ConP[k]])
    BY <1>0, <1>9 DEF PoolsUsed
  <2>1. m.ConP[k] \in DOMAIN S[k] \union {0} /\ Len(ConN2[k]) <= MaxCalls
    BY <1>0, <1>10 DEF PoolsUsed
  <2>2. m.begin[k] + sent2[k] <= m.end[k]
    <3>1. CASE k = n
      BY <1>0, <1>1, <1>7, <3>1
    <3>2. CASE k # n
      BY <1>0, <1>7, <3>2 DEF PoolsUsed
    <3>3. QED
      BY <1>0, <3>1, <3>2
  <2>3. ASSUME NEW j \in HeldBy(m2, k)
        PROVE  m.ConP[k] # 0 /\ ConN2[k][j] \in S[k][m.ConP[k]]
    <3>1. CASE k = n /\ j = i
      BY <1>0, <1>7, <3>1
    <3>2. CASE ~(k = n /\ j = i)
      <4>1. j \in HeldBy(m, k)
        BY <1>0, <1>12, <1>13, <3>2
      <4>2. ConN2[k][j] = m.ConN[k][j]
        BY <1>0, <1>7, <3>2, <4>1 DEF HeldBy
      <4>3. QED
        BY <1>0, <4>1, <4>2 DEF PoolsUsed
    <3>3. QED
      BY <1>0, <3>1, <3>2
  <2>4. ASSUME m.ConP[k] # 0
        PROVE  Cardinality(HeldBy(m2, k)) <= Cardinality(S[k][m.ConP[k]])
    <3>1. Cardinality(HeldBy(m, k)) <= Cardinality(S[k][m.ConP[k]]) /\ m.ConP[k] \in DOMAIN S[k]
      BY <1>0, <2>4 DEF PoolsUsed
    <3>2. CASE k = n
      BY <1>0, <1>2, <1>14, <3>2, HeldFinite, TableFacts
    <3>3. CASE k # n
      BY <1>0, <1>13, <3>1, <3>3
    <3>4. QED
      BY <1>0, <3>2, <3>3
  <2>5. QED
    BY <1>0, <2>1, <2>2, <2>3, <2>4
<1>16. QED
  BY <1>0, <1>8, <1>9, <1>11, <1>12, <1>13, <1>14, <1>15 DEF AfterSending, m2, ConN2, numbers, status2, sent2

-----------------------------------------------------------------------------
(* The steps of a thread, as facts about local states. *)

LEMMA InvFields ==
  ASSUME NEW S, NEW m, MethodInv(S, m)
  PROVE  /\ FieldsOK(S, m) /\ Placed(m) /\ PoolsUsed(S, m) /\ m \in MethodRecords
         /\ m.stage \in DOMAIN stages /\ m.at \in 1 .. Len(NodesOf(m)) + 1
         /\ m.pc # "done" => m.result = "none"
  BY DEF MethodInv, FieldsOK, Placed

(* In "prepare" no call is out. *)
LEMMA PreparingInv ==
  ASSUME NEW S, NEW m, MethodInv(S, m), m.pc = "prepare"
  PROVE  PrepareInv(S, m) /\ HoldsNothing(m) /\ AllEnded(m) /\ NothingSent(m)
<1>1. PrepareInv(S, m)
  BY DEF MethodInv
<1>2. AllEnded(m)
  <2>1. m.async_calls \in BOOLEAN
    BY InvFields DEF MethodRecords
  <2>2. QED
    BY <1>1, <2>1 DEF PrepareInv, AllOk, AllEnded
<1>3. QED
  BY <1>1, <1>2 DEF PrepareInv

LEMMA PrepareReturns ==
  ASSUME NEW S, NEW m, MethodInv(S, m), m.pc = "prepare", NEW r \in Results \ {"none"}
  PROVE  MethodInv(S, Returned(m, r))
  BY PreparingInv, InvFields, ReturnedInv DEF NothingSent

LEMMA CallReturns ==
  ASSUME NEW S, NEW m, MethodInv(S, m), m.pc = "call", NEW r \in Results \ {"none"}
  PROVE  MethodInv(S, Returned(m, r))
<1>1. CallInv(m)
  BY DEF MethodInv
<1>2. HoldsNothing(m) /\ AllEnded(m) /\ m.queue = {}
  BY <1>1 DEF CallInv, InTurnInv, NothingSent, AllOk, AllEnded
<1>3. QED
  BY <1>2, InvFields, ReturnedInv

(* The same calls hold the same connections. *)
KeepsHolding(m, m2) == \A n \in Nodes :
  /\ HeldBy(m2, n) = HeldBy(m, n)
  /\ \A i \in HeldBy(m, n) : m2.ConN[n][i] = m.ConN[n][i] /\ m2.ConP[n] = m.ConP[n]

(* In m2, and not in m, the call i of node n holds stub s. *)
HoldsOneMore(m, m2, n, i, s) ==
  /\ n \in Nodes /\ m2.ConP[n] = m.ConP[n]
  /\ i \notin HeldBy(m, n) /\ HeldBy(m2, n) = HeldBy(m, n) \union {i} /\ m2.ConN[n][i] = s
  /\ \A j \in HeldBy(m, n) : m2.ConN[n][j] = m.ConN[n][j]
  /\ \A k \in Nodes \ {n} :
       /\ HeldBy(m2, k) = HeldBy(m, k)
       /\ \A j \in HeldBy(m, k) : m2.ConN[k][j] = m.ConN[k][j] /\ m2.ConP[k] = m.ConP[k]

LEMMA PoolsKept ==
  ASSUME NEW m, NEW m2, SamePools(m, m2)
  PROVE  /\ KeepsHolding(m, m2)
         /\ \A m1, n, i, s : HoldsOneMore(m1, m, n, i, s) => HoldsOneMore(m1, m2, n, i, s)
         /\ \A m1, n, i, s : HoldsOneMore(m, m1, n, i, s) => HoldsOneMore(m2, m1, n, i, s)
<1>1. m2.ConP = m.ConP /\ m2.ConN = m.ConN /\ \A n : HeldBy(m2, n) = HeldBy(m, n)
  BY DEF SamePools, HeldBy
<1>2. QED
  BY <1>1 DEF KeepsHolding, HoldsOneMore

LEMMA GivenMoves ==
  ASSUME NEW S, NEW m \in MethodRecords, NEW n \in Nodes, NEW i \in HeldBy(m, n), NEW m2,
         AfterGiving(S, m, n, i, m2)
  PROVE  HoldsOneMore(m2, m, n, i, m.ConN[n][i])
<1>1. /\ m2.ConN = [m.ConN EXCEPT ![n] = [m.ConN[n] EXCEPT ![i] = NoConn]]
      /\ HeldBy(m2, n) = HeldBy(m, n) \ {i} /\ \A k \in Nodes \ {n} : HeldBy(m2, k) = HeldBy(m, k)
      /\ m2.ConP = m.ConP
  BY DEF AfterGiving, SameRanges
<1>2. m.ConN \in [Nodes -> Seq(Stubs \union {NoConn})] /\ HeldBy(m, n) \subseteq DOMAIN m.ConN[n]
  BY DEF MethodRecords, HeldBy
<1>3. \A j \in HeldBy(m2, n) : m.ConN[n][j] = m2.ConN[n][j]
  BY <1>1, <1>2
<1>4. \A k \in Nodes \ {n} : m2.ConN[k] = m.ConN[k]
  BY <1>1, <1>2
<1>5. i \notin HeldBy(m2, n) /\ HeldBy(m, n) = HeldBy(m2, n) \union {i}
  BY <1>1
<1>6. QED
  BY <1>1, <1>3, <1>4, <1>5 DEF HoldsOneMore

LEMMA SentMoves ==
  ASSUME NEW S, NEW m, NEW n, NEW s, NEW m2, CanSend(S, m, n, s), AfterSending(S, m, n, s, m2)
  PROVE  HoldsOneMore(m, m2, n, m.sent[n] + 1, s)
<1> DEFINE i == m.sent[n] + 1
<1>1. m \in MethodRecords /\ n \in Nodes /\ i \in DOMAIN m.ConN[n] /\ i \notin HeldBy(m, n)
  BY DEF CanSend
<1>2. /\ m2.ConN = [m.ConN EXCEPT ![n] = [m.ConN[n] EXCEPT ![i] = s]]
      /\ HeldBy(m2, n) = HeldBy(m, n) \union {i} /\ \A k \in Nodes \ {n} : HeldBy(m2, k) = HeldBy(m, k)
      /\ m2.ConP = m.ConP
  BY DEF AfterSending, SameRanges
<1> HIDE DEF i
<1>3. m.ConN \in [Nodes -> Seq(Stubs \union {NoConn})] /\ HeldBy(m, n) \subseteq DOMAIN m.ConN[n]
  BY <1>1 DEF MethodRecords, HeldBy
<1>4. m2.ConN[n][i] = s /\ \A j \in HeldBy(m, n) : m2.ConN[n][j] = m.ConN[n][j]
  BY <1>1, <1>2, <1>3
<1>5. \A k \in Nodes \ {n} : m2.ConN[k] = m.ConN[k]
  BY <1>1, <1>2, <1>3
<1>6. QED
  BY <1>1, <1>2, <1>4, <1>5 DEF HoldsOneMore, i

(* X_call() up to the RPC. *)
LEMMA CallMade ==
  ASSUME NEW S, TableOK(S), NEW m, MethodInv(S, m), m.pc = "call",
         NEW n, n = NodesOf(m)[m.at], NEW s \in S[n][m.ConP[n]]
  PROVE  LET m2 == [m EXCEPT !.pc = "called", !.ConN[n] = Append(@, s), !.status = Append(@, "out")]
         IN  MethodInv(S, m2) /\ HoldsOneMore(m, m2, n, Len(m.ConN[n]) + 1, s)
<1> DEFINE m2      == [m EXCEPT !.pc = "called", !.ConN[n] = Append(@, s),
                                !.status = Append(@, "out")]
           numbers == Append(m.ConN[n], s)
           ConN2   == [m.ConN EXCEPT ![n] = numbers]
           status2 == Append(m.status, "out")
<1>1. CallInv(m) /\ InTurnInv(m)
  BY DEF MethodInv, CallInv
<1>2. m \in MethodRecords /\ Placed(m) /\ PoolsUsed(S, m) /\ m.result = "none"
  BY InvFields
<1>3. n \in Nodes
  BY <1>1, <1>2, StageNodes DEF Placed, InTurnInv
<1>4. m.ConP[n] \in DOMAIN S[n]
  BY <1>1, <1>2, <1>3 DEF InTurnInv, PoolsUsed
<1>5. s \in Stubs /\ s # NoConn /\ Cardinality(S[n][m.ConP[n]]) \in Nat \ {0}
  BY <1>3, <1>4, TableFacts
<1>6. m.ConN \in [Nodes -> Seq(Stubs \union {NoConn})] /\ m.status \in Seq(CallStates)
  BY <1>2 DEF MethodRecords
<1>7. m.begin \in [Nodes -> Nat] /\ m.end \in [Nodes -> Nat]
  BY <1>2 DEF MethodRecords
<1>8. /\ numbers \in Seq(Stubs \union {NoConn}) /\ Len(numbers) = Len(m.ConN[n]) + 1
      /\ numbers[Len(numbers)] = s
      /\ \A j \in 1 .. Len(m.ConN[n]) : numbers[j] = m.ConN[n][j]
  <2>1. m.ConN[n] \in Seq(Stubs \union {NoConn}) /\ s \in Stubs \union {NoConn}
    BY <1>3, <1>5, <1>6
  <2>2. QED
    BY <2>1, AppendProperties
<1>9. /\ status2 \in Seq(CallStates) /\ Len(status2) = Len(m.status) + 1
      /\ status2[Len(status2)] = "out"
      /\ \A X \in 1 .. Len(m.status) : status2[X] = m.status[X]
  <2>1. "out" \in CallStates
    BY DEF CallStates
  <2>2. QED
    BY <1>6, <2>1, AppendProperties
<1>10. ConN2 \in [Nodes -> Seq(Stubs \union {NoConn})]
  BY <1>3, <1>6, <1>8
<1>11. ConN2[n] = numbers /\ \A k \in Nodes \ {n} : ConN2[k] = m.ConN[k]
  BY <1>3, <1>6
<1>12. m2 = [m EXCEPT !.pc = "called", !.ConN = ConN2, !.status = status2]
  BY <1>2, <1>6 DEF MethodRecords
<1> HIDE DEF m2, ConN2, numbers, status2
<1>13. m2 \in MethodRecords
  BY <1>2, <1>9, <1>10, <1>12 DEF MethodRecords, States
<1>14. /\ m2.pc = "called" /\ m2.ConN = ConN2 /\ m2.status = status2 /\ m2.result = "none"
       /\ m2.stage = m.stage /\ m2.at = m.at /\ m2.async_calls = m.async_calls
       /\ m2.ConP = m.ConP /\ m2.begin = m.begin /\ m2.end = m.end /\ m2.sent = m.sent
       /\ m2.queue = m.queue /\ m2.recv = m.recv /\ m2.abort = m.abort
  BY <1>2, <1>12 DEF MethodRecords
<1>15. NodesOf(m2) = NodesOf(m)
  BY <1>14 DEF NodesOf
<1>16. m.queue = {} /\ m.recv = 0
  BY <1>1 DEF InTurnInv, NothingSent
<1>17. Placed(m2)
  BY <1>2, <1>9, <1>13, <1>14, <1>15, <1>16 DEF Placed
<1>18. HeldBy(m2, n) = {Len(numbers)} /\ \A k \in Nodes \ {n} : HeldBy(m2, k) = {}
  <2>1. \A k \in Nodes : \A j \in DOMAIN m.ConN[k] : m.ConN[k][j] = NoConn
    BY <1>1 DEF CallInv, HoldsNothing, HeldBy
  <2>2. DOMAIN numbers = 1 .. Len(m.ConN[n]) + 1 /\ DOMAIN m.ConN[n] = 1 .. Len(m.ConN[n])
        /\ Len(m.ConN[n]) \in Nat
    BY <1>3, <1>6, <1>8
  <2>3. HeldBy(m2, n) = {j \in 1 .. Len(m.ConN[n]) + 1 : numbers[j] # NoConn}
    BY <1>11, <1>14, <2>2 DEF HeldBy
  <2>4. HeldBy(m2, n) = {Len(numbers)}
    <3>1. \A j \in 1 .. Len(m.ConN[n]) : numbers[j] = NoConn
      BY <1>3, <1>8, <2>1, <2>2
    <3>2. numbers[Len(m.ConN[n]) + 1] # NoConn
      BY <1>5, <1>8
    <3>3. \A j \in 1 .. Len(m.ConN[n]) + 1 : j \in 1 .. Len(m.ConN[n]) \/ j = Len(m.ConN[n]) + 1
      BY <2>2
    <3>4. Len(m.ConN[n]) + 1 \in 1 .. Len(m.ConN[n]) + 1 /\ Len(numbers) = Len(m.ConN[n]) + 1
      BY <1>8, <2>2
    <3>5. QED
      BY <2>3, <3>1, <3>2, <3>3, <3>4
  <2>5. \A k \in Nodes \ {n} : HeldBy(m2, k) = {}
    BY <1>11, <1>14, <2>1 DEF HeldBy
  <2>6. QED
    BY <2>4, <2>5
<1>19. Len(numbers) <= MaxCalls
  BY <1>1, <1>3, <1>6, <1>7, <1>8, BoundsAssumption DEF CallInv, InTurnInv
<1>20. PoolsUsed(S, m2)
  <2> SUFFICES ASSUME NEW k \in Nodes
               PROVE  /\ m.ConP[k] \in DOMAIN S[k] \union {0}
                      /\ m.begin[k] + m.sent[k] <= m.end[k]
                      /\ Len(ConN2[k]) <= MaxCalls
                      /\ \A j \in HeldBy(m2, k) : m.ConP[k] # 0 /\ ConN2[k][j] \in S[k][m.ConP[k]]
                      /\ m.ConP[k] # 0 =>
                           Cardinality(HeldBy(m2, k)) <= Cardinality(S[k][m.ConP[k]])
    BY <1>14 DEF PoolsUsed
  <2>1. CASE k = n
    <3>1. Cardinality(HeldBy(m2, n)) = 1
      BY <1>18, FS_Singleton
    <3>2. 1 <= Cardinality(S[n][m.ConP[n]])
      BY <1>5
    <3>3. m.ConP[n] # 0
      BY <1>1 DEF InTurnInv
    <3>4. \A j \in HeldBy(m2, n) : ConN2[n][j] = s
      BY <1>8, <1>11, <1>18
    <3>5. m.begin[n] + m.sent[n] <= m.end[n] /\ Len(ConN2[n]) <= MaxCalls
      BY <1>2, <1>3, <1>11, <1>19 DEF PoolsUsed
    <3>6. QED
      BY <1>4, <2>1, <3>1, <3>2, <3>3, <3>4, <3>5
  <2>2. CASE k # n
    <3>1. Cardinality(HeldBy(m2, k)) = 0
      BY <1>18, <2>2, FS_EmptySet
    <3>2. m.ConP[k] # 0 => Cardinality(S[k][m.ConP[k]]) \in Nat
      BY <1>2, TableFacts DEF PoolsUsed
    <3>3. QED
      BY <1>2, <1>11, <1>18, <2>2, <3>1, <3>2 DEF PoolsUsed
  <2>3. QED
    BY <2>1, <2>2
<1>21. CalledInv(m2)
  <2>1. Len(m2.ConN[NodesOf(m2)[m2.at]]) > 0
    BY <1>3, <1>6, <1>8, <1>11, <1>14, <1>15
  <2>2. InTurnInv(m2)
    <3>1. /\ ~m.async_calls /\ m.at <= Len(NodesOf(m)) /\ m.ConP[n] # 0 /\ NothingSent(m)
          /\ m.begin[n] + Len(m.ConN[n]) = Len(m.status)
          /\ Len(m.status) < m.end[n] /\ m.end[n] <= m.begin[n] + MaxCalls
      BY <1>1 DEF InTurnInv, CallInv
    <3>2. Len(m.ConN[n]) \in Nat /\ Len(m.status) \in Nat /\ m.begin[n] \in Nat /\ m.end[n] \in Nat
      BY <1>3, <1>6, <1>7
    <3>3. m.begin[n] + Len(numbers) = Len(status2) /\ Len(status2) <= m.end[n]
      <4> DEFINE b == m.begin[n]
                 l == Len(m.ConN[n])
                 k == Len(m.status)
                 z == m.end[n]
      <4>1. b \in Nat /\ l \in Nat /\ k \in Nat /\ z \in Nat /\ b + l = k /\ k < z
        BY <3>1, <3>2
      <4>2. Len(numbers) = l + 1 /\ Len(status2) = k + 1
        BY <1>8, <1>9
      <4> HIDE DEF b, l, k, z
      <4>3. b + (l + 1) = k + 1 /\ k + 1 <= z
        BY <4>1
      <4>4. QED
        BY <4>2, <4>3 DEF b, z
    <3>4. QED
      BY <1>11, <1>14, <1>15, <3>1, <3>3 DEF InTurnInv, NothingSent
  <2>3. \A X \in 1 .. Len(m2.status) - 1 : m2.status[X] = "ok"
    BY <1>1, <1>6, <1>9, <1>14 DEF CallInv, AllOk
  <2>4. m2.status[Len(m2.status)] # "unsent"
    BY <1>9, <1>14
  <2>5. \A k \in Nodes :
          HeldBy(m2, k) = IF k = NodesOf(m2)[m2.at] THEN {Len(m2.ConN[k])} ELSE {}
    BY <1>11, <1>14, <1>15, <1>18
  <2>6. QED
    BY <2>1, <2>2, <2>3, <2>4, <2>5 DEF CalledInv
<1>22. MethodInv(S, m2)
  BY <1>14, <1>17, <1>20, <1>21 DEF MethodInv, FieldsOK
<1>23. HoldsOneMore(m, m2, n, Len(numbers), s)
  <2>1. \A k \in Nodes : HeldBy(m, k) = {}
    BY <1>1 DEF CallInv, HoldsNothing
  <2>2. m2.ConP[n] = m.ConP[n] /\ m2.ConN[n][Len(numbers)] = s
    BY <1>8, <1>11, <1>14
  <2>3. QED
    BY <1>3, <1>18, <2>1, <2>2 DEF HoldsOneMore
<1>24. QED
  BY <1>8, <1>22, <1>23 DEF m2

(* The next call of a node, or the next node. *)
LEMMA NextCallInv ==
  ASSUME NEW S, NEW m, FieldsOK(S, m), m.result = "none", InTurnInv(m), HoldsNothing(m), AllOk(m),
         NEW n, n = NodesOf(m)[m.at]
  PROVE  MethodInv(S, NextCall(m, n))
<1>1. /\ m \in MethodRecords /\ Placed(m) /\ PoolsUsed(S, m) /\ m.at \in Nat
      /\ m.at <= Len(NodesOf(m)) /\ Len(NodesOf(m)) \in Nat /\ ~m.async_calls /\ NothingSent(m)
  BY StageNodes DEF FieldsOK, Placed, MethodRecords, InTurnInv
<1>2. CASE Len(m.status) < m.end[n]
  <2> DEFINE m2 == [m EXCEPT !.pc = "call"]
  <2>1. /\ m2 \in MethodRecords /\ m2.pc = "call" /\ m2.result = "none"
        /\ m2.ConP = m.ConP /\ m2.begin = m.begin /\ m2.end = m.end /\ m2.sent = m.sent
        /\ m2.ConN = m.ConN /\ m2.stage = m.stage /\ m2.at = m.at /\ m2.queue = m.queue
        /\ m2.status = m.status /\ m2.recv = m.recv /\ m2.async_calls = m.async_calls
        /\ m2.abort = m.abort
    BY <1>1 DEF MethodRecords, States
  <2> HIDE DEF m2
  <2>2. SamePools(m, m2) /\ NodesOf(m2) = NodesOf(m)
    BY <2>1 DEF SamePools, NodesOf
  <2>3. Placed(m2)
    BY <1>1, <2>1, <2>2 DEF Placed
  <2>4. PoolsUsed(S, m2) /\ HoldsNothing(m2)
    BY <1>1, <2>2, SamePoolsFacts
  <2>5. InTurnInv(m2)
    BY <2>1, <2>2 DEF InTurnInv, NothingSent
  <2>6. CallInv(m2)
    BY <1>2, <2>1, <2>2, <2>4, <2>5 DEF CallInv, AllOk
  <2>7. MethodInv(S, m2)
    BY <2>1, <2>3, <2>4, <2>6 DEF MethodInv, FieldsOK
  <2>8. QED
    BY <1>2, <2>7 DEF NextCall, m2
<1>3. CASE ~(Len(m.status) < m.end[n])
  <2> DEFINE next == m.at + 1
             m2   == [m EXCEPT !.pc = "prepare", !.at = next]
  <2>0. next \in Nat
    BY <1>1
  <2> HIDE DEF next
  <2>1. /\ m2 \in MethodRecords /\ m2.pc = "prepare" /\ m2.result = "none"
        /\ m2.ConP = m.ConP /\ m2.begin = m.begin /\ m2.end = m.end /\ m2.sent = m.sent
        /\ m2.ConN = m.ConN /\ m2.stage = m.stage /\ m2.at = next /\ m2.queue = m.queue
        /\ m2.status = m.status /\ m2.recv = m.recv /\ m2.async_calls = m.async_calls
        /\ m2.abort = m.abort
    BY <1>1, <2>0 DEF MethodRecords, States
  <2>2. NextCall(m, n) = m2
    BY <1>1, <1>3 DEF NextCall, MethodRecords, next
  <2> HIDE DEF m2
  <2>3. SamePools(m, m2) /\ NodesOf(m2) = NodesOf(m)
    BY <2>1 DEF SamePools, NodesOf
  <2>4. Placed(m2)
    BY <1>1, <2>1, <2>3 DEF Placed, next
  <2>5. PoolsUsed(S, m2) /\ HoldsNothing(m2)
    BY <1>1, <2>3, SamePoolsFacts
  <2>6. PrepareInv(S, m2)
    BY <1>1, <2>1, <2>5 DEF PrepareInv, NothingSent, AllOk
  <2>7. QED
    BY <2>1, <2>2, <2>4, <2>5, <2>6 DEF MethodInv, FieldsOK
<1>4. QED
  BY <1>2, <1>3

(* X_call() after the RPC. *)
LEMMA CallGivenBack ==
  ASSUME NEW S, TableOK(S), NEW m, MethodInv(S, m), m.pc = "called",
         NEW n, n = NodesOf(m)[m.at], NEW i, i = Len(m.ConN[n]),
         NEW s, s = m.status[Len(m.status)], s # "out"
  PROVE  /\ n \in Nodes /\ i \in HeldBy(m, n)
         /\ MethodInv(S, IF s = "ok" THEN NextCall(Given(m, n, i), n)
                         ELSE Returned(Given(m, n, i), s))
<1> DEFINE m2 == Given(m, n, i)
<1>1. CalledInv(m) /\ InTurnInv(m)
  BY DEF MethodInv, CalledInv
<1>2. m \in MethodRecords /\ Placed(m) /\ PoolsUsed(S, m) /\ m.result = "none"
  BY InvFields
<1>3. n \in Nodes
  BY <1>1, <1>2, StageNodes DEF Placed, InTurnInv
<1>4. HeldBy(m, n) = {i}
  BY <1>1, <1>3 DEF CalledInv
<1>5. /\ m2 \in MethodRecords /\ PoolsUsed(S, m2) /\ SameRanges(m, m2)
      /\ m2.pc = m.pc /\ m2.sent = m.sent /\ m2.status = m.status /\ m2.queue = m.queue
      /\ m2.recv = m.recv /\ m2.abort = m.abort /\ m2.result = m.result
      /\ HeldBy(m2, n) = HeldBy(m, n) \ {i}
      /\ \A k \in Nodes \ {n} : HeldBy(m2, k) = HeldBy(m, k)
  <2>1. i \in HeldBy(m, n)
    BY <1>4
  <2>2. AfterGiving(S, m, n, i, m2)
    BY <1>2, <1>3, <2>1, GivenFacts
  <2>3. QED
    BY <2>2 DEF AfterGiving
<1> HIDE DEF m2
<1>6. HoldsNothing(m2)
  BY <1>1, <1>4, <1>5 DEF CalledInv, HoldsNothing
<1>7. NodesOf(m2) = NodesOf(m)
  BY <1>5 DEF SameRanges, NodesOf
<1>8. FieldsOK(S, m2)
  BY <1>2, <1>5, <1>7 DEF FieldsOK, Placed, SameRanges
<1>9. /\ DOMAIN m.status = 1 .. Len(m.status) /\ Len(m.status) \in Nat
      /\ \A X \in DOMAIN m.status : m.status[X] \in CallStates
  BY <1>2 DEF MethodRecords
<1>10. \A X \in DOMAIN m.status : X = Len(m.status) \/ m.status[X] = "ok"
  BY <1>1, <1>9 DEF CalledInv
<1>11. Len(m.status) > 0
  <2> DEFINE b == m.begin[n]
             l == Len(m.ConN[n])
             k == Len(m.status)
  <2>1. b + l = k /\ l > 0
    BY <1>1 DEF CalledInv, InTurnInv
  <2>2. b \in Nat /\ l \in Nat /\ k \in Nat
    BY <1>2, <1>3, <1>9, HeldFinite DEF MethodRecords
  <2> HIDE DEF b, l, k
  <2>3. k > 0
    BY <2>1, <2>2
  <2>4. QED
    BY <2>3 DEF k
<1>12. CASE s = "ok"
  <2>1. AllOk(m2)
    BY <1>5, <1>10, <1>12 DEF AllOk
  <2>2. InTurnInv(m2)
    <3>1. Len(m2.ConN[n]) = Len(m.ConN[n])
      BY <1>3, <1>5 DEF SameRanges
    <3>2. QED
      BY <1>1, <1>5, <1>7, <3>1 DEF InTurnInv, SameRanges, NothingSent
  <2>3. n = NodesOf(m2)[m2.at]
    BY <1>5, <1>7 DEF SameRanges
  <2>4. MethodInv(S, NextCall(m2, n))
    BY <1>2, <1>5, <1>6, <1>8, <2>1, <2>2, <2>3, NextCallInv
  <2>5. QED
    BY <1>3, <1>4, <1>12, <2>4 DEF m2
<1>13. CASE s # "ok"
  <2>1. s \in CallStates /\ s # "unsent"
    BY <1>1, <1>9, <1>11 DEF CalledInv
  <2>2. s \in Results \ {"none"}
    BY <1>13, <2>1 DEF CallStates, Ended, Failures, Results
  <2>3. AllEnded(m2)
    BY <1>5, <1>10 DEF AllEnded
  <2>4. m2.queue = {}
    BY <1>1, <1>5 DEF InTurnInv, NothingSent
  <2>5. MethodInv(S, Returned(m2, s))
    BY <1>6, <1>8, <2>2, <2>3, <2>4, ReturnedInv
  <2>6. QED
    BY <1>3, <1>4, <1>13, <2>5 DEF m2
<1>14. QED
  BY <1>12, <1>13

-----------------------------------------------------------------------------
(* Connectors are added, and keep their stubs. *)
Grown(S, S2) == \A n \in Nodes : \A g \in DOMAIN S[n] : g \in DOMAIN S2[n] /\ S2[n][g] = S[n][g]

LEMMA GrownInv ==
  ASSUME NEW S, NEW S2, Grown(S, S2), NEW m, MethodInv(S, m)
  PROVE  MethodInv(S2, m)
<1>1. Placed(m) /\ PoolsUsed(S, m) /\ FieldsOK(S, m) /\ m \in MethodRecords
  BY InvFields
<1>2. \A n \in Nodes : m.ConP[n] # 0 => m.ConP[n] \in DOMAIN S2[n] /\ S2[n][m.ConP[n]] = S[n][m.ConP[n]]
  BY <1>1 DEF PoolsUsed, Grown
<1>3. PoolsUsed(S2, m)
  BY <1>1, <1>2 DEF PoolsUsed
<1>4. /\ \A p \in DOMAIN NodesOf(m) : NodesOf(m)[p] \in Nodes
      /\ m.at \in Nat /\ m.at <= Len(NodesOf(m)) + 1
      /\ Len(NodesOf(m)) \in Nat /\ DOMAIN NodesOf(m) = 1 .. Len(NodesOf(m))
  BY <1>1, StageNodes DEF Placed
<1>5. \A p \in 1 .. m.at - 1 : p \in DOMAIN NodesOf(m)
  BY <1>4
<1>6. Numbered(S, m) => Numbered(S2, m)
  BY <1>2, <1>4, <1>5 DEF Numbered
<1>7. ASSUME EndInv(S, m)
      PROVE  /\ EndInv(S2, m)
             /\ \A p \in DOMAIN NodesOf(m) :
                  /\ m.ConP[NodesOf(m)[p]] # 0
                  /\ S2[NodesOf(m)[p]][m.ConP[NodesOf(m)[p]]] = S[NodesOf(m)[p]][m.ConP[NodesOf(m)[p]]]
                  /\ WindowOf(S2, m, NodesOf(m)[p]) = WindowOf(S, m, NodesOf(m)[p])
  <2>1. EndInv(S2, m)
    BY <1>6, <1>7 DEF EndInv
  <2>2. Numbered(S, m) /\ \A p \in DOMAIN NodesOf(m) : p \in 1 .. m.at - 1
    BY <1>4, <1>7 DEF EndInv
  <2>3. \A p \in DOMAIN NodesOf(m) : m.ConP[NodesOf(m)[p]] # 0
    BY <2>2 DEF Numbered
  <2>4. \A p \in DOMAIN NodesOf(m) :
          S2[NodesOf(m)[p]][m.ConP[NodesOf(m)[p]]] = S[NodesOf(m)[p]][m.ConP[NodesOf(m)[p]]]
    BY <1>2, <1>4, <2>3
  <2>5. QED
    BY <2>1, <2>3, <2>4 DEF WindowOf
<1>8. LoopInv(S, m) => LoopInv(S2, m)
  BY <1>7 DEF LoopInv
<1>9. SendInv(S, m) => SendInv(S2, m)
  BY <1>7, <1>8 DEF SendInv, LoopInv
<1>10. WaitInv(S, m) => WaitInv(S2, m)
  BY <1>8 DEF WaitInv
<1>11. ASSUME EventInv(S, m) PROVE EventInv(S2, m)
  <2>1. m.event \in DOMAIN m.status /\ EndInv(S, m)
    BY <1>11 DEF EventInv, LoopInv, Taken
  <2>2. PICK p \in DOMAIN NodesOf(m) : NodeOf(m, m.event) = NodesOf(m)[p]
    BY <1>1, <2>1, PlaceOfCall DEF EndInv
  <2>3. S2[NodeOf(m, m.event)][m.ConP[NodeOf(m, m.event)]] = S[NodeOf(m, m.event)][m.ConP[NodeOf(m, m.event)]]
    BY <1>7, <2>1, <2>2
  <2>4. QED
    BY <1>8, <1>11, <2>3 DEF EventInv
<1>12. PrepareInv(S, m) => PrepareInv(S2, m)
  BY <1>6 DEF PrepareInv
<1>13. DrainInv(S, m) => DrainInv(S2, m)
  BY <1>7 DEF DrainInv
<1>14. ReleaseInv(S, m) => ReleaseInv(S2, m)
  BY <1>7 DEF ReleaseInv
<1>15. QED
  BY <1>1, <1>3, <1>9, <1>10, <1>11, <1>12, <1>13, <1>14 DEF MethodInv, FieldsOK

-----------------------------------------------------------------------------
(* BNOD: node n takes connector last, for k calls. *)
Started(m, n, last, numbers, k) ==
  [m EXCEPT !.ConP[n] = last, !.sent[n] = 0, !.ConN[n] = numbers,
            !.begin[n] = Len(m.status), !.end[n] = Len(m.status) + k]

AfterStarting(S, m, n, last, numbers, k, m2) ==
  /\ FieldsOK(S, m2) /\ HoldsNothing(m2)
  /\ m2.pc = m.pc /\ m2.async_calls = m.async_calls /\ m2.stage = m.stage /\ m2.at = m.at
  /\ m2.status = m.status /\ m2.queue = m.queue /\ m2.recv = m.recv /\ m2.abort = m.abort
  /\ m2.result = m.result
  /\ m2.ConP[n] = last /\ m2.sent[n] = 0 /\ m2.ConN[n] = numbers
  /\ m2.begin[n] = Len(m.status) /\ m2.end[n] = Len(m.status) + k
  /\ \A j \in Nodes \ {n} :
       /\ m2.ConP[j] = m.ConP[j] /\ m2.sent[j] = m.sent[j] /\ m2.ConN[j] = m.ConN[j]
       /\ m2.begin[j] = m.begin[j] /\ m2.end[j] = m.end[j]

LEMMA StartedFacts ==
  ASSUME NEW S, TableOK(S), NEW m, FieldsOK(S, m), HoldsNothing(m), NEW n \in Nodes,
         NEW last \in Nat, last \in DOMAIN S[n], NEW numbers \in Seq({NoConn}), NEW k \in Nat,
         Len(numbers) <= MaxCalls
  PROVE  AfterStarting(S, m, n, last, numbers, k, Started(m, n, last, numbers, k))
<1> DEFINE m2     == Started(m, n, last, numbers, k)
           l      == Len(m.status)
           z      == l + k
           ConP2  == [m.ConP EXCEPT ![n] = last]
           sent2  == [m.sent EXCEPT ![n] = 0]
           ConN2  == [m.ConN EXCEPT ![n] = numbers]
           begin2 == [m.begin EXCEPT ![n] = l]
           end2   == [m.end EXCEPT ![n] = z]
<1>1. m \in MethodRecords /\ Placed(m) /\ PoolsUsed(S, m)
  BY DEF FieldsOK, Placed
<1>2. /\ m.ConP \in [Nodes -> Nat] /\ m.begin \in [Nodes -> Nat] /\ m.end \in [Nodes -> Nat]
      /\ m.sent \in [Nodes -> Nat] /\ m.ConN \in [Nodes -> Seq(Stubs \union {NoConn})]
      /\ l \in Nat /\ z \in Nat
  <2>1. l \in Nat /\ z \in Nat
    BY <1>1 DEF MethodRecords
  <2>2. m.ConP \in [Nodes -> Nat] /\ m.begin \in [Nodes -> Nat] /\ m.end \in [Nodes -> Nat]
    BY <1>1 DEF MethodRecords
  <2>3. m.sent \in [Nodes -> Nat] /\ m.ConN \in [Nodes -> Seq(Stubs \union {NoConn})]
    BY <1>1 DEF MethodRecords
  <2>4. QED
    BY <2>1, <2>2, <2>3
<1>3. m2 = [m EXCEPT !.ConP = ConP2, !.sent = sent2, !.ConN = ConN2, !.begin = begin2, !.end = end2]
  BY <1>1, <1>2 DEF Started, MethodRecords
<1>4. numbers \in Seq(Stubs \union {NoConn}) /\ \A i \in DOMAIN numbers : numbers[i] = NoConn
  OBVIOUS
<1>5. /\ ConP2 \in [Nodes -> Nat] /\ sent2 \in [Nodes -> Nat] /\ begin2 \in [Nodes -> Nat]
      /\ end2 \in [Nodes -> Nat] /\ ConN2 \in [Nodes -> Seq(Stubs \union {NoConn})]
  BY <1>2, <1>4
<1>6. /\ ConP2[n] = last /\ sent2[n] = 0 /\ ConN2[n] = numbers /\ begin2[n] = l /\ end2[n] = z
      /\ l + 0 <= z
      /\ \A j \in Nodes \ {n} :
           /\ ConP2[j] = m.ConP[j] /\ sent2[j] = m.sent[j] /\ ConN2[j] = m.ConN[j]
           /\ begin2[j] = m.begin[j] /\ end2[j] = m.end[j]
  BY <1>2
<1> HIDE DEF m2, ConP2, sent2, ConN2, begin2, end2
<1>7. m2 \in MethodRecords
  BY <1>1, <1>3, <1>5 DEF MethodRecords
<1>8. /\ m2.ConP = ConP2 /\ m2.sent = sent2 /\ m2.ConN = ConN2
      /\ m2.begin = begin2 /\ m2.end = end2
      /\ m2.pc = m.pc /\ m2.async_calls = m.async_calls /\ m2.stage = m.stage /\ m2.at = m.at
      /\ m2.status = m.status /\ m2.queue = m.queue /\ m2.recv = m.recv /\ m2.abort = m.abort
      /\ m2.result = m.result
  BY <1>1, <1>3 DEF MethodRecords
<1>9. Placed(m2)
  <2>1. NodesOf(m2) = NodesOf(m)
    BY <1>8 DEF NodesOf
  <2>2. QED
    BY <1>1, <1>7, <1>8, <2>1 DEF Placed
<1>10. HoldsNothing(m2)
  <2> SUFFICES ASSUME NEW j \in Nodes PROVE HeldBy(m2, j) = {}
    BY DEF HoldsNothing
  <2>1. CASE j = n
    BY <1>4, <1>6, <1>8, <2>1 DEF HeldBy
  <2>2. CASE j # n
    <3>1. HeldBy(m, j) = {}
      BY DEF HoldsNothing
    <3>2. QED
      BY <1>6, <1>8, <2>2, <3>1 DEF HeldBy
  <2>3. QED
    BY <2>1, <2>2
<1>11. PoolsUsed(S, m2)
  <2> SUFFICES ASSUME NEW j \in Nodes
               PROVE  /\ ConP2[j] \in DOMAIN S[j] \union {0}
                      /\ begin2[j] + sent2[j] <= end2[j]
                      /\ Len(ConN2[j]) <= MaxCalls
                      /\ HeldBy(m2, j) = {}
                      /\ ConP2[j] # 0 =>
                           Cardinality(HeldBy(m2, j)) <= Cardinality(S[j][ConP2[j]])
    BY <1>8 DEF PoolsUsed
  <2>1. HeldBy(m2, j) = {} /\ Cardinality(HeldBy(m2, j)) = 0
    BY <1>10, FS_EmptySet DEF HoldsNothing
  <2>2. ConP2[j] \in DOMAIN S[j] \union {0} /\ begin2[j] + sent2[j] <= end2[j] /\ Len(ConN2[j]) <= MaxCalls
    <3>1. CASE j = n
      BY <1>6, <3>1
    <3>2. CASE j # n
      BY <1>1, <1>6, <3>2 DEF PoolsUsed
    <3>3. QED
      BY <3>1, <3>2
  <2>3. ASSUME ConP2[j] # 0 PROVE 0 <= Cardinality(S[j][ConP2[j]])
    <3>1. Cardinality(S[j][ConP2[j]]) \in Nat
      BY <2>2, <2>3, TableFacts
    <3>2. QED
      BY <3>1
  <2>4. QED
    BY <2>1, <2>2, <2>3
<1>12. AfterStarting(S, m, n, last, numbers, k, m2)
  BY <1>6, <1>8, <1>9, <1>10, <1>11 DEF AfterStarting, FieldsOK
<1>13. QED
  BY <1>12 DEF m2

(* The calls of the node are made one by one. *)
LEMMA StartedInTurn ==
  ASSUME NEW S, TableOK(S), NEW m, MethodInv(S, m), m.pc = "prepare", ~m.async_calls,
         NEW n, n = NodesOf(m)[m.at], m.at <= Len(NodesOf(m)),
         NEW last \in Nat \ {0}, last \in DOMAIN S[n], NEW k \in 0 .. MaxCalls
  PROVE  MethodInv(S, NextCall(Started(m, n, last, <<>>, k), n))
<1> DEFINE none == <<>>
           m2   == Started(m, n, last, none, k)
           l    == Len(m.status)
<1>1. FieldsOK(S, m) /\ m \in MethodRecords /\ Placed(m) /\ m.result = "none"
  BY InvFields
<1>2. n \in Nodes
  <2>1. m.at \in DOMAIN NodesOf(m)
    BY <1>1, StageNodes DEF Placed
  <2>2. QED
    BY <1>1, <2>1, StageNodes DEF Placed
<1>3. none \in Seq({NoConn}) /\ Len(none) = 0 /\ k \in Nat
  BY EmptySeq
<1>4. HoldsNothing(m) /\ NothingSent(m) /\ AllOk(m)
  BY PreparingInv DEF PrepareInv
<1> HIDE DEF none, m2
<1>5. AfterStarting(S, m, n, last, none, k, m2)
  <2>1. Len(none) <= MaxCalls
    BY <1>3, BoundsAssumption
  <2>2. QED
    BY <1>1, <1>2, <1>3, <1>4, <2>1, StartedFacts DEF m2
<1>6. n = NodesOf(m2)[m2.at] /\ NodesOf(m2) = NodesOf(m)
  BY <1>5 DEF AfterStarting, NodesOf
<1>7. l \in Nat
  BY <1>1 DEF MethodRecords
<1>8. InTurnInv(m2)
  <2>1. m2.begin[n] = l /\ m2.end[n] = l + k /\ m2.ConN[n] = none /\ m2.status = m.status
        /\ m2.ConP[n] = last
    BY <1>5 DEF AfterStarting
  <2>2. /\ m2.begin[n] + Len(m2.ConN[n]) = Len(m2.status)
        /\ Len(m2.status) <= m2.end[n] /\ m2.end[n] <= m2.begin[n] + MaxCalls
    <3> HIDE DEF l
    <3>1. l + 0 = l /\ l <= l + k /\ l + k <= l + MaxCalls
      BY <1>7, BoundsAssumption
    <3>2. QED
      BY <1>3, <2>1, <3>1 DEF l
  <2>3. ~m2.async_calls /\ m2.at <= Len(NodesOf(m2)) /\ NothingSent(m2)
    BY <1>4, <1>5, <1>6 DEF AfterStarting, NothingSent
  <2>4. QED
    BY <1>6, <2>1, <2>2, <2>3 DEF InTurnInv
<1>9. FieldsOK(S, m2) /\ HoldsNothing(m2) /\ AllOk(m2) /\ m2.result = "none"
  BY <1>1, <1>4, <1>5 DEF AfterStarting, AllOk
<1>10. MethodInv(S, NextCall(m2, n))
  BY <1>6, <1>8, <1>9, NextCallInv
<1>11. QED
  BY <1>10 DEF m2, none

LEMMA FillFacts ==
  ASSUME NEW k \in Nat, NEW v, NEW T, v \in T
  PROVE  /\ Fill(k, v) \in Seq(T) /\ Len(Fill(k, v)) = k
         /\ \A i \in DOMAIN Fill(k, v) : Fill(k, v)[i] = v
<1>1. Fill(k, v) \in [1 .. k -> T] /\ \A i \in 1 .. k : Fill(k, v)[i] = v
  BY DEF Fill
<1>2. QED
  BY <1>1

LEMMA FilledFacts ==
  ASSUME NEW T, NEW a \in Seq(T), NEW k \in Nat, NEW v \in T
  PROVE  a \o Fill(k, v) \in Seq(T) /\ Len(a \o Fill(k, v)) = Len(a) + k
<1>1. Fill(k, v) \in Seq(T) /\ Len(Fill(k, v)) = k
  BY FillFacts
<1>2. QED
  BY <1>1, ConcatProperties

(* The ranges of numbers of the nodes prepared so far. *)
LEMMA RangesOrdered ==
  ASSUME NEW S, NEW m, FieldsOK(S, m), Numbered(S, m),
         NEW p \in 1 .. m.at - 1
  PROVE  m.end[NodesOf(m)[p]] <= Len(m.status)
<1>1. /\ m.at \in Nat /\ m.at <= Len(NodesOf(m)) + 1 /\ Len(NodesOf(m)) \in Nat
      /\ \A q \in DOMAIN NodesOf(m) : NodesOf(m)[q] \in Nodes
      /\ DOMAIN NodesOf(m) = 1 .. Len(NodesOf(m))
  BY StageNodes DEF FieldsOK, Placed
<1>2. m.begin \in [Nodes -> Nat] /\ m.end \in [Nodes -> Nat] /\ m.sent \in [Nodes -> Nat]
  BY DEF FieldsOK, Placed, MethodRecords
<1> DEFINE last == m.at - 1
<1>3. p \in 1 .. last /\ last \in 1 .. m.at - 1 /\ last \in DOMAIN NodesOf(m)
      /\ p \in DOMAIN NodesOf(m)
  BY <1>1
<1>4. m.end[NodesOf(m)[last]] = Len(m.status)
  BY <1>3 DEF Numbered
<1> HIDE DEF last
<1>5. CASE p # last
  <2>1. p \in 1 .. last - 1 /\ NodesOf(m)[last] \in Nodes /\ NodesOf(m)[p] \in Nodes
    BY <1>1, <1>3, <1>5
  <2>2. m.end[NodesOf(m)[p]] <= m.begin[NodesOf(m)[last]]
    BY <1>3, <2>1 DEF Numbered
  <2>3. m.begin[NodesOf(m)[last]] + m.sent[NodesOf(m)[last]] <= m.end[NodesOf(m)[last]]
    BY <2>1 DEF FieldsOK, PoolsUsed
  <2>4. QED
    <3> DEFINE a == m.end[NodesOf(m)[p]]
               b == m.begin[NodesOf(m)[last]]
               c == m.sent[NodesOf(m)[last]]
               d == m.end[NodesOf(m)[last]]
    <3>1. a \in Nat /\ b \in Nat /\ c \in Nat /\ d \in Nat /\ a <= b /\ b + c <= d
      BY <1>2, <2>1, <2>2, <2>3
    <3> HIDE DEF a, b, c, d
    <3>2. a <= d
      BY <3>1
    <3>3. QED
      BY <1>4, <3>2 DEF a, d
<1>6. CASE p = last
  BY <1>1, <1>2, <1>3, <1>4, <1>6
<1>7. QED
  BY <1>5, <1>6

(* The calls of the node are numbered. *)
LEMMA StartedTogether ==
  ASSUME NEW S, TableOK(S), NEW m, MethodInv(S, m), m.pc = "prepare", m.async_calls,
         NEW n, n = NodesOf(m)[m.at], m.at <= Len(NodesOf(m)),
         NEW last \in Nat \ {0}, last \in DOMAIN S[n], NEW k \in 0 .. MaxCalls,
         k = 0 \/ S[n][last] # {}
  PROVE  MethodInv(S, [Started(m, n, last, Fill(k, NoConn), k) EXCEPT
                         !.at = @ + 1, !.status = @ \o Fill(k, "unsent")])
<1> DEFINE numbers == Fill(k, NoConn)
           unsent  == Fill(k, "unsent")
           m2      == Started(m, n, last, numbers, k)
           l       == Len(m.status)
           next    == m.at + 1
           status2 == m.status \o unsent
           m3      == [m2 EXCEPT !.at = next, !.status = status2]
<1>1. FieldsOK(S, m) /\ m \in MethodRecords /\ Placed(m) /\ m.result = "none" /\ PoolsUsed(S, m)
  BY InvFields
<1>2. /\ m.at \in 1 .. Len(NodesOf(m)) /\ Len(NodesOf(m)) \in Nat
      /\ DOMAIN NodesOf(m) = 1 .. Len(NodesOf(m)) /\ m.at \in DOMAIN NodesOf(m)
      /\ \A p \in DOMAIN NodesOf(m) : NodesOf(m)[p] \in Nodes
      /\ \A p, q \in DOMAIN NodesOf(m) : NodesOf(m)[p] = NodesOf(m)[q] => p = q
  BY <1>1, StageNodes DEF Placed
<1>3. n \in Nodes /\ k \in Nat /\ k <= MaxCalls /\ MaxCalls \in Nat
  BY <1>2, BoundsAssumption
<1>4. numbers \in Seq({NoConn}) /\ Len(numbers) = k
  BY <1>3, FillFacts
<1>5. unsent \in Seq({"unsent"}) /\ Len(unsent) = k
  BY <1>3, FillFacts
<1>6. /\ HoldsNothing(m) /\ NothingSent(m) /\ Numbered(S, m)
      /\ \A X \in DOMAIN m.status : m.status[X] = "unsent"
      /\ \A p \in 1 .. m.at - 1 : m.sent[NodesOf(m)[p]] = 0
  BY PreparingInv DEF PrepareInv
<1>7. m.status \in Seq({"unsent"}) /\ l \in Nat
  <2>1. m.status \in Seq(CallStates)
    BY <1>1 DEF MethodRecords
  <2>2. QED
    BY <1>6, <2>1
<1> HIDE DEF numbers, unsent, m2
<1>8. /\ status2 \in Seq({"unsent"}) /\ Len(status2) = l + k
      /\ \A X \in DOMAIN status2 : status2[X] = "unsent"
  <2>1. status2 \in Seq({"unsent"}) /\ Len(status2) = l + k
    <3>1. "unsent" \in {"unsent"}
      OBVIOUS
    <3>2. QED
      BY <1>3, <1>7, <3>1, FilledFacts DEF unsent
  <2>2. \A v \in Seq({"unsent"}) : \A X \in DOMAIN v : v[X] = "unsent"
    OBVIOUS
  <2> HIDE DEF status2
  <2>3. QED
    BY <2>1, <2>2
<1>9. AfterStarting(S, m, n, last, numbers, k, m2)
  BY <1>1, <1>3, <1>4, <1>6, StartedFacts DEF m2
<1>10. m2 \in MethodRecords /\ Placed(m2) /\ PoolsUsed(S, m2) /\ HoldsNothing(m2)
  BY <1>9 DEF AfterStarting, FieldsOK, Placed
<1>11. next \in Nat /\ next - 1 = m.at
  BY <1>2
<1> HIDE DEF next, status2, m3
<1>12. status2 \in Seq(CallStates)
  <2>1. {"unsent"} \subseteq CallStates
    BY DEF CallStates
  <2>2. QED
    BY <1>8, <2>1
<1>13. /\ m3 \in MethodRecords /\ m3.at = next /\ m3.status = status2
       /\ m3.ConP = m2.ConP /\ m3.begin = m2.begin /\ m3.end = m2.end /\ m3.sent = m2.sent
       /\ m3.ConN = m2.ConN /\ m3.pc = m2.pc /\ m3.stage = m2.stage /\ m3.queue = m2.queue
       /\ m3.recv = m2.recv /\ m3.abort = m2.abort /\ m3.result = m2.result
       /\ m3.async_calls = m2.async_calls
  BY <1>10, <1>11, <1>12 DEF MethodRecords, m3
<1>14. NodesOf(m3) = NodesOf(m)
  BY <1>9, <1>13 DEF AfterStarting, NodesOf
<1>15. m3.queue = {} /\ m3.recv = 0 /\ m3.abort = "none" /\ m3.pc = "prepare" /\ m3.result = "none"
       /\ m3.async_calls /\ m3.stage = m.stage
  BY <1>1, <1>6, <1>9, <1>13 DEF AfterStarting, NothingSent
<1>16. Placed(m3)
  <2>1. m3.at \in 1 .. Len(NodesOf(m3)) + 1
    BY <1>2, <1>13, <1>14 DEF next
  <2>2. m3.recv <= Len(m3.status)
    BY <1>8, <1>13, <1>15
  <2>3. QED
    BY <1>1, <1>13, <1>15, <2>1, <2>2 DEF Placed
<1>17. PoolsUsed(S, m3) /\ HoldsNothing(m3)
  BY <1>10, <1>13, SamePoolsFacts DEF SamePools
<1>18. /\ m3.ConP[n] = last /\ m3.sent[n] = 0 /\ m3.ConN[n] = numbers
       /\ m3.begin[n] = l /\ m3.end[n] = l + k
       /\ \A j \in Nodes \ {n} :
            /\ m3.ConP[j] = m.ConP[j] /\ m3.sent[j] = m.sent[j] /\ m3.ConN[j] = m.ConN[j]
            /\ m3.begin[j] = m.begin[j] /\ m3.end[j] = m.end[j]
  BY <1>9, <1>13 DEF AfterStarting
<1>19. \A p \in 1 .. m.at - 1 : p \in DOMAIN NodesOf(m) /\ NodesOf(m)[p] \in Nodes \ {n}
  <2> SUFFICES ASSUME NEW p \in 1 .. m.at - 1
               PROVE  p \in DOMAIN NodesOf(m) /\ NodesOf(m)[p] \in Nodes \ {n}
    OBVIOUS
  <2>1. p \in DOMAIN NodesOf(m) /\ p # m.at
    BY <1>2
  <2>2. QED
    BY <1>2, <2>1
<1>20. l + k \in Nat /\ l + 0 = l /\ (l + k) - l = k
  BY <1>3, <1>7
<1> HIDE DEF l
<1>21. ASSUME NEW p \in 1 .. m.at - 1
       PROVE  LET j == NodesOf(m)[p] IN
              /\ m3.ConP[j] # 0
              /\ Len(m3.ConN[j]) = m3.end[j] - m3.begin[j]
              /\ m3.begin[j] < m3.end[j] => S[j][m3.ConP[j]] # {}
              /\ m3.begin[j] = IF p = 1 THEN 0 ELSE m3.end[NodesOf(m)[p - 1]]
              /\ \A q \in 1 .. p - 1 : m3.end[NodesOf(m)[q]] <= m3.begin[j]
              /\ m3.end[j] <= l
              /\ m3.sent[j] = 0
  <2> DEFINE j == NodesOf(m)[p]
  <2>1. /\ m3.ConP[j] = m.ConP[j] /\ m3.sent[j] = m.sent[j] /\ m3.ConN[j] = m.ConN[j]
        /\ m3.begin[j] = m.begin[j] /\ m3.end[j] = m.end[j]
    BY <1>18, <1>19
  <2>2. \A q \in 1 .. p - 1 : q \in 1 .. m.at - 1
    BY <1>2
  <2>3. \A q \in 1 .. p - 1 : m3.end[NodesOf(m)[q]] = m.end[NodesOf(m)[q]]
    BY <1>18, <1>19, <2>2
  <2>4. p # 1 => p - 1 \in 1 .. p - 1
    BY <1>2
  <2>5. m.end[j] <= l
    BY <1>1, <1>6, RangesOrdered DEF l
  <2>6. /\ m.ConP[j] # 0 /\ Len(m.ConN[j]) = m.end[j] - m.begin[j]
        /\ m.begin[j] < m.end[j] => S[j][m.ConP[j]] # {}
        /\ m.begin[j] = IF p = 1 THEN 0 ELSE m.end[NodesOf(m)[p - 1]]
        /\ \A q \in 1 .. p - 1 : m.end[NodesOf(m)[q]] <= m.begin[j]
        /\ m.sent[j] = 0
    BY <1>6 DEF Numbered
  <2>7. m3.begin[j] = IF p = 1 THEN 0 ELSE m3.end[NodesOf(m)[p - 1]]
    BY <2>1, <2>3, <2>4, <2>6
  <2>8. \A q \in 1 .. p - 1 : m3.end[NodesOf(m)[q]] <= m3.begin[j]
    BY <2>1, <2>3, <2>6
  <2>9. QED
    BY <2>1, <2>5, <2>6, <2>7, <2>8
<1>22. /\ m3.ConP[n] # 0 /\ Len(m3.ConN[n]) = m3.end[n] - m3.begin[n]
       /\ m3.begin[n] < m3.end[n] => S[n][m3.ConP[n]] # {}
       /\ m3.begin[n] = IF m.at = 1 THEN 0 ELSE m3.end[NodesOf(m)[m.at - 1]]
       /\ m3.end[n] = Len(m3.status)
       /\ \A q \in 1 .. m.at - 1 : m3.end[NodesOf(m)[q]] <= m3.begin[n]
  <2>1. Len(m3.ConN[n]) = m3.end[n] - m3.begin[n]
    BY <1>4, <1>18, <1>20
  <2>2. m3.begin[n] < m3.end[n] => k # 0
    BY <1>18, <1>20
  <2>3. m3.begin[n] = IF m.at = 1 THEN 0 ELSE m3.end[NodesOf(m)[m.at - 1]]
    <3>1. CASE m.at = 1
      BY <1>6, <1>18, <3>1 DEF Numbered, l
    <3>2. CASE m.at # 1
      <4>1. m.at - 1 \in 1 .. m.at - 1
        BY <1>2, <3>2
      <4>2. m.end[NodesOf(m)[m.at - 1]] = l
        BY <1>6, <4>1 DEF Numbered, l
      <4>3. m3.end[NodesOf(m)[m.at - 1]] = m.end[NodesOf(m)[m.at - 1]]
        BY <1>18, <1>19, <4>1
      <4>4. QED
        BY <1>18, <3>2, <4>2, <4>3
    <3>3. QED
      BY <3>1, <3>2
  <2>4. m3.end[n] = Len(m3.status)
    BY <1>8, <1>13, <1>18
  <2>5. \A q \in 1 .. m.at - 1 : m3.end[NodesOf(m)[q]] <= m3.begin[n]
    BY <1>18, <1>21
  <2>6. QED
    BY <1>18, <2>1, <2>2, <2>3, <2>4, <2>5
<1>23. Numbered(S, m3)
  <2>1. m3.at # 1
    BY <1>2, <1>13 DEF next
  <2>2. \A p \in 1 .. m3.at - 1 : p = m.at \/ (p \in 1 .. m.at - 1 /\ p # m3.at - 1)
    BY <1>2, <1>11, <1>13
  <2>3. m3.at - 1 = m.at
    BY <1>11, <1>13
  <2>4. ASSUME NEW p \in 1 .. m3.at - 1
        PROVE  LET j == NodesOf(m3)[p] IN
               /\ m3.ConP[j] # 0
               /\ Len(m3.ConN[j]) = m3.end[j] - m3.begin[j]
               /\ m3.begin[j] < m3.end[j] => S[j][m3.ConP[j]] # {}
               /\ m3.begin[j] = IF p = 1 THEN 0 ELSE m3.end[NodesOf(m3)[p - 1]]
               /\ p = m3.at - 1 => m3.end[j] = Len(m3.status)
               /\ \A q \in 1 .. p - 1 : m3.end[NodesOf(m3)[q]] <= m3.begin[j]
    <3>1. CASE p = m.at
      BY <1>14, <1>22, <3>1
    <3>2. CASE p \in 1 .. m.at - 1 /\ p # m3.at - 1
      BY <1>14, <1>21, <3>2
    <3>3. QED
      BY <2>2, <3>1, <3>2
  <2>5. QED
    BY <2>1, <2>4 DEF Numbered
<1>24. PrepareInv(S, m3)
  <2>1. \A p \in 1 .. m3.at - 1 : m3.sent[NodesOf(m3)[p]] = 0
    <3>1. \A p \in 1 .. m3.at - 1 : p = m.at \/ p \in 1 .. m.at - 1
      BY <1>2, <1>11, <1>13
    <3>2. QED
      BY <1>14, <1>18, <1>21, <3>1
  <2>2. \A X \in DOMAIN m3.status : m3.status[X] = "unsent"
    BY <1>8, <1>13
  <2>3. QED
    BY <1>15, <1>17, <1>23, <2>1, <2>2 DEF PrepareInv, NothingSent
<1>25. MethodInv(S, m3)
  BY <1>15, <1>16, <1>17, <1>24 DEF MethodInv, FieldsOK
<1>26. m3 = [m2 EXCEPT !.at = @ + 1, !.status = @ \o unsent]
  <2>1. m2.at = m.at /\ m2.status = m.status
    BY <1>9 DEF AfterStarting
  <2>2. QED
    BY <1>10, <2>1 DEF m3, next, status2, MethodRecords
<1>27. QED
  BY <1>25, <1>26 DEF m2, numbers, unsent

-----------------------------------------------------------------------------
(* The end of a stage: the calls of its nodes and their numbers. *)

LEMMA EndNodeFacts ==
  ASSUME NEW S, TableOK(S), NEW m, FieldsOK(S, m), EndInv(S, m),
         NEW n, NEW p \in DOMAIN NodesOf(m), n = NodesOf(m)[p]
  PROVE  /\ n \in Nodes /\ m.ConP[n] \in DOMAIN S[n] /\ m.ConP[n] # 0
         /\ m.begin[n] \in Nat /\ m.end[n] \in Nat /\ m.sent[n] \in Nat
         /\ m.begin[n] + m.sent[n] <= m.end[n] /\ m.end[n] <= Len(m.status)
         /\ Len(m.status) \in Nat /\ DOMAIN m.status = 1 .. Len(m.status)
         /\ DOMAIN m.ConN[n] = 1 .. m.end[n] - m.begin[n]
         /\ m.begin[n] < m.end[n] => S[n][m.ConP[n]] # {}
<1>1. m \in MethodRecords /\ Placed(m) /\ PoolsUsed(S, m) /\ Numbered(S, m)
  BY DEF FieldsOK, Placed, EndInv
<1>2. n \in Nodes /\ p \in 1 .. m.at - 1
  BY <1>1, StageNodes DEF Placed, EndInv
<1>3. m.ConP[n] # 0 /\ m.ConP[n] \in DOMAIN S[n] /\ m.begin[n] + m.sent[n] <= m.end[n]
  BY <1>1, <1>2 DEF Numbered, PoolsUsed
<1>4. Len(m.ConN[n]) = m.end[n] - m.begin[n] /\ (m.begin[n] < m.end[n] => S[n][m.ConP[n]] # {})
  BY <1>1, <1>2 DEF Numbered
<1>5. m.end[n] <= Len(m.status)
  BY <1>1, <1>2, RangesOrdered
<1>6. m.begin[n] \in Nat /\ m.end[n] \in Nat /\ m.sent[n] \in Nat
  BY <1>1, <1>2 DEF MethodRecords
<1>7. Len(m.status) \in Nat /\ DOMAIN m.status = 1 .. Len(m.status)
  BY <1>1 DEF MethodRecords
<1>8. DOMAIN m.ConN[n] = 1 .. Len(m.ConN[n])
  BY <1>1, <1>2, HeldFinite
<1>9. QED
  BY <1>2, <1>3, <1>4, <1>5, <1>6, <1>7, <1>8

LEMMA CallNumber ==
  ASSUME NEW S, TableOK(S), NEW m, FieldsOK(S, m), EndInv(S, m),
         NEW n, NEW p \in DOMAIN NodesOf(m), n = NodesOf(m)[p],
         NEW i \in 1 .. m.end[n] - m.begin[n]
  PROVE  /\ m.begin[n] + i \in DOMAIN m.status /\ NodeOf(m, m.begin[n] + i) = n
         /\ i \in DOMAIN m.ConN[n] /\ (m.begin[n] + i) - m.begin[n] = i /\ i \in Nat
<1> DEFINE b == m.begin[n]
           z == m.end[n]
           l == Len(m.status)
<1>1. /\ n \in Nodes /\ b \in Nat /\ z \in Nat /\ z <= l /\ l \in Nat
      /\ DOMAIN m.status = 1 .. l /\ DOMAIN m.ConN[n] = 1 .. z - b
  BY EndNodeFacts
<1> HIDE DEF b, z, l
<1>2. i \in 1 .. z - b
  BY DEF b, z
<1>3. i \in Nat /\ b + i \in 1 .. l /\ b + i \in Nat /\ (b + i) - b = i /\ b < b + i /\ b + i <= z
  BY <1>1, <1>2
<1>4. NodeOf(m, b + i) = NodesOf(m)[p]
  BY <1>3, NodeOfCall DEF EndInv, b, z
<1>5. QED
  BY <1>1, <1>2, <1>3, <1>4 DEF b

LEMMA NumberedCall ==
  ASSUME NEW S, TableOK(S), NEW m, FieldsOK(S, m), EndInv(S, m), NEW X \in DOMAIN m.status
  PROVE  \E p \in DOMAIN NodesOf(m) : \E i \in 1 .. m.end[NodesOf(m)[p]] - m.begin[NodesOf(m)[p]] :
           /\ NodeOf(m, X) = NodesOf(m)[p] /\ NodesOf(m)[p] \in Nodes
           /\ X = m.begin[NodesOf(m)[p]] + i /\ X - m.begin[NodesOf(m)[p]] = i
<1>1. PICK p \in DOMAIN NodesOf(m) :
        /\ m.begin[NodesOf(m)[p]] < X /\ X <= m.end[NodesOf(m)[p]]
        /\ NodeOf(m, X) = NodesOf(m)[p]
  BY PlaceOfCall DEF EndInv
<1> DEFINE b == m.begin[NodesOf(m)[p]]
           z == m.end[NodesOf(m)[p]]
<1>2. b \in Nat /\ z \in Nat /\ X \in Nat /\ NodesOf(m)[p] \in Nodes
  BY EndNodeFacts
<1>3. b < X /\ X <= z /\ NodeOf(m, X) = NodesOf(m)[p]
  BY <1>1
<1> HIDE DEF b, z
<1>4. X - b \in 1 .. z - b /\ b + (X - b) = X
  BY <1>2, <1>3
<1>5. QED
  BY <1>2, <1>3, <1>4 DEF b, z

LEMMA WindowFacts ==
  ASSUME NEW S, TableOK(S), NEW m, FieldsOK(S, m), EndInv(S, m),
         NEW n, NEW p \in DOMAIN NodesOf(m), n = NodesOf(m)[p]
  PROVE  /\ WindowOf(S, m, n) \in Nat /\ WindowOf(S, m, n) <= Cardinality(S[n][m.ConP[n]])
         /\ WindowOf(S, m, n) <= m.end[n] - m.begin[n]
         /\ m.begin[n] < m.end[n] => WindowOf(S, m, n) > 0
<1> DEFINE c == Cardinality(S[n][m.ConP[n]])
           b == m.begin[n]
           z == m.end[n]
           w == WindowOf(S, m, n)
<1>1. n \in Nodes /\ m.ConP[n] \in DOMAIN S[n] /\ (b < z => S[n][m.ConP[n]] # {})
  BY EndNodeFacts
<1>2. c \in Nat /\ (b < z => c > 0)
  BY <1>1, TableFacts
<1>3. b \in Nat /\ z \in Nat /\ b <= z
  <2> DEFINE s == m.sent[n]
  <2>1. b \in Nat /\ z \in Nat /\ s \in Nat /\ b + s <= z
    BY EndNodeFacts
  <2> HIDE DEF b, z, s
  <2>2. QED
    BY <2>1
<1>4. w = IF z - b < c THEN z - b ELSE c
  BY DEF WindowOf
<1> HIDE DEF b, z, c, w
<1>5. w \in Nat /\ w <= c /\ w <= z - b /\ (b < z => w > 0)
  BY <1>2, <1>3, <1>4
<1>6. QED
  BY <1>5 DEF b, z, c, w

(* Sending begins. *)
LEMMA SendingStarts ==
  ASSUME NEW S, TableOK(S), NEW m, MethodInv(S, m), m.pc = "prepare",
         m.at > Len(NodesOf(m)), m.async_calls, Len(m.status) > 0
  PROVE  MethodInv(S, [m EXCEPT !.pc = "send"])
<1> DEFINE m2 == [m EXCEPT !.pc = "send"]
<1>1. FieldsOK(S, m) /\ m \in MethodRecords /\ Placed(m) /\ m.result = "none" /\ PoolsUsed(S, m)
  BY InvFields
<1>2. /\ HoldsNothing(m) /\ NothingSent(m) /\ Numbered(S, m)
      /\ \A X \in DOMAIN m.status : m.status[X] = "unsent"
      /\ \A p \in 1 .. m.at - 1 : m.sent[NodesOf(m)[p]] = 0
  BY PreparingInv DEF PrepareInv
<1>3. m.at = Len(NodesOf(m)) + 1 /\ DOMAIN NodesOf(m) = 1 .. m.at - 1
  <2>1. Len(NodesOf(m)) \in Nat /\ DOMAIN NodesOf(m) = 1 .. Len(NodesOf(m))
    BY <1>1, StageNodes DEF Placed
  <2>2. QED
    BY <1>1, <2>1 DEF Placed
<1>4. EndInv(S, m)
  BY <1>2, <1>3 DEF EndInv, HoldsNothing
<1>5. /\ m2 \in MethodRecords /\ m2.pc = "send" /\ m2.result = "none"
      /\ m2.ConP = m.ConP /\ m2.begin = m.begin /\ m2.end = m.end /\ m2.sent = m.sent
      /\ m2.ConN = m.ConN /\ m2.stage = m.stage /\ m2.at = m.at /\ m2.queue = m.queue
      /\ m2.status = m.status /\ m2.recv = m.recv /\ m2.async_calls = m.async_calls
      /\ m2.abort = m.abort
  BY <1>1 DEF MethodRecords, States
<1> HIDE DEF m2
<1>6. SameRanges(m, m2) /\ SamePools(m, m2) /\ NodesOf(m2) = NodesOf(m)
  BY <1>5 DEF SameRanges, SamePools, NodesOf
<1>7. FieldsOK(S, m2)
  <2>1. Placed(m2)
    BY <1>1, <1>5, <1>6 DEF Placed
  <2>2. QED
    BY <1>1, <1>6, <2>1, SamePoolsFacts DEF FieldsOK
<1>8. EndInv(S, m2)
  <2>1. Numbered(S, m2)
    BY <1>1, <1>2, <1>6, SameRangesFacts DEF Placed
  <2>2. \A n \in Nodes : HeldBy(m2, n) = {}
    BY <1>2, <1>6, SamePoolsFacts DEF HoldsNothing
  <2>3. QED
    BY <1>4, <1>5, <1>6, <2>1, <2>2 DEF EndInv
<1>9. \A p \in DOMAIN NodesOf(m2) : m2.sent[NodesOf(m2)[p]] = 0
  BY <1>2, <1>3, <1>5, <1>6
<1>10. ASSUME NEW p \in DOMAIN NodesOf(m2), NEW n, n = NodesOf(m2)[p],
              NEW i \in 1 .. m2.end[n] - m2.begin[n]
       PROVE  CallInvAt(m2, n, i)
  <2>1. m2.begin[n] + i \in DOMAIN m2.status /\ i \in DOMAIN m2.ConN[n] /\ n \in Nodes /\ i \in Nat
    BY <1>7, <1>8, <1>10, CallNumber, EndNodeFacts
  <2>2. m2.status[m2.begin[n] + i] = "unsent"
    BY <1>2, <1>5, <2>1
  <2>3. m2.ConN[n][i] = NoConn
    BY <1>2, <1>5, <2>1 DEF HoldsNothing, HeldBy
  <2>4. ~(i <= m2.sent[n])
    BY <1>9, <1>10, <2>1
  <2>5. m2.queue = {}
    BY <1>2, <1>5 DEF NothingSent
  <2>6. QED
    BY <2>2, <2>3, <2>4, <2>5 DEF CallInvAt
<1>11. LoopInv(S, m2)
  <2>1. m2.queue = {} /\ m2.abort = "none"
    BY <1>2, <1>5 DEF NothingSent
  <2>2. QED
    BY <1>8, <1>10, <2>1 DEF LoopInv
<1>12. \A p \in DOMAIN NodesOf(m2) : m2.sent[NodesOf(m2)[p]] <= WindowOf(S, m2, NodesOf(m2)[p])
  BY <1>7, <1>8, <1>9, WindowFacts
<1>13. \E p \in DOMAIN NodesOf(m2) : m2.sent[NodesOf(m2)[p]] < WindowOf(S, m2, NodesOf(m2)[p])
  <2>1. 1 \in DOMAIN m2.status
    <3>1. Len(m2.status) \in Nat /\ DOMAIN m2.status = 1 .. Len(m2.status)
      BY <1>5 DEF MethodRecords
    <3>2. QED
      BY <1>5, <3>1
  <2>2. PICK p \in DOMAIN NodesOf(m2) :
          m2.begin[NodesOf(m2)[p]] < 1 /\ 1 <= m2.end[NodesOf(m2)[p]]
    BY <1>7, <1>8, <2>1, PlaceOfCall DEF EndInv
  <2>3. m2.begin[NodesOf(m2)[p]] \in Nat /\ m2.end[NodesOf(m2)[p]] \in Nat
    BY <1>7, <1>8, EndNodeFacts
  <2>4. m2.begin[NodesOf(m2)[p]] < m2.end[NodesOf(m2)[p]]
    BY <2>2, <2>3
  <2>5. WindowOf(S, m2, NodesOf(m2)[p]) > 0
    BY <1>7, <1>8, <2>4, WindowFacts
  <2>6. QED
    BY <1>9, <2>5
<1>14. Taken(m2) = {} /\ m2.recv = 0
  BY <1>2, <1>5 DEF Taken, Ended, Failures, NothingSent
<1>15. QED
  BY <1>5, <1>7, <1>11, <1>12, <1>13, <1>14 DEF MethodInv, SendInv, m2

(* There is nothing to send. *)
LEMMA NothingToSend ==
  ASSUME NEW S, NEW m, MethodInv(S, m), m.pc = "prepare", ~(m.async_calls /\ Len(m.status) > 0),
         NEW r \in Filled
  PROVE  MethodInv(S, NextStage(m, r))
<1>1. FieldsOK(S, m) /\ m \in MethodRecords /\ m.result = "none"
  BY InvFields
<1>2. HoldsNothing(m) /\ NothingSent(m) /\ (~m.async_calls => AllOk(m))
  BY PreparingInv DEF PrepareInv
<1>3. AllOk(m)
  <2>1. Len(m.status) \in Nat /\ DOMAIN m.status = 1 .. Len(m.status)
    BY <1>1 DEF MethodRecords
  <2>2. CASE ~(Len(m.status) > 0)
    BY <2>1, <2>2 DEF AllOk
  <2>3. QED
    BY <1>2, <2>2
<1>4. QED
  BY <1>1, <1>2, <1>3, NextStageInv DEF NothingSent

-----------------------------------------------------------------------------
(* X_prep() and what follows: a call of node n is sent. *)

LEMMA MaySend ==
  ASSUME NEW S, TableOK(S), NEW m, FieldsOK(S, m), LoopInv(S, m),
         NEW n, NEW p \in DOMAIN NodesOf(m), n = NodesOf(m)[p],
         m.sent[n] < m.end[n] - m.begin[n],
         Cardinality(HeldBy(m, n)) < Cardinality(S[n][m.ConP[n]]),
         NEW s \in S[n][m.ConP[n]]
  PROVE  /\ CanSend(S, m, n, s)
         /\ m.status[m.begin[n] + (m.sent[n] + 1)] = "unsent"
         /\ m.sent[n] + 1 \in 1 .. m.end[n] - m.begin[n]
<1> DEFINE b == m.begin[n]
           z == m.end[n]
           t == m.sent[n]
           i == t + 1
<1>1. EndInv(S, m) /\ m \in MethodRecords /\ PoolsUsed(S, m)
  BY DEF LoopInv, FieldsOK, Placed
<1>2. /\ n \in Nodes /\ m.ConP[n] # 0 /\ b \in Nat /\ z \in Nat /\ t \in Nat
      /\ t < z - b
  BY <1>1, EndNodeFacts
<1> HIDE DEF b, z, t
<1>3. i \in 1 .. z - b /\ ~(i <= t) /\ b + t < z /\ i \in Nat
  BY <1>2
<1> HIDE DEF i
<1>4. b + i \in DOMAIN m.status /\ i \in DOMAIN m.ConN[n]
  BY <1>1, <1>3, CallNumber DEF b, z
<1>5. CallInvAt(m, n, i)
  BY <1>3 DEF LoopInv, b, z
<1>6. m.status[b + i] = "unsent"
  BY <1>3, <1>5 DEF CallInvAt, b, t
<1>7. m.ConN[n][i] = NoConn
  <2>1. b + i \notin m.queue
    BY <1>6 DEF LoopInv, Ended, Failures
  <2>2. QED
    BY <1>5, <1>6, <2>1 DEF CallInvAt, b
<1>8. i \notin HeldBy(m, n)
  BY <1>7 DEF HeldBy
<1>9. QED
  BY <1>1, <1>2, <1>3, <1>4, <1>6, <1>8 DEF CanSend, b, z, t, i

LEMMA CallSent ==
  ASSUME NEW S, TableOK(S), NEW m, FieldsOK(S, m), LoopInv(S, m),
         NEW n, NEW p \in DOMAIN NodesOf(m), n = NodesOf(m)[p],
         m.sent[n] < m.end[n] - m.begin[n],
         Cardinality(HeldBy(m, n)) < Cardinality(S[n][m.ConP[n]]),
         NEW s \in S[n][m.ConP[n]], NEW m2, m2 = SendCall(m, n, s)
  PROVE  /\ FieldsOK(S, m2) /\ LoopInv(S, m2) /\ SameRanges(m, m2)
         /\ Taken(m2) = Taken(m) /\ \A X \in Taken(m) : m2.status[X] = m.status[X]
         /\ m2.sent[n] = m.sent[n] + 1 /\ \A k \in Nodes \ {n} : m2.sent[k] = m.sent[k]
         /\ m2.pc = m.pc /\ m2.event = m.event /\ m2.recv = m.recv /\ m2.result = m.result
         /\ m2.cancelled = m.cancelled /\ m2.expired = m.expired
<1> DEFINE i == m.sent[n] + 1
           x == m.begin[n] + i
<1>1. EndInv(S, m) /\ m \in MethodRecords /\ PoolsUsed(S, m) /\ Placed(m)
  BY DEF LoopInv, FieldsOK, Placed
<1>2. CanSend(S, m, n, s) /\ m.status[x] = "unsent" /\ i \in 1 .. m.end[n] - m.begin[n]
  BY MaySend
<1>3. n \in Nodes /\ s # NoConn /\ m.sent \in [Nodes -> Nat]
  <2>1. n \in Nodes /\ m.ConP[n] \in DOMAIN S[n]
    BY <1>1, EndNodeFacts
  <2>2. QED
    BY <1>1, <2>1, TableFacts DEF MethodRecords
<1>4. AfterSending(S, m, n, s, m2)
  BY <1>2, SentFacts
<1>5. /\ m2 \in MethodRecords /\ PoolsUsed(S, m2) /\ SameRanges(m, m2)
      /\ m2.pc = m.pc /\ m2.queue = m.queue /\ m2.event = m.event /\ m2.recv = m.recv
      /\ m2.abort = m.abort /\ m2.result = m.result
      /\ m2.cancelled = m.cancelled /\ m2.expired = m.expired
  BY <1>4 DEF AfterSending
<1>6. /\ m2.ConN = [m.ConN EXCEPT ![n] = [m.ConN[n] EXCEPT ![i] = s]]
      /\ m2.status = [m.status EXCEPT ![x] = "out"]
      /\ m2.sent = [m.sent EXCEPT ![n] = i]
      /\ \A k \in Nodes \ {n} : HeldBy(m2, k) = HeldBy(m, k)
  BY <1>4 DEF AfterSending
<1>7. x \in DOMAIN m.status /\ NodeOf(m, x) = n /\ i \in DOMAIN m.ConN[n] /\ i \in Nat
  BY <1>1, <1>2, CallNumber
<1>8. x \notin m.queue
  BY <1>2 DEF LoopInv, Ended, Failures
<1>9. m.ConN \in [Nodes -> Seq(Stubs \union {NoConn})]
  BY <1>1 DEF MethodRecords
<1>10. /\ m2.status[x] = "out" /\ DOMAIN m2.status = DOMAIN m.status
       /\ \A X \in DOMAIN m.status \ {x} : m2.status[X] = m.status[X]
  BY <1>6, <1>7
<1>11. /\ m2.ConN[n][i] = s /\ m2.sent[n] = i
       /\ \A j \in DOMAIN m.ConN[n] \ {i} : m2.ConN[n][j] = m.ConN[n][j]
       /\ \A k \in Nodes \ {n} : m2.ConN[k] = m.ConN[k] /\ m2.sent[k] = m.sent[k]
  BY <1>3, <1>6, <1>7, <1>9
<1> HIDE DEF i, x
<1>12. NodesOf(m2) = NodesOf(m) /\ m2.begin = m.begin /\ m2.end = m.end
  BY <1>5, SameRangesFacts DEF SameRanges, NodesOf
<1>13. FieldsOK(S, m2)
  BY <1>1, <1>5, <1>10, <1>12 DEF FieldsOK, Placed, SameRanges
<1>14. EndInv(S, m2)
  <2>1. Numbered(S, m2)
    BY <1>1, <1>5, SameRangesFacts DEF EndInv, Placed
  <2>2. \A k \in Nodes : (\A q \in DOMAIN NodesOf(m) : NodesOf(m)[q] # k) => HeldBy(m2, k) = {}
    BY <1>1, <1>6 DEF EndInv
  <2>3. QED
    BY <1>1, <1>5, <1>12, <2>1, <2>2 DEF EndInv, SameRanges
<1>15. ASSUME NEW q \in DOMAIN NodesOf(m), NEW k, k = NodesOf(m)[q],
              NEW j \in 1 .. m.end[k] - m.begin[k]
       PROVE  CallInvAt(m2, k, j)
  <2> DEFINE y == m.begin[k] + j
  <2>1. y \in DOMAIN m.status /\ NodeOf(m, y) = k /\ j \in DOMAIN m.ConN[k] /\ k \in Nodes /\ j \in Nat
        /\ y - m.begin[k] = j
    BY <1>1, <1>15, CallNumber, EndNodeFacts
  <2>2. CallInvAt(m, k, j)
    BY <1>15 DEF LoopInv
  <2>3. CASE k = n /\ j = i
    <3>1. y = x
      BY <2>3 DEF x
    <3>2. i <= m2.sent[n] /\ m2.status[x] = "out" /\ m2.ConN[n][i] # NoConn
      BY <1>3, <1>7, <1>10, <1>11
    <3>3. QED
      BY <1>12, <2>3, <3>1, <3>2 DEF CallInvAt
  <2>4. CASE ~(k = n /\ j = i)
    <3>1. y # x
      <4>1. CASE k # n
        BY <1>7, <2>1, <4>1
      <4>2. CASE k = n
        <5>1. m.begin[n] + i # m.begin[n] + j
          <6>1. m.begin[n] \in Nat
            BY <1>1, EndNodeFacts
          <6>2. i # j
            BY <2>4, <4>2
          <6>3. QED
            BY <1>7, <2>1, <6>1, <6>2
        <5>2. QED
          BY <4>2, <5>1 DEF x
      <4>3. QED
        BY <4>1, <4>2
    <3>2. m2.status[y] = m.status[y]
      BY <1>10, <2>1, <3>1
    <3>3. m2.ConN[k][j] = m.ConN[k][j]
      BY <1>11, <2>1, <2>4
    <3>4. j <= m2.sent[k] <=> j <= m.sent[k]
      <4>1. CASE k # n
        BY <1>11, <2>1, <4>1
      <4>2. CASE k = n
        <5>1. j # i /\ i = m.sent[n] + 1 /\ m.sent[n] \in Nat /\ j \in Nat
          BY <1>3, <2>1, <2>4, <4>2 DEF i
        <5>2. j <= i <=> j <= m.sent[n]
          BY <5>1
        <5>3. QED
          BY <1>11, <4>2, <5>2
      <4>3. QED
        BY <4>1, <4>2
    <3> HIDE DEF y
    <3>5. QED
      BY <1>5, <1>12, <2>2, <3>2, <3>3, <3>4 DEF CallInvAt, y
  <2>5. QED
    BY <2>3, <2>4
<1>16. \A X \in m.queue : m2.status[X] \in Ended
  <2>1. \A X \in m.queue : X \in DOMAIN m.status \ {x} /\ m.status[X] \in Ended
    BY <1>1, <1>8 DEF LoopInv, Placed
  <2>2. QED
    BY <1>10, <2>1
<1>17. LoopInv(S, m2)
  <2>1. m2.abort = "none"
    BY <1>5 DEF LoopInv
  <2>2. QED
    BY <1>5, <1>12, <1>14, <1>15, <1>16, <2>1 DEF LoopInv
<1>18. Taken(m2) = Taken(m) /\ \A X \in Taken(m) : m2.status[X] = m.status[X]
  <2>1. "out" \notin Ended /\ "unsent" \notin Ended
    BY DEF Ended, Failures
  <2>2. \A X \in DOMAIN m.status : X # x \/ (m2.status[X] = "out" /\ m.status[X] = "unsent")
    BY <1>2, <1>10 DEF x, i
  <2>3. QED
    BY <1>5, <1>10, <2>1, <2>2 DEF Taken
<1>19. QED
  BY <1>5, <1>11, <1>13, <1>17, <1>18 DEF i

(* Two local states that agree on the calls. *)
SameCalls(m, m2) == SameRanges(m, m2) /\ SamePools(m, m2) /\ m2.status = m.status

LEMMA SameCallsFacts ==
  ASSUME NEW S, NEW m, NEW m2, SameCalls(m, m2), FieldsOK(S, m)
  PROVE  /\ NodesOf(m2) = NodesOf(m) /\ \A X : NodeOf(m2, X) = NodeOf(m, X)
         /\ \A n : WindowOf(S, m2, n) = WindowOf(S, m, n)
         /\ \A n : HeldBy(m2, n) = HeldBy(m, n)
         /\ HoldsNothing(m) => HoldsNothing(m2)
         /\ PoolsUsed(S, m2)
         /\ EndInv(S, m) => EndInv(S, m2)
         /\ m2.queue = m.queue => Taken(m2) = Taken(m)
         /\ LoopInv(S, m) /\ m2.queue = m.queue /\ m2.abort = "none" => LoopInv(S, m2)
<1>1. /\ NodesOf(m2) = NodesOf(m) /\ \A X : NodeOf(m2, X) = NodeOf(m, X)
      /\ \A n : WindowOf(S, m2, n) = WindowOf(S, m, n)
      /\ Numbered(S, m) => Numbered(S, m2)
  BY SameRangesFacts DEF SameCalls, FieldsOK, Placed
<1>2. /\ \A n : HeldBy(m2, n) = HeldBy(m, n)
      /\ HoldsNothing(m) => HoldsNothing(m2)
      /\ PoolsUsed(S, m2)
  BY SamePoolsFacts DEF SameCalls, FieldsOK
<1>3. EndInv(S, m) => EndInv(S, m2)
  BY <1>1, <1>2 DEF EndInv, SameCalls, SameRanges
<1>4. m2.queue = m.queue => Taken(m2) = Taken(m)
  BY DEF Taken, SameCalls
<1>5. ASSUME LoopInv(S, m), m2.queue = m.queue, m2.abort = "none" PROVE LoopInv(S, m2)
  <2>1. \A n, i : CallInvAt(m, n, i) => CallInvAt(m2, n, i)
    BY <1>5 DEF CallInvAt, SameCalls, SamePools
  <2>2. m2.begin = m.begin /\ m2.end = m.end /\ m2.status = m.status
    BY DEF SameCalls, SamePools
  <2>3. QED
    BY <1>1, <1>3, <1>5, <2>1, <2>2 DEF LoopInv
<1>6. QED
  BY <1>1, <1>2, <1>3, <1>4, <1>5

(* The nodes that still have initial calls to send. *)
UnsentOf(S, m) == {p \in DOMAIN NodesOf(m) : m.sent[NodesOf(m)[p]] < WindowOf(S, m, NodesOf(m)[p])}

LEMMA CardinalityUpTo ==
  ASSUME NEW k \in Nat, NEW T \in SUBSET (1 .. k)
  PROVE  /\ IsFiniteSet(T) /\ Cardinality(T) \in Nat /\ Cardinality(T) <= k
         /\ Cardinality(T) = k => T = 1 .. k
<1>1. k \in Int /\ 1 \in Int
  OBVIOUS
<1>2. IsFiniteSet(1 .. k) /\ Cardinality(1 .. k) = IF 1 > k THEN 0 ELSE k - 1 + 1
  BY <1>1, FS_Interval
<1>3. Cardinality(1 .. k) = k
  BY <1>2
<1>4. QED
  BY <1>2, <1>3, FS_Subset, FS_CardinalityType

(* The calls that hold a connection have been sent. *)
LEMMA HeldWereSent ==
  ASSUME NEW S, TableOK(S), NEW m, FieldsOK(S, m), LoopInv(S, m),
         NEW n, NEW p \in DOMAIN NodesOf(m), n = NodesOf(m)[p]
  PROVE  Cardinality(HeldBy(m, n)) <= m.sent[n]
<1>1. EndInv(S, m) /\ m \in MethodRecords
  BY DEF LoopInv, FieldsOK, Placed
<1>2. /\ n \in Nodes /\ m.sent[n] \in Nat
      /\ DOMAIN m.ConN[n] = 1 .. m.end[n] - m.begin[n]
  BY <1>1, EndNodeFacts
<1>3. ASSUME NEW i \in HeldBy(m, n) PROVE i \in 1 .. m.sent[n]
  <2>1. i \in 1 .. m.end[n] - m.begin[n] /\ m.ConN[n][i] # NoConn
    BY <1>2 DEF HeldBy
  <2>2. CallInvAt(m, n, i)
    BY <2>1 DEF LoopInv
  <2>3. m.status[m.begin[n] + i] # "unsent"
    BY <2>1, <2>2 DEF CallInvAt, LoopInv, Ended, Failures
  <2>4. i <= m.sent[n]
    BY <2>2, <2>3 DEF CallInvAt
  <2>5. i \in Nat /\ 1 <= i
    BY <1>1, <1>2, <2>1, CallNumber
  <2>6. QED
    BY <1>2, <2>4, <2>5
<1>4. HeldBy(m, n) \subseteq 1 .. m.sent[n]
  BY <1>3
<1>5. \A T \in SUBSET (1 .. m.sent[n]) : Cardinality(T) <= m.sent[n]
  BY <1>2, CardinalityUpTo
<1>6. QED
  BY <1>4, <1>5

LEMMA InitialCallSent ==
  ASSUME NEW S, TableOK(S), NEW m, MethodInv(S, m), m.pc = "send",
         NEW n, n = NodesOf(m)[Least(UnsentOf(S, m))], NEW s \in S[n][m.ConP[n]]
  PROVE  /\ n \in Nodes /\ m.ConP[n] \in DOMAIN S[n]
         /\ MethodInv(S, [SendCall(m, n, s) EXCEPT
                            !.pc = IF UnsentOf(S, SendCall(m, n, s)) = {} THEN "wait" ELSE "send"])
<1> DEFINE p    == Least(UnsentOf(S, m))
           next == SendCall(m, n, s)
           pc2  == IF UnsentOf(S, next) = {} THEN "wait" ELSE "send"
           m2   == [next EXCEPT !.pc = pc2]
<1>1. FieldsOK(S, m) /\ m \in MethodRecords /\ Placed(m) /\ m.result = "none" /\ SendInv(S, m)
      /\ LoopInv(S, m)
  BY InvFields DEF MethodInv, SendInv
<1>2. EndInv(S, m)
  BY <1>1 DEF LoopInv
<1>3. p \in UnsentOf(S, m)
  <2>1. UnsentOf(S, m) # {}
    BY <1>1 DEF SendInv, UnsentOf
  <2>2. UnsentOf(S, m) \in SUBSET Nat
    BY <1>1, StageNodes DEF UnsentOf, Placed
  <2>3. QED
    BY <2>1, <2>2, LeastIn
<1> HIDE DEF p
<1>4. p \in DOMAIN NodesOf(m) /\ n = NodesOf(m)[p] /\ m.sent[n] < WindowOf(S, m, n)
  BY <1>3 DEF UnsentOf, p
<1>5. /\ n \in Nodes /\ m.sent[n] \in Nat /\ m.begin[n] \in Nat /\ m.end[n] \in Nat
      /\ m.ConP[n] \in DOMAIN S[n]
  BY <1>1, <1>2, <1>4, EndNodeFacts
<1>6. m.sent[n] < m.end[n] - m.begin[n] /\ Cardinality(HeldBy(m, n)) < Cardinality(S[n][m.ConP[n]])
      /\ WindowOf(S, m, n) \in Nat
  <2> DEFINE w == WindowOf(S, m, n)
             c == Cardinality(S[n][m.ConP[n]])
             h == Cardinality(HeldBy(m, n))
             t == m.sent[n]
             r == m.end[n] - m.begin[n]
  <2>1. w \in Nat /\ w <= c /\ w <= r
    BY <1>1, <1>2, <1>4, WindowFacts
  <2>2. h <= t /\ t < w
    BY <1>1, <1>4, HeldWereSent
  <2>3. c \in Nat /\ h \in Nat /\ t \in Nat /\ r \in Int
    BY <1>1, <1>5, TableFacts, HeldFinite
  <2> HIDE DEF w, c, h, t, r
  <2>4. h < c /\ t < r
    BY <2>1, <2>2, <2>3
  <2>5. QED
    BY <2>1, <2>4 DEF w, c, h, t, r
<1>7. /\ FieldsOK(S, next) /\ LoopInv(S, next) /\ SameRanges(m, next)
      /\ Taken(next) = Taken(m)
      /\ next.sent[n] = m.sent[n] + 1 /\ \A k \in Nodes \ {n} : next.sent[k] = m.sent[k]
      /\ next.recv = m.recv /\ next.result = m.result
  BY <1>1, <1>4, <1>6, CallSent
<1> HIDE DEF next
<1>8. next \in MethodRecords /\ Placed(next) /\ pc2 \in {"wait", "send"} /\ next.abort = "none"
  BY <1>7 DEF FieldsOK, Placed, LoopInv
<1> HIDE DEF pc2
<1>9. /\ m2 \in MethodRecords /\ m2.pc = pc2 /\ m2.result = next.result
      /\ m2.ConP = next.ConP /\ m2.begin = next.begin /\ m2.end = next.end /\ m2.sent = next.sent
      /\ m2.ConN = next.ConN /\ m2.stage = next.stage /\ m2.at = next.at /\ m2.queue = next.queue
      /\ m2.status = next.status /\ m2.recv = next.recv /\ m2.async_calls = next.async_calls
      /\ m2.abort = next.abort
  BY <1>8 DEF MethodRecords, States
<1> HIDE DEF m2
<1>10. SameCalls(next, m2)
  BY <1>9 DEF SameCalls, SameRanges, SamePools
<1>11. LoopInv(S, m2) /\ PoolsUsed(S, m2) /\ Taken(m2) = Taken(m) /\ NodesOf(m2) = NodesOf(next)
       /\ \A k : WindowOf(S, m2, k) = WindowOf(S, next, k)
  BY <1>7, <1>8, <1>9, <1>10, SameCallsFacts
<1>12. FieldsOK(S, m2)
  BY <1>1, <1>7, <1>8, <1>9, <1>11 DEF FieldsOK, Placed
<1>13. Taken(m2) = {} /\ m2.recv = 0 /\ m2.result = "none"
  BY <1>1, <1>7, <1>9, <1>11 DEF SendInv
<1>14. CASE UnsentOf(S, next) = {}
  <2>1. Cardinality(Taken(m2)) = 0
    BY <1>13, FS_EmptySet
  <2>2. WaitInv(S, m2)
    BY <1>11, <1>13, <2>1 DEF WaitInv
  <2>3. QED
    BY <1>5, <1>9, <1>12, <1>14, <2>2 DEF MethodInv, pc2, m2, next
<1>15. CASE UnsentOf(S, next) # {}
  <2>1. /\ NodesOf(next) = NodesOf(m) /\ \A k : WindowOf(S, next, k) = WindowOf(S, m, k)
    BY <1>1, <1>7, SameRangesFacts DEF Placed
  <2>2. \E q \in DOMAIN NodesOf(m2) : m2.sent[NodesOf(m2)[q]] < WindowOf(S, m2, NodesOf(m2)[q])
    BY <1>9, <1>11, <1>15 DEF UnsentOf
  <2>3. ASSUME NEW q \in DOMAIN NodesOf(m), NEW k, k = NodesOf(m)[q]
        PROVE  m2.sent[k] <= WindowOf(S, m2, k)
    <3>1. WindowOf(S, m2, k) = WindowOf(S, m, k)
      BY <1>11, <2>1
    <3>2. CASE k = n
      <4>1. m.sent[n] + 1 <= WindowOf(S, m, n)
        BY <1>4, <1>5, <1>6
      <4>2. QED
        BY <1>7, <1>9, <3>1, <3>2, <4>1
    <3>3. CASE k # n
      <4>1. k \in Nodes
        BY <1>1, <1>2, <2>3, EndNodeFacts
      <4>2. m.sent[k] <= WindowOf(S, m, k)
        BY <1>1, <2>3 DEF SendInv
      <4>3. QED
        BY <1>7, <1>9, <3>1, <3>3, <4>1, <4>2
    <3>4. QED
      BY <3>2, <3>3
  <2>4. SendInv(S, m2)
    BY <1>11, <1>13, <2>1, <2>2, <2>3 DEF SendInv
  <2>5. QED
    BY <1>5, <1>9, <1>12, <1>15, <2>4 DEF MethodInv, pc2, m2, next
<1>16. QED
  BY <1>14, <1>15

-----------------------------------------------------------------------------
(* The loop over the events of the completion queue. *)

(* The calls taken off the queue can be counted. *)
LEMMA TakenFinite ==
  ASSUME NEW m \in MethodRecords
  PROVE  /\ IsFiniteSet(Taken(m)) /\ Cardinality(Taken(m)) \in Nat
         /\ Len(m.status) \in Nat /\ DOMAIN m.status = 1 .. Len(m.status)
         /\ Cardinality(Taken(m)) <= Len(m.status)
         /\ Cardinality(Taken(m)) = Len(m.status) => Taken(m) = DOMAIN m.status
<1>1. Len(m.status) \in Nat /\ DOMAIN m.status = 1 .. Len(m.status)
  BY DEF MethodRecords
<1>2. Taken(m) \in SUBSET (1 .. Len(m.status))
  BY <1>1 DEF Taken
<1>3. QED
  BY <1>1, <1>2, CardinalityUpTo

LEMMA EventTaken ==
  ASSUME NEW S, TableOK(S), NEW m, MethodInv(S, m), m.pc = "wait", NEW X \in m.queue,
         NEW n, n = NodeOf(m, X), NEW i, i = X - m.begin[n]
  PROVE  /\ n \in Nodes /\ m.ConP[n] \in DOMAIN S[n] /\ i \in HeldBy(m, n)
         /\ MethodInv(S, [m EXCEPT !.pc = "event", !.event = X, !.queue = @ \ {X},
                                   !.ConN[n][i] = NoConn])
<1> DEFINE m1     == Given(m, n, i)
           ConN2  == m1.ConN
           queue2 == m.queue \ {X}
           m2     == [m EXCEPT !.pc = "event", !.event = X, !.queue = @ \ {X},
                               !.ConN[n][i] = NoConn]
<1>1. /\ FieldsOK(S, m) /\ m \in MethodRecords /\ Placed(m) /\ m.result = "none" /\ WaitInv(S, m)
      /\ LoopInv(S, m) /\ PoolsUsed(S, m)
  BY InvFields DEF MethodInv, WaitInv
<1>2. EndInv(S, m) /\ m.status[X] \in Ended /\ X \in DOMAIN m.status
  BY <1>1 DEF LoopInv, Placed
<1>3. \E p \in DOMAIN NodesOf(m) : /\ n = NodesOf(m)[p] /\ n \in Nodes
                                   /\ i \in 1 .. m.end[n] - m.begin[n] /\ X = m.begin[n] + i
  BY <1>1, <1>2, NumberedCall
<1>4. PICK p \in DOMAIN NodesOf(m) : n = NodesOf(m)[p] /\ n \in Nodes
  BY <1>3
<1>5. i \in 1 .. m.end[n] - m.begin[n] /\ X = m.begin[n] + i
  BY <1>3
<1>6. m.ConP[n] \in DOMAIN S[n] /\ i \in DOMAIN m.ConN[n]
  BY <1>1, <1>2, <1>4, <1>5, CallNumber, EndNodeFacts
<1>7. i \in HeldBy(m, n)
  <2>1. CallInvAt(m, n, i)
    BY <1>1, <1>4, <1>5 DEF LoopInv
  <2>2. m.ConN[n][i] # NoConn
    BY <1>5, <2>1 DEF CallInvAt
  <2>3. QED
    BY <1>6, <2>2 DEF HeldBy
<1>8. AfterGiving(S, m, n, i, m1)
  BY <1>1, <1>4, <1>7, GivenFacts
<1> HIDE DEF m1
<1>9. /\ m1 \in MethodRecords /\ PoolsUsed(S, m1) /\ SameRanges(m, m1)
      /\ m1.ConN = [m.ConN EXCEPT ![n] = [m.ConN[n] EXCEPT ![i] = NoConn]]
      /\ HeldBy(m1, n) = HeldBy(m, n) \ {i}
      /\ \A k \in Nodes \ {n} : HeldBy(m1, k) = HeldBy(m, k)
      /\ Cardinality(HeldBy(m1, n)) = Cardinality(HeldBy(m, n)) - 1
      /\ m1.sent = m.sent
  BY <1>8 DEF AfterGiving
<1>10. m.ConN \in [Nodes -> Seq(Stubs \union {NoConn})]
  BY <1>1 DEF MethodRecords
<1>11. /\ ConN2[n][i] = NoConn /\ \A j \in DOMAIN m.ConN[n] \ {i} : ConN2[n][j] = m.ConN[n][j]
       /\ \A k \in Nodes \ {n} : ConN2[k] = m.ConN[k]
  BY <1>4, <1>6, <1>9, <1>10
<1>12. m2 = [m EXCEPT !.pc = "event", !.event = X, !.queue = queue2, !.ConN = ConN2]
  BY <1>1, <1>4, <1>9, <1>10 DEF MethodRecords
<1>13. ConN2 \in [Nodes -> Seq(Stubs \union {NoConn})] /\ queue2 \in SUBSET Nat /\ X \in Nat
  BY <1>1, <1>9 DEF MethodRecords
<1> HIDE DEF ConN2, queue2, m2
<1>14. /\ m2 \in MethodRecords /\ m2.pc = "event" /\ m2.event = X /\ m2.queue = queue2
       /\ m2.ConN = ConN2 /\ m2.result = "none"
       /\ m2.ConP = m.ConP /\ m2.begin = m.begin /\ m2.end = m.end /\ m2.sent = m.sent
       /\ m2.stage = m.stage /\ m2.at = m.at
       /\ m2.status = m.status /\ m2.recv = m.recv /\ m2.async_calls = m.async_calls
       /\ m2.abort = m.abort
  BY <1>1, <1>12, <1>13 DEF MethodRecords, States
<1>15. SameRanges(m, m2) /\ SamePools(m1, m2)
  BY <1>9, <1>14 DEF SameRanges, SamePools, ConN2
<1>16. PoolsUsed(S, m2) /\ \A k : HeldBy(m2, k) = HeldBy(m1, k)
  BY <1>9, <1>15, SamePoolsFacts
<1>17. NodesOf(m2) = NodesOf(m) /\ (\A Y : NodeOf(m2, Y) = NodeOf(m, Y)) /\ Numbered(S, m2)
  BY <1>1, <1>2, <1>15, SameRangesFacts DEF Placed, EndInv
<1>18. FieldsOK(S, m2)
  BY <1>1, <1>14, <1>16, <1>17 DEF FieldsOK, Placed, queue2
<1>19. EndInv(S, m2)
  <2>1. \A k \in Nodes : (\A q \in DOMAIN NodesOf(m) : NodesOf(m)[q] # k) => HeldBy(m2, k) = {}
    BY <1>2, <1>4, <1>9, <1>16 DEF EndInv
  <2>2. QED
    BY <1>2, <1>14, <1>17, <2>1 DEF EndInv
<1>20. "out" \notin Ended
  BY DEF Ended, Failures
<1>21. ASSUME NEW q \in DOMAIN NodesOf(m), NEW k, k = NodesOf(m)[q],
              NEW j \in 1 .. m.end[k] - m.begin[k]
       PROVE  CallInvAt(m2, k, j)
  <2> DEFINE y == m.begin[k] + j
  <2>1. y \in DOMAIN m.status /\ NodeOf(m, y) = k /\ j \in DOMAIN m.ConN[k] /\ k \in Nodes
        /\ y - m.begin[k] = j
    BY <1>1, <1>2, <1>21, CallNumber, EndNodeFacts
  <2>2. CallInvAt(m, k, j)
    BY <1>1, <1>21 DEF LoopInv
  <2>3. CASE k = n /\ j = i
    <3>1. y = X
      BY <1>5, <2>3
    <3> HIDE DEF y
    <3>2. y = m.begin[k] + j
      BY DEF y
    <3>3. ConN2[k][j] = NoConn /\ m.status[y] \in Ended /\ y \notin queue2
      BY <1>2, <1>11, <2>3, <3>1 DEF queue2
    <3>4. QED
      BY <1>14, <1>20, <2>2, <3>2, <3>3 DEF CallInvAt
  <2>4. CASE ~(k = n /\ j = i)
    <3>1. y # X
      BY <2>1, <2>4
    <3>2. ConN2[k][j] = m.ConN[k][j]
      BY <1>11, <2>1, <2>4
    <3> HIDE DEF y
    <3>3. y = m.begin[k] + j /\ (y \in queue2 <=> y \in m.queue)
      BY <3>1 DEF queue2, y
    <3>4. QED
      BY <1>14, <2>2, <3>2, <3>3 DEF CallInvAt
  <2>5. QED
    BY <2>3, <2>4
<1>22. LoopInv(S, m2)
  BY <1>1, <1>14, <1>17, <1>19, <1>21 DEF LoopInv, queue2
<1>23. Taken(m2) = Taken(m) \union {X} /\ X \notin Taken(m)
  BY <1>2, <1>14 DEF Taken, queue2
<1>24. Cardinality(Taken(m2)) = m.recv + 1
  <2>1. IsFiniteSet(Taken(m)) /\ m.recv = Cardinality(Taken(m))
    BY <1>1, TakenFinite DEF WaitInv
  <2>2. Cardinality(Taken(m) \union {X}) = Cardinality(Taken(m)) + 1
    BY <1>23, <2>1, FS_AddElement
  <2>3. QED
    BY <1>23, <2>1, <2>2
<1>25. Cardinality(HeldBy(m2, n)) < Cardinality(S[n][m.ConP[n]])
  <2> DEFINE h == Cardinality(HeldBy(m, n))
             c == Cardinality(S[n][m.ConP[n]])
  <2>1. h \in Nat /\ c \in Nat
    BY <1>1, <1>4, <1>6, HeldFinite, TableFacts
  <2>2. m.ConP[n] # 0
    BY <1>1, <1>2, <1>4, EndNodeFacts
  <2>3. h <= c
    BY <1>1, <1>4, <2>2 DEF PoolsUsed
  <2>4. Cardinality(HeldBy(m2, n)) = h - 1
    BY <1>9, <1>16
  <2> HIDE DEF h, c
  <2>5. h - 1 < c
    BY <2>1, <2>3
  <2>6. QED
    BY <2>4, <2>5 DEF c
<1>26. EventInv(S, m2)
  <2>1. NodeOf(m2, m2.event) = n /\ m2.event \in Taken(m2)
    BY <1>14, <1>17, <1>23
  <2>2. \A Y \in Taken(m2) : Y = m2.event \/ m2.status[Y] = "ok"
    BY <1>1, <1>14, <1>23 DEF WaitInv
  <2>3. QED
    BY <1>14, <1>22, <1>24, <1>25, <2>1, <2>2 DEF EventInv
<1>27. MethodInv(S, m2)
  BY <1>14, <1>18, <1>26 DEF MethodInv
<1>28. QED
  BY <1>4, <1>6, <1>7, <1>27 DEF m2

(* The stage is given up. *)
LEMMA StageCancelled ==
  ASSUME NEW S, NEW m, MethodInv(S, m), m.pc = "wait", m.cancelled \/ m.expired,
         NEW left \in SUBSET m.queue
  PROVE  MethodInv(S, [m EXCEPT !.pc = "drain", !.abort = "cancelled", !.queue = left])
<1> DEFINE m2 == [m EXCEPT !.pc = "drain", !.abort = "cancelled", !.queue = left]
<1>1. /\ FieldsOK(S, m) /\ m \in MethodRecords /\ Placed(m) /\ m.result = "none" /\ EndInv(S, m)
  BY InvFields DEF MethodInv, WaitInv, LoopInv
<1>2. left \in SUBSET Nat /\ left \subseteq DOMAIN m.status
  BY <1>1 DEF MethodRecords, Placed
<1>3. /\ m2 \in MethodRecords /\ m2.pc = "drain" /\ m2.queue = left /\ m2.result = "none"
      /\ m2.ConP = m.ConP /\ m2.begin = m.begin /\ m2.end = m.end /\ m2.sent = m.sent
      /\ m2.ConN = m.ConN /\ m2.stage = m.stage /\ m2.at = m.at
      /\ m2.status = m.status /\ m2.recv = m.recv /\ m2.async_calls = m.async_calls
      /\ m2.abort = "cancelled" /\ m2.cancelled = m.cancelled /\ m2.expired = m.expired
  BY <1>1, <1>2 DEF MethodRecords, States
<1> HIDE DEF m2
<1>4. SameCalls(m, m2)
  BY <1>3 DEF SameCalls, SameRanges, SamePools
<1>5. EndInv(S, m2) /\ PoolsUsed(S, m2) /\ NodesOf(m2) = NodesOf(m)
  BY <1>1, <1>4, SameCallsFacts
<1>6. FieldsOK(S, m2)
  BY <1>1, <1>2, <1>3, <1>5 DEF FieldsOK, Placed
<1>7. DrainInv(S, m2)
  BY <1>3, <1>5 DEF DrainInv, AbortInv, Failures
<1>8. QED
  BY <1>3, <1>6, <1>7 DEF MethodInv, m2

(* An event is done with, or the status of its call aborts the stage. *)
LEMMA HandledInv ==
  ASSUME NEW S, TableOK(S), NEW m, FieldsOK(S, m), LoopInv(S, m), m.result = "none",
         m.recv + 1 = Cardinality(Taken(m)), m.event \in Taken(m),
         \A X \in Taken(m) : X = m.event \/ m.status[X] = "ok"
  PROVE  MethodInv(S, Handled(m))
<1> DEFINE m2 == Handled(m)
           st == m.status[m.event]
           k  == m.recv + 1
           l  == Len(m.status)
<1>1. m \in MethodRecords /\ Placed(m) /\ EndInv(S, m) /\ m.abort = "none"
  BY DEF FieldsOK, Placed, LoopInv
<1>2. k \in Nat /\ l \in Nat /\ k <= l /\ (k = l => Taken(m) = DOMAIN m.status)
  BY <1>1, TakenFinite
<1>3. st \in Ended /\ m.event \in DOMAIN m.status
  BY DEF Taken
<1>4. CASE st # "ok"
  <2>1. st \in Failures
    BY <1>3, <1>4 DEF Ended
  <2>2. m2 = [m EXCEPT !.pc = "drain", !.abort = st]
    BY <1>4 DEF Handled
  <2> HIDE DEF m2, st
  <2>3. /\ m2 \in MethodRecords /\ m2.pc = "drain" /\ m2.queue = m.queue /\ m2.result = "none"
        /\ m2.ConP = m.ConP /\ m2.begin = m.begin /\ m2.end = m.end /\ m2.sent = m.sent
        /\ m2.ConN = m.ConN /\ m2.stage = m.stage /\ m2.at = m.at
        /\ m2.status = m.status /\ m2.recv = m.recv /\ m2.async_calls = m.async_calls
        /\ m2.abort = st
    BY <1>1, <2>1, <2>2 DEF MethodRecords, States
  <2>4. SameCalls(m, m2)
    BY <2>3 DEF SameCalls, SameRanges, SamePools
  <2>5. EndInv(S, m2) /\ PoolsUsed(S, m2) /\ NodesOf(m2) = NodesOf(m)
    BY <1>1, <2>4, SameCallsFacts
  <2>6. FieldsOK(S, m2)
    BY <1>1, <2>3, <2>5 DEF FieldsOK, Placed
  <2>7. AbortInv(m2) /\ m2.abort # "none"
    BY <1>3, <2>1, <2>3 DEF AbortInv, Failures, st
  <2>8. DrainInv(S, m2)
    BY <2>5, <2>7 DEF DrainInv
  <2>9. QED
    BY <2>3, <2>6, <2>8 DEF MethodInv, m2
<1>5. CASE st = "ok"
  <2> DEFINE pc2 == IF k < l THEN "wait" ELSE "drain"
  <2>1. m2 = [m EXCEPT !.recv = k, !.pc = pc2]
    BY <1>1, <1>5 DEF Handled, MethodRecords
  <2>2. pc2 \in {"wait", "drain"}
    OBVIOUS
  <2>3. \A X \in Taken(m) : m.status[X] = "ok"
    BY <1>5
  <2> HIDE DEF m2, st, k, pc2
  <2>4. /\ m2 \in MethodRecords /\ m2.pc = pc2 /\ m2.queue = m.queue /\ m2.result = "none"
        /\ m2.ConP = m.ConP /\ m2.begin = m.begin /\ m2.end = m.end /\ m2.sent = m.sent
        /\ m2.ConN = m.ConN /\ m2.stage = m.stage /\ m2.at = m.at
        /\ m2.status = m.status /\ m2.recv = k /\ m2.async_calls = m.async_calls
        /\ m2.abort = "none"
    BY <1>1, <1>2, <2>1, <2>2 DEF MethodRecords, States
  <2>5. SameCalls(m, m2)
    BY <2>4 DEF SameCalls, SameRanges, SamePools
  <2>6. EndInv(S, m2) /\ PoolsUsed(S, m2) /\ NodesOf(m2) = NodesOf(m) /\ LoopInv(S, m2)
        /\ Taken(m2) = Taken(m) /\ (HoldsNothing(m) => HoldsNothing(m2))
    BY <1>1, <2>4, <2>5, SameCallsFacts
  <2>7. FieldsOK(S, m2)
    <3>1. m2.recv <= Len(m2.status) /\ m2.pc # "done"
      BY <1>2, <2>2, <2>4
    <3>2. Placed(m2)
      BY <1>1, <2>4, <2>6, <3>1 DEF Placed
    <3>3. QED
      BY <2>6, <3>2 DEF FieldsOK
  <2>8. CASE k < l
    <3>1. WaitInv(S, m2)
      BY <2>3, <2>4, <2>6 DEF WaitInv, k
    <3>2. QED
      BY <2>4, <2>7, <2>8, <3>1 DEF MethodInv, m2, pc2
  <2>9. CASE ~(k < l)
    <3>1. Taken(m) = DOMAIN m.status
      BY <1>2, <2>9
    <3>2. AllOk(m2)
      BY <2>3, <2>4, <3>1 DEF AllOk
    <3>3. ASSUME NEW n \in Nodes PROVE HeldBy(m, n) = {}
      <4>1. CASE \A p \in DOMAIN NodesOf(m) : NodesOf(m)[p] # n
        BY <1>1, <4>1 DEF EndInv
      <4>2. CASE \E p \in DOMAIN NodesOf(m) : NodesOf(m)[p] = n
        <5>1. PICK p \in DOMAIN NodesOf(m) : NodesOf(m)[p] = n
          BY <4>2
        <5>2. DOMAIN m.ConN[n] = 1 .. m.end[n] - m.begin[n]
          BY <1>1, <5>1, EndNodeFacts
        <5>3. ASSUME NEW i \in 1 .. m.end[n] - m.begin[n] PROVE m.ConN[n][i] = NoConn
          <6>1. m.begin[n] + i \in Taken(m)
            BY <1>1, <3>1, <5>1, CallNumber
          <6>2. CallInvAt(m, n, i)
            BY <5>1 DEF LoopInv
          <6>3. QED
            BY <6>1, <6>2 DEF CallInvAt, Taken, Ended, Failures
        <5>4. QED
          BY <5>2, <5>3 DEF HeldBy
      <4>3. QED
        BY <4>1, <4>2
    <3>4. HoldsNothing(m2)
      BY <2>6, <3>3 DEF HoldsNothing
    <3>5. AbortInv(m2)
      BY <2>4 DEF AbortInv, Failures
    <3>6. DrainInv(S, m2)
      BY <2>6, <3>2, <3>4, <3>5 DEF DrainInv
    <3>7. QED
      BY <2>4, <2>7, <2>9, <3>6 DEF MethodInv, m2, pc2
  <2>10. QED
    BY <2>8, <2>9
<1>6. QED
  BY <1>4, <1>5

LEMMA EventHandled ==
  ASSUME NEW S, TableOK(S), NEW m, MethodInv(S, m), m.pc = "event", NEW n, n = NodeOf(m, m.event)
  PROVE  /\ n \in Nodes /\ m.ConP[n] \in DOMAIN S[n]
         /\ ~MoreToSend(m, n) => MethodInv(S, Handled(m))
         /\ MoreToSend(m, n) =>
              \A s \in S[n][m.ConP[n]] : MethodInv(S, Handled(SendCall(m, n, s)))
<1>1. /\ FieldsOK(S, m) /\ m \in MethodRecords /\ m.result = "none" /\ EventInv(S, m)
  BY InvFields DEF MethodInv
<1>2. /\ LoopInv(S, m) /\ m.recv + 1 = Cardinality(Taken(m)) /\ m.event \in Taken(m)
      /\ \A X \in Taken(m) : X = m.event \/ m.status[X] = "ok"
      /\ Cardinality(HeldBy(m, n)) < Cardinality(S[n][m.ConP[n]])
  BY <1>1 DEF EventInv
<1>3. EndInv(S, m) /\ m.event \in DOMAIN m.status
  BY <1>2 DEF LoopInv, Taken
<1>4. PICK p \in DOMAIN NodesOf(m) : n = NodesOf(m)[p]
  BY <1>1, <1>3, NumberedCall
<1>5. n \in Nodes /\ m.ConP[n] \in DOMAIN S[n]
  BY <1>1, <1>3, <1>4, EndNodeFacts
<1>6. MethodInv(S, Handled(m))
  BY <1>1, <1>2, HandledInv
<1>7. ASSUME MoreToSend(m, n), NEW s \in S[n][m.ConP[n]]
      PROVE  MethodInv(S, Handled(SendCall(m, n, s)))
  <2> DEFINE m2 == SendCall(m, n, s)
  <2>1. m.sent[n] < m.end[n] - m.begin[n]
    <3> DEFINE b == m.begin[n]
               z == m.end[n]
               t == m.sent[n]
    <3>1. b \in Nat /\ z \in Nat /\ t \in Nat /\ b + t <= z /\ t # z - b
      BY <1>1, <1>3, <1>4, <1>7, EndNodeFacts DEF MoreToSend
    <3> HIDE DEF b, z, t
    <3>2. t < z - b
      BY <3>1
    <3>3. QED
      BY <3>2 DEF b, z, t
  <2>2. /\ FieldsOK(S, m2) /\ LoopInv(S, m2) /\ Taken(m2) = Taken(m)
        /\ \A X \in Taken(m) : m2.status[X] = m.status[X]
        /\ m2.event = m.event /\ m2.recv = m.recv /\ m2.result = m.result
    BY <1>1, <1>2, <1>4, <2>1, CallSent
  <2> HIDE DEF m2
  <2>3. /\ m2.recv + 1 = Cardinality(Taken(m2)) /\ m2.event \in Taken(m2)
        /\ \A X \in Taken(m2) : X = m2.event \/ m2.status[X] = "ok"
    BY <1>2, <2>2
  <2>4. MethodInv(S, Handled(m2))
    BY <1>1, <2>2, <2>3, HandledInv
  <2>5. QED
    BY <2>4 DEF m2
<1>8. QED
  BY <1>5, <1>6, <1>7

-----------------------------------------------------------------------------
(* closeq() and release(). *)

LEMMA HeldCalls ==
  ASSUME NEW S, TableOK(S), NEW m, FieldsOK(S, m), EndInv(S, m)
  PROVE  /\ Held(m) = {} => HoldsNothing(m)
         /\ Held(m) \in SUBSET Nat
         /\ \A X \in Held(m) : /\ NodeOf(m, X) \in Nodes
                               /\ X - m.begin[NodeOf(m, X)] \in HeldBy(m, NodeOf(m, X))
<1>1. m \in MethodRecords
  BY DEF FieldsOK, Placed
<1>2. Held(m) \in SUBSET Nat
  BY <1>1 DEF Held, MethodRecords
<1>3. ASSUME Held(m) = {}, NEW n \in Nodes PROVE HeldBy(m, n) = {}
  <2>1. CASE \A p \in DOMAIN NodesOf(m) : NodesOf(m)[p] # n
    BY <2>1 DEF EndInv
  <2>2. CASE \E p \in DOMAIN NodesOf(m) : NodesOf(m)[p] = n
    <3>1. PICK p \in DOMAIN NodesOf(m) : NodesOf(m)[p] = n
      BY <2>2
    <3>2. DOMAIN m.ConN[n] = 1 .. m.end[n] - m.begin[n]
      BY <3>1, EndNodeFacts
    <3>3. ASSUME NEW i \in 1 .. m.end[n] - m.begin[n] PROVE m.ConN[n][i] = NoConn
      <4> DEFINE X == m.begin[n] + i
      <4>1. X \in DOMAIN m.status /\ NodeOf(m, X) = n /\ X - m.begin[n] = i
        BY <3>1, CallNumber
      <4> HIDE DEF X
      <4>2. X \notin Held(m)
        BY <1>3
      <4>3. QED
        BY <4>1, <4>2 DEF Held
    <3>4. QED
      BY <3>2, <3>3 DEF HeldBy
  <2>3. QED
    BY <2>1, <2>2
<1>4. ASSUME NEW X \in Held(m)
      PROVE  /\ NodeOf(m, X) \in Nodes
             /\ X - m.begin[NodeOf(m, X)] \in HeldBy(m, NodeOf(m, X))
  <2> DEFINE n == NodeOf(m, X)
  <2>1. X \in DOMAIN m.status /\ m.ConN[n][X - m.begin[n]] # NoConn
    BY DEF Held
  <2>2. \E p \in DOMAIN NodesOf(m) : /\ n = NodesOf(m)[p] /\ n \in Nodes
                                     /\ X - m.begin[n] \in 1 .. m.end[n] - m.begin[n]
    BY <2>1, NumberedCall
  <2> HIDE DEF n
  <2>3. n \in Nodes /\ X - m.begin[n] \in DOMAIN m.ConN[n]
    BY <2>2, EndNodeFacts
  <2>4. X - m.begin[n] \in HeldBy(m, n)
    BY <2>1, <2>3 DEF HeldBy
  <2>5. QED
    BY <2>3, <2>4 DEF n
<1>5. QED
  BY <1>2, <1>3, <1>4 DEF HoldsNothing

LEMMA QueueClosed ==
  ASSUME NEW S, TableOK(S), NEW m, MethodInv(S, m), m.pc = "drain",
         NEW m1, m1 = [m EXCEPT !.queue = {}], AllEnded(m1), NEW r \in Filled
  PROVE  MethodInv(S, IF m1.abort = "none" THEN NextStage(m1, r)
                      ELSE IF Held(m1) = {} THEN Returned(m1, m1.abort)
                      ELSE [m1 EXCEPT !.pc = "release"])
<1>1. /\ FieldsOK(S, m) /\ m \in MethodRecords /\ Placed(m) /\ m.result = "none" /\ DrainInv(S, m)
      /\ EndInv(S, m)
  BY InvFields DEF MethodInv, DrainInv
<1>2. /\ m1 \in MethodRecords /\ m1.pc = "drain" /\ m1.queue = {} /\ m1.result = "none"
      /\ m1.ConP = m.ConP /\ m1.begin = m.begin /\ m1.end = m.end /\ m1.sent = m.sent
      /\ m1.ConN = m.ConN /\ m1.stage = m.stage /\ m1.at = m.at
      /\ m1.status = m.status /\ m1.recv = m.recv /\ m1.async_calls = m.async_calls
      /\ m1.abort = m.abort /\ m1.cancelled = m.cancelled /\ m1.expired = m.expired
  BY <1>1 DEF MethodRecords
<1>3. SameCalls(m, m1)
  BY <1>2 DEF SameCalls, SameRanges, SamePools
<1>4. EndInv(S, m1) /\ PoolsUsed(S, m1) /\ NodesOf(m1) = NodesOf(m) /\ (HoldsNothing(m) => HoldsNothing(m1))
  BY <1>1, <1>3, SameCallsFacts
<1>5. FieldsOK(S, m1)
  BY <1>1, <1>2, <1>4 DEF FieldsOK, Placed
<1>6. AbortInv(m1) /\ (m1.abort = "none" => AllOk(m1) /\ HoldsNothing(m1))
  BY <1>1, <1>2, <1>4 DEF DrainInv, AbortInv, AllOk
<1>7. CASE m1.abort = "none"
  BY <1>2, <1>5, <1>6, <1>7, NextStageInv
<1>8. CASE m1.abort # "none" /\ Held(m1) = {}
  <2>1. m1.abort \in Results \ {"none"}
    BY <1>2, <1>8 DEF MethodRecords, Results
  <2>2. HoldsNothing(m1)
    BY <1>4, <1>5, <1>8, HeldCalls
  <2>3. QED
    BY <1>2, <1>5, <1>8, <2>1, <2>2, ReturnedInv
<1>9. CASE m1.abort # "none" /\ Held(m1) # {}
  <2> DEFINE m2 == [m1 EXCEPT !.pc = "release"]
  <2>1. /\ m2 \in MethodRecords /\ m2.pc = "release" /\ m2.queue = {} /\ m2.result = "none"
        /\ m2.ConP = m1.ConP /\ m2.begin = m1.begin /\ m2.end = m1.end /\ m2.sent = m1.sent
        /\ m2.ConN = m1.ConN /\ m2.stage = m1.stage /\ m2.at = m1.at
        /\ m2.status = m1.status /\ m2.recv = m1.recv /\ m2.async_calls = m1.async_calls
        /\ m2.abort = m1.abort /\ m2.cancelled = m1.cancelled /\ m2.expired = m1.expired
    BY <1>2 DEF MethodRecords, States
  <2> HIDE DEF m2
  <2>2. SameCalls(m1, m2)
    BY <2>1 DEF SameCalls, SameRanges, SamePools
  <2>3. EndInv(S, m2) /\ PoolsUsed(S, m2) /\ NodesOf(m2) = NodesOf(m1)
        /\ \A X : NodeOf(m2, X) = NodeOf(m1, X)
    BY <1>4, <1>5, <2>2, SameCallsFacts
  <2>4. FieldsOK(S, m2)
    BY <1>1, <1>2, <1>4, <2>1, <2>3 DEF FieldsOK, Placed
  <2>5. Held(m2) # {}
    <3>1. m2.status = m1.status /\ m2.ConN = m1.ConN /\ m2.begin = m1.begin
      BY <2>1
    <3>2. Held(m2) = Held(m1)
      BY <2>3, <3>1 DEF Held
    <3>3. QED
      BY <1>9, <3>2
  <2>6. ReleaseInv(S, m2)
    BY <1>6, <1>9, <2>1, <2>3, <2>5 DEF ReleaseInv, AbortInv, AllEnded
  <2>7. MethodInv(S, m2)
    BY <2>1, <2>4, <2>6 DEF MethodInv
  <2>8. QED
    BY <1>9, <2>7 DEF m2
<1>10. QED
  BY <1>7, <1>8, <1>9

LEMMA CallReleased ==
  ASSUME NEW S, TableOK(S), NEW m, MethodInv(S, m), m.pc = "release",
         NEW n, n = NodeOf(m, Least(Held(m))), NEW i, i = Least(Held(m)) - m.begin[n],
         NEW m1, m1 = Given(m, n, i)
  PROVE  /\ n \in Nodes /\ i \in HeldBy(m, n) /\ m.ConP[n] \in DOMAIN S[n]
         /\ MethodInv(S, IF Held(m1) = {} THEN Returned(m1, m1.abort) ELSE m1)
<1>1. /\ FieldsOK(S, m) /\ m \in MethodRecords /\ Placed(m) /\ m.result = "none" /\ ReleaseInv(S, m)
      /\ EndInv(S, m) /\ PoolsUsed(S, m)
  BY InvFields DEF MethodInv, ReleaseInv
<1>2. Held(m) # {} /\ Held(m) \in SUBSET Nat
  BY <1>1, HeldCalls DEF ReleaseInv
<1>3. Least(Held(m)) \in Held(m)
  BY <1>2, LeastIn
<1>4. n \in Nodes /\ i \in HeldBy(m, n)
  BY <1>1, <1>3, HeldCalls
<1>5. m.ConP[n] \in DOMAIN S[n]
  BY <1>1, <1>4 DEF PoolsUsed
<1>6. AfterGiving(S, m, n, i, m1)
  BY <1>1, <1>4, GivenFacts
<1>7. /\ m1 \in MethodRecords /\ PoolsUsed(S, m1) /\ SameRanges(m, m1)
      /\ m1.pc = m.pc /\ m1.status = m.status /\ m1.queue = m.queue
      /\ m1.recv = m.recv /\ m1.abort = m.abort /\ m1.result = m.result
      /\ m1.cancelled = m.cancelled /\ m1.expired = m.expired
      /\ HeldBy(m1, n) = HeldBy(m, n) \ {i}
      /\ \A k \in Nodes \ {n} : HeldBy(m1, k) = HeldBy(m, k)
  BY <1>6 DEF AfterGiving
<1>8. NodesOf(m1) = NodesOf(m) /\ Numbered(S, m1)
  BY <1>1, <1>7, SameRangesFacts DEF EndInv, Placed
<1>9. FieldsOK(S, m1)
  BY <1>1, <1>7, <1>8 DEF FieldsOK, Placed, SameRanges
<1>10. EndInv(S, m1)
  <2>1. \A k \in Nodes : (\A q \in DOMAIN NodesOf(m) : NodesOf(m)[q] # k) => HeldBy(m1, k) = {}
    BY <1>1, <1>4, <1>7 DEF EndInv
  <2>2. /\ m.async_calls /\ m.at = Len(NodesOf(m)) + 1 /\ Len(m.status) > 0
    BY <1>1 DEF EndInv
  <2>3. m1.async_calls = m.async_calls /\ m1.at = m.at
    BY <1>7 DEF SameRanges
  <2>4. QED
    <3>1. m1.async_calls /\ m1.at = Len(NodesOf(m1)) + 1 /\ Len(m1.status) > 0 /\ Numbered(S, m1)
      BY <1>7, <1>8, <2>2, <2>3
    <3>2. \A k \in Nodes : (\A q \in DOMAIN NodesOf(m1) : NodesOf(m1)[q] # k) => HeldBy(m1, k) = {}
      BY <1>8, <2>1
    <3>3. QED
      BY <3>1, <3>2 DEF EndInv
<1>11. AllEnded(m1) /\ m1.queue = {} /\ AbortInv(m1) /\ m1.abort # "none" /\ m1.pc = "release"
       /\ m1.result = "none"
  BY <1>1, <1>7 DEF ReleaseInv, AllEnded, AbortInv
<1>12. CASE Held(m1) = {}
  <2>1. HoldsNothing(m1)
    BY <1>9, <1>10, <1>12, HeldCalls
  <2>2. m1.abort \in Results \ {"none"}
    BY <1>7, <1>11 DEF MethodRecords, Results
  <2>3. MethodInv(S, Returned(m1, m1.abort))
    BY <1>9, <1>11, <2>1, <2>2, ReturnedInv
  <2>4. QED
    BY <1>4, <1>5, <1>12, <2>3
<1>13. CASE Held(m1) # {}
  <2>1. ReleaseInv(S, m1)
    BY <1>10, <1>11, <1>13 DEF ReleaseInv
  <2>2. MethodInv(S, m1)
    BY <1>9, <1>11, <2>1 DEF MethodInv
  <2>3. QED
    BY <1>4, <1>5, <1>13, <2>2
<1>14. QED
  BY <1>12, <1>13

-----------------------------------------------------------------------------
(* gRPC: a call ends. *)
LEMMA CallEnded ==
  ASSUME NEW S, TableOK(S), NEW m, MethodInv(S, m), NEW x \in DOMAIN m.status, m.status[x] = "out",
         NEW s \in Ended
  PROVE  MethodInv(S, [m EXCEPT !.status[x] = s,
                                !.queue = IF m.async_calls THEN @ \union {x} ELSE @])
<1> DEFINE status2 == [m.status EXCEPT ![x] = s]
           queue2  == IF m.async_calls THEN m.queue \union {x} ELSE m.queue
           m2      == [m EXCEPT !.status[x] = s,
                                !.queue = IF m.async_calls THEN @ \union {x} ELSE @]
<1>1. /\ FieldsOK(S, m) /\ m \in MethodRecords /\ Placed(m) /\ PoolsUsed(S, m)
  BY InvFields
<1>2. m.status \in Seq(CallStates) /\ s \in CallStates /\ s # "unsent" /\ s # "out"
  BY <1>1 DEF MethodRecords, CallStates, Ended, Failures
<1>3. status2 \in Seq(CallStates) /\ Len(status2) = Len(m.status)
  BY <1>2, ExceptSeq
<1>4. queue2 \in SUBSET Nat /\ queue2 \subseteq DOMAIN m.status
  <2>1. m.queue \subseteq DOMAIN m.status /\ DOMAIN m.status \subseteq Nat
    BY <1>1, <1>2 DEF Placed
  <2>2. QED
    BY <2>1
<1>5. status2[x] = s /\ DOMAIN status2 = DOMAIN m.status
      /\ \A X \in DOMAIN m.status \ {x} : status2[X] = m.status[X]
  BY <1>2
<1>6. m2 = [m EXCEPT !.status = status2, !.queue = queue2]
  BY <1>1 DEF MethodRecords
<1> HIDE DEF status2, queue2, m2
<1>7. /\ m2 \in MethodRecords /\ m2.pc = m.pc /\ m2.queue = queue2 /\ m2.result = m.result
      /\ m2.ConP = m.ConP /\ m2.begin = m.begin /\ m2.end = m.end /\ m2.sent = m.sent
      /\ m2.ConN = m.ConN /\ m2.stage = m.stage /\ m2.at = m.at
      /\ m2.status = status2 /\ m2.recv = m.recv /\ m2.async_calls = m.async_calls
      /\ m2.abort = m.abort /\ m2.event = m.event
      /\ m2.cancelled = m.cancelled /\ m2.expired = m.expired
  BY <1>1, <1>3, <1>4, <1>6 DEF MethodRecords
<1>8. SameRanges(m, m2) /\ SamePools(m, m2) /\ NodesOf(m2) = NodesOf(m)
  BY <1>3, <1>7 DEF SameRanges, SamePools, NodesOf
<1>9. FieldsOK(S, m2)
  <2>1. Placed(m2)
    BY <1>1, <1>3, <1>4, <1>5, <1>7, <1>8 DEF Placed
  <2>2. QED
    BY <1>1, <1>8, <2>1, SamePoolsFacts DEF FieldsOK
<1>10. /\ \A X : NodeOf(m2, X) = NodeOf(m, X)
       /\ \A n : WindowOf(S, m2, n) = WindowOf(S, m, n)
       /\ \A n : HeldBy(m2, n) = HeldBy(m, n)
       /\ Numbered(S, m) => Numbered(S, m2)
  BY <1>1, <1>8, SameRangesFacts, SamePoolsFacts DEF Placed
<1>11. EndInv(S, m) => EndInv(S, m2)
  BY <1>3, <1>7, <1>8, <1>10 DEF EndInv
<1>12. ASSUME LoopInv(S, m)
       PROVE  /\ LoopInv(S, m2) /\ Taken(m2) = Taken(m)
              /\ \A X \in Taken(m) : m2.status[X] = m.status[X]
  <2>1. m.async_calls /\ queue2 = m.queue \union {x}
    BY <1>12 DEF LoopInv, EndInv, queue2
  <2>2. \A X \in queue2 : status2[X] \in Ended
    <3>1. \A X \in m.queue : X \in DOMAIN m.status /\ m.status[X] \in Ended
      BY <1>1, <1>12 DEF LoopInv, Placed
    <3>2. QED
      BY <1>5, <2>1, <3>1
  <2>3. \A X \in DOMAIN m.status :
          /\ status2[X] # "unsent" <=> m.status[X] # "unsent"
          /\ status2[X] = "out" \/ X \in queue2 <=> m.status[X] = "out" \/ X \in m.queue
    <3> SUFFICES ASSUME NEW X \in DOMAIN m.status
                 PROVE  /\ status2[X] # "unsent" <=> m.status[X] # "unsent"
                        /\ status2[X] = "out" \/ X \in queue2 <=> m.status[X] = "out" \/ X \in m.queue
      OBVIOUS
    <3>1. CASE X = x
      BY <1>2, <1>5, <2>1, <3>1
    <3>2. CASE X # x
      BY <1>5, <2>1, <3>2
    <3>3. QED
      BY <3>1, <3>2
  <2>4. ASSUME NEW p \in DOMAIN NodesOf(m), NEW n, n = NodesOf(m)[p],
               NEW i \in 1 .. m.end[n] - m.begin[n]
        PROVE  CallInvAt(m2, n, i)
    <3> DEFINE y == m.begin[n] + i
    <3>1. y \in DOMAIN m.status
      BY <1>1, <1>12, <2>4, CallNumber DEF LoopInv
    <3>2. CallInvAt(m, n, i)
      BY <1>12, <2>4 DEF LoopInv
    <3> HIDE DEF y
    <3>3. y = m.begin[n] + i
      BY DEF y
    <3>4. QED
      BY <1>7, <2>3, <3>1, <3>2, <3>3 DEF CallInvAt
  <2>5. LoopInv(S, m2)
    BY <1>7, <1>8, <1>11, <1>12, <2>2, <2>4 DEF LoopInv
  <2>6. "out" \notin Ended
    BY DEF Ended, Failures
  <2>7. Taken(m2) = Taken(m) /\ x \notin Taken(m)
    BY <1>5, <1>7, <2>1, <2>6 DEF Taken
  <2>8. QED
    BY <1>5, <1>7, <2>5, <2>7 DEF Taken
<1>13. m.pc = "send" => SendInv(S, m2)
  BY <1>7, <1>8, <1>10, <1>12 DEF MethodInv, SendInv
<1>14. m.pc = "wait" => WaitInv(S, m2)
  BY <1>7, <1>12 DEF MethodInv, WaitInv
<1>15. m.pc = "event" => EventInv(S, m2)
  BY <1>7, <1>8, <1>10, <1>12 DEF MethodInv, EventInv
<1>16. m.pc = "drain" => DrainInv(S, m2)
  <2> SUFFICES ASSUME m.pc = "drain" PROVE DrainInv(S, m2)
    OBVIOUS
  <2>1. DrainInv(S, m)
    BY DEF MethodInv
  <2>2. m.abort # "none"
    BY <2>1 DEF DrainInv, AllOk
  <2>3. AbortInv(m2)
    <3>1. ASSUME m.abort \in Failures PROVE \E X \in DOMAIN status2 : status2[X] = m.abort
      <4>1. PICK X \in DOMAIN m.status : m.status[X] = m.abort
        BY <2>1, <3>1 DEF DrainInv, AbortInv
      <4>2. X # x
        BY <3>1, <4>1 DEF Failures
      <4>3. QED
        BY <1>5, <4>1, <4>2
    <3>2. QED
      BY <1>7, <2>1, <3>1 DEF AbortInv, DrainInv
  <2>4. QED
    BY <1>7, <1>11, <2>1, <2>2, <2>3 DEF DrainInv
<1>17. m.pc \notin {"prepare", "call", "release", "done"}
  <2>1. m.pc # "prepare"
    BY PreparingInv DEF AllEnded
  <2>2. m.pc # "call"
    BY DEF MethodInv, CallInv, AllOk
  <2>3. m.pc # "release" /\ m.pc # "done"
    BY DEF MethodInv, ReleaseInv, DoneInv, AllEnded
  <2>4. QED
    BY <2>1, <2>2, <2>3
<1>18. m.pc = "called" => CalledInv(m2)
  <2> SUFFICES ASSUME m.pc = "called" PROVE CalledInv(m2)
    OBVIOUS
  <2>1. CalledInv(m) /\ InTurnInv(m)
    BY DEF MethodInv, CalledInv
  <2>2. x = Len(m.status) /\ DOMAIN m.status = 1 .. Len(m.status) /\ Len(m.status) \in Nat
    <3>1. DOMAIN m.status = 1 .. Len(m.status) /\ Len(m.status) \in Nat
      BY <1>2
    <3>2. x \in 1 .. Len(m.status) - 1 \/ x = Len(m.status)
      BY <3>1
    <3>3. QED
      BY <2>1, <3>1, <3>2 DEF CalledInv
  <2>3. queue2 = m.queue
    BY <2>1 DEF InTurnInv, queue2
  <2>4. InTurnInv(m2)
    BY <1>3, <1>7, <1>8, <2>1, <2>3 DEF InTurnInv, NothingSent
  <2>5. \A X \in 1 .. Len(status2) - 1 : status2[X] = "ok"
    <3>1. \A X \in 1 .. Len(m.status) - 1 : X \in DOMAIN m.status \ {x}
      BY <2>2
    <3>2. QED
      BY <1>3, <1>5, <2>1, <3>1 DEF CalledInv
  <2>6. status2[Len(status2)] # "unsent"
    BY <1>2, <1>3, <1>5, <2>2
  <2>7. QED
    BY <1>7, <1>8, <1>10, <2>1, <2>4, <2>5, <2>6 DEF CalledInv
<1>19. MethodInv(S, m2)
  BY <1>7, <1>9, <1>13, <1>14, <1>15, <1>16, <1>17, <1>18 DEF MethodInv
<1>20. QED
  BY <1>19 DEF m2

(* The request is cancelled, or its deadline expires. *)
LEMMA Interrupted ==
  ASSUME NEW S, NEW m, MethodInv(S, m), NEW m2 \in MethodRecords,
         m2 = [m EXCEPT !.cancelled = TRUE] \/ m2 = [m EXCEPT !.expired = TRUE]
  PROVE  MethodInv(S, m2)
<1>1. /\ FieldsOK(S, m) /\ m \in MethodRecords /\ Placed(m)
  BY InvFields
<1>2. /\ m2.pc = m.pc /\ m2.queue = m.queue /\ m2.result = m.result
      /\ m2.ConP = m.ConP /\ m2.begin = m.begin /\ m2.end = m.end /\ m2.sent = m.sent
      /\ m2.ConN = m.ConN /\ m2.stage = m.stage /\ m2.at = m.at
      /\ m2.status = m.status /\ m2.recv = m.recv /\ m2.async_calls = m.async_calls
      /\ m2.abort = m.abort /\ m2.event = m.event
      /\ (m.cancelled => m2.cancelled) /\ (m.expired => m2.expired)
  BY <1>1 DEF MethodRecords
<1>3. SameCalls(m, m2) /\ SameRanges(m, m2)
  BY <1>2 DEF SameCalls, SameRanges, SamePools
<1>4. /\ NodesOf(m2) = NodesOf(m) /\ \A X : NodeOf(m2, X) = NodeOf(m, X)
      /\ \A n : WindowOf(S, m2, n) = WindowOf(S, m, n)
      /\ \A n : HeldBy(m2, n) = HeldBy(m, n)
      /\ HoldsNothing(m) => HoldsNothing(m2)
      /\ PoolsUsed(S, m2)
      /\ EndInv(S, m) => EndInv(S, m2)
      /\ Taken(m2) = Taken(m)
      /\ LoopInv(S, m) => LoopInv(S, m2)
  BY <1>1, <1>2, <1>3, SameCallsFacts DEF LoopInv
<1>5. FieldsOK(S, m2)
  BY <1>1, <1>2, <1>4 DEF FieldsOK, Placed
<1>6. Numbered(S, m) => Numbered(S, m2)
  BY <1>1, <1>3, SameRangesFacts DEF Placed
<1>7. NothingSent(m) = NothingSent(m2) /\ AllOk(m) = AllOk(m2)
      /\ (InTurnInv(m) => InTurnInv(m2)) /\ (AbortInv(m) => AbortInv(m2))
      /\ AllEnded(m) = AllEnded(m2)
  BY <1>2, <1>4 DEF NothingSent, AllOk, InTurnInv, AbortInv, AllEnded
<1>8. PrepareInv(S, m) => PrepareInv(S, m2)
  BY <1>2, <1>4, <1>6, <1>7 DEF PrepareInv
<1>9. CallInv(m) => CallInv(m2)
  BY <1>2, <1>4, <1>7 DEF CallInv
<1>10. CalledInv(m) => CalledInv(m2)
  BY <1>2, <1>4, <1>7 DEF CalledInv
<1>11. SendInv(S, m) => SendInv(S, m2)
  BY <1>2, <1>4 DEF SendInv
<1>12. WaitInv(S, m) => WaitInv(S, m2)
  BY <1>2, <1>4 DEF WaitInv
<1>13. EventInv(S, m) => EventInv(S, m2)
  BY <1>2, <1>4 DEF EventInv
<1>14. DrainInv(S, m) => DrainInv(S, m2)
  BY <1>2, <1>4, <1>7 DEF DrainInv
<1>15. ReleaseInv(S, m) => ReleaseInv(S, m2)
  BY <1>2, <1>4, <1>7 DEF ReleaseInv, Held
<1>16. DoneInv(m) => DoneInv(m2)
  BY <1>2, <1>4, <1>7 DEF DoneInv
<1>17. QED
  BY <1>2, <1>5, <1>8, <1>9, <1>10, <1>11, <1>12, <1>13, <1>14, <1>15, <1>16 DEF MethodInv

-----------------------------------------------------------------------------
(* What a step does to the connectors. *)

LEMMA TableNow ==
  ASSUME PoolsOK
  PROVE  /\ TableOK(StubTable)
         /\ \A n \in Nodes : /\ DOMAIN StubTable[n] = DOMAIN connectors[n]
                             /\ DOMAIN connectors[n] = 1 .. Len(connectors[n])
                             /\ Len(connectors[n]) \in Nat \ {0}
                             /\ \A g \in DOMAIN connectors[n] : StubTable[n][g] = StubsOf(connectors[n][g])
<1>1. \A n \in Nodes : /\ DOMAIN connectors[n] = 1 .. Len(connectors[n])
                       /\ Len(connectors[n]) \in Nat \ {0}
  BY DEF PoolsOK
<1>2. /\ DOMAIN StubTable = Nodes
      /\ \A n \in Nodes : /\ DOMAIN StubTable[n] = DOMAIN connectors[n]
                          /\ \A g \in DOMAIN connectors[n] : StubTable[n][g] = StubsOf(connectors[n][g])
  BY DEF StubTable
<1>3. TableOK(StubTable)
  BY <1>1, <1>2 DEF TableOK, PoolsOK
<1>4. QED
  BY <1>1, <1>2, <1>3

(* One connector is replaced by another with the same stubs. *)
Replaced(n, g, c) ==
  /\ n \in Nodes /\ g \in DOMAIN connectors[n]
  /\ c \in ConnectorRecords /\ StubsOf(c) = StubsOf(connectors[n][g])
  /\ connectors' = [connectors EXCEPT ![n][g] = c]

LEMMA ReplacedFacts ==
  ASSUME PoolsOK, NEW n, NEW g, NEW c, Replaced(n, g, c)
  PROVE  /\ PoolsOK' /\ StubTable' = StubTable
         /\ connectors'[n][g] = c
         /\ \A k \in Nodes : DOMAIN connectors'[k] = DOMAIN connectors[k]
         /\ \A k \in Nodes : \A h \in DOMAIN connectors[k] :
              k # n \/ h # g => connectors'[k][h] = connectors[k][h]
<1> DEFINE row == [connectors[n] EXCEPT ![g] = c]
<1>1. n \in Nodes /\ g \in DOMAIN connectors[n] /\ c \in ConnectorRecords
      /\ StubsOf(c) = StubsOf(connectors[n][g]) /\ connectors' = [connectors EXCEPT ![n] = row]
  BY DEF Replaced
<1>2. connectors \in [Nodes -> Seq(ConnectorRecords)] /\ connectors[n] \in Seq(ConnectorRecords)
  BY <1>1 DEF PoolsOK
<1>3. row \in Seq(ConnectorRecords) /\ Len(row) = Len(connectors[n])
  BY <1>1, <1>2, ExceptSeq
<1>4. row[g] = c /\ DOMAIN row = DOMAIN connectors[n]
      /\ \A h \in DOMAIN connectors[n] : h # g => row[h] = connectors[n][h]
  BY <1>1
<1> HIDE DEF row
<1>5. connectors'[n] = row /\ \A k \in Nodes : k # n => connectors'[k] = connectors[k]
  BY <1>1, <1>2
<1>6. /\ connectors'[n][g] = c
      /\ \A k \in Nodes : DOMAIN connectors'[k] = DOMAIN connectors[k]
      /\ \A k \in Nodes : \A h \in DOMAIN connectors[k] :
           k # n \/ h # g => connectors'[k][h] = connectors[k][h]
  BY <1>4, <1>5
<1>7. \A k \in Nodes : \A h \in DOMAIN connectors[k] : StubsOf(connectors'[k][h]) = StubsOf(connectors[k][h])
  <2> SUFFICES ASSUME NEW k \in Nodes, NEW h \in DOMAIN connectors[k]
               PROVE  StubsOf(connectors'[k][h]) = StubsOf(connectors[k][h])
    OBVIOUS
  <2>1. CASE k = n /\ h = g
    BY <1>1, <1>6, <2>1
  <2>2. CASE k # n \/ h # g
    BY <1>6, <2>2
  <2>3. QED
    BY <2>1, <2>2
<1>8. StubTable' = StubTable
  BY <1>6, <1>7 DEF StubTable
<1>9. PoolsOK'
  <2>1. connectors' \in [Nodes -> Seq(ConnectorRecords)]
    BY <1>1, <1>2, <1>3
  <2>2. \A k \in Nodes : Len(connectors'[k]) > 0
    BY <1>3, <1>5 DEF PoolsOK
  <2>3. QED
    BY <1>6, <1>7, <2>1, <2>2 DEF PoolsOK
<1>10. QED
  BY <1>6, <1>8, <1>9

LEMMA RecordFields ==
  ASSUME NEW c \in ConnectorRecords
  PROVE  /\ c.active \in [StubsOf(c) -> Int] /\ c.total_active \in Int
         /\ StubsOf(c) \in UNION {StubSets[n] : n \in Nodes}
<1>1. PICK T \in UNION {StubSets[n] : n \in Nodes} : c.active \in [T -> Int] /\ c.total_active \in Int
  BY DEF ConnectorRecords
<1>2. QED
  BY <1>1 DEF StubsOf

LEMMA MakeRecord ==
  ASSUME NEW T \in UNION {StubSets[n] : n \in Nodes}, NEW a \in [T -> Int], NEW t \in Int
  PROVE  /\ [active |-> a, total_active |-> t] \in ConnectorRecords
         /\ StubsOf([active |-> a, total_active |-> t]) = T
  BY DEF ConnectorRecords, StubsOf

(* stub(): the connector taken counts the call. *)
LEMMA StubTaken ==
  ASSUME PoolsOK, NEW m, NEW n \in Nodes, m.ConP[n] \in DOMAIN connectors[n], NEW s, TakeStub(m, n, s)
  PROVE  /\ s \in StubTable[n][m.ConP[n]] /\ s \in StubsOf(Pool(m, n))
         /\ Replaced(n, m.ConP[n], Allocate(Pool(m, n), s))
<1> DEFINE c == Pool(m, n)
<1>1. c = connectors[n][m.ConP[n]] /\ c \in ConnectorRecords
  BY DEF PoolsOK, Pool, Connector
<1>2. s \in StubsOf(c) /\ connectors' = [connectors EXCEPT ![n][m.ConP[n]] = Allocate(c, s)]
  BY DEF TakeStub, LeastActive, Pool, Connector
<1> HIDE DEF c
<1>3. c.active \in [StubsOf(c) -> Int] /\ c.total_active \in Int
      /\ StubsOf(c) \in UNION {StubSets[k] : k \in Nodes}
  BY <1>1, RecordFields
<1>4. [c.active EXCEPT ![s] = @ + 1] \in [StubsOf(c) -> Int] /\ c.total_active + 1 \in Int
  BY <1>2, <1>3
<1>5. Allocate(c, s) \in ConnectorRecords /\ StubsOf(Allocate(c, s)) = StubsOf(c)
  BY <1>3, <1>4, MakeRecord DEF Allocate
<1>6. QED
  BY <1>1, <1>2, <1>5, TableNow DEF Replaced, c

(* finished(): the connector taken counts the call no longer. *)
LEMMA StubGivenBack ==
  ASSUME PoolsOK, NEW m, NEW n \in Nodes, m.ConP[n] \in DOMAIN connectors[n],
         NEW s \in StubsOf(Pool(m, n)), NEW in_error \in BOOLEAN, GiveBack(m, n, s, in_error)
  PROVE  Replaced(n, m.ConP[n], Finish(Pool(m, n), s, Drops(s, in_error, accumulate_addresses)))
<1> DEFINE c == Pool(m, n)
           d == Drops(s, in_error, accumulate_addresses)
<1>1. c = connectors[n][m.ConP[n]] /\ c \in ConnectorRecords
  BY DEF PoolsOK, Pool, Connector
<1>2. s # NoConn
  <2>1. StubsOf(c) \in StubSets[n]
    BY <1>1 DEF PoolsOK
  <2>2. QED
    BY <2>1, StubSetsAssumption
<1>3. connectors' = [connectors EXCEPT ![n][m.ConP[n]] = Finish(c, s, d)]
  BY <1>2 DEF GiveBack, Pool, Connector
<1> HIDE DEF c, d
<1>4. c.active \in [StubsOf(c) -> Int] /\ c.total_active \in Int /\ s \in StubsOf(c)
      /\ StubsOf(c) \in UNION {StubSets[k] : k \in Nodes}
  BY <1>1, RecordFields DEF c
<1>5. [c.active EXCEPT ![s] = @ - 1 - (IF d THEN Penalty ELSE 0)] \in [StubsOf(c) -> Int]
      /\ c.total_active - 1 \in Int
  BY <1>4, PenaltyAssumption
<1>6. Finish(c, s, d) \in ConnectorRecords /\ StubsOf(Finish(c, s, d)) = StubsOf(c)
  BY <1>4, <1>5, MakeRecord DEF Finish
<1>7. QED
  BY <1>1, <1>3, <1>6 DEF Replaced, c, d

(* X_get_connector(): a connector is added, or none is. *)
Added(n, T) ==
  /\ n \in Nodes /\ T \in StubSets[n]
  /\ connectors' = [connectors EXCEPT ![n] = Append(@, NewConnector(T))]

LEMMA AddedFacts ==
  ASSUME PoolsOK, NEW n, NEW T, Added(n, T)
  PROVE  /\ PoolsOK' /\ Grown(StubTable, StubTable')
         /\ Len(connectors'[n]) = Len(connectors[n]) + 1
         /\ connectors'[n][Len(connectors[n]) + 1] = NewConnector(T)
         /\ \A g \in DOMAIN connectors[n] : connectors'[n][g] = connectors[n][g]
         /\ DOMAIN connectors'[n] = DOMAIN connectors[n] \union {Len(connectors[n]) + 1}
         /\ \A k \in Nodes : k # n => connectors'[k] = connectors[k]
<1> DEFINE c   == NewConnector(T)
           row == Append(connectors[n], c)
           l   == Len(connectors[n])
<1>1. n \in Nodes /\ T \in StubSets[n] /\ connectors' = [connectors EXCEPT ![n] = row]
  BY DEF Added
<1>2. connectors \in [Nodes -> Seq(ConnectorRecords)] /\ connectors[n] \in Seq(ConnectorRecords)
  BY <1>1 DEF PoolsOK
<1>3. c \in ConnectorRecords /\ StubsOf(c) = T
  <2>1. [s \in T |-> 0] \in [T -> Int] /\ 0 \in Int /\ T \in UNION {StubSets[k] : k \in Nodes}
    BY <1>1
  <2>2. QED
    BY <2>1, MakeRecord DEF NewConnector
<1> HIDE DEF c
<1>4. /\ row \in Seq(ConnectorRecords) /\ Len(row) = l + 1
      /\ \A g \in 1 .. l : row[g] = connectors[n][g]
      /\ row[l + 1] = c
  BY <1>2, <1>3, AppendProperties
<1> HIDE DEF row
<1>5. l \in Nat /\ DOMAIN connectors[n] = 1 .. l /\ DOMAIN row = 1 .. l + 1
  BY <1>2, <1>4
<1> HIDE DEF l
<1>6. DOMAIN row = DOMAIN connectors[n] \union {l + 1}
  BY <1>5
<1>7. connectors'[n] = row /\ \A k \in Nodes : k # n => connectors'[k] = connectors[k]
  BY <1>1, <1>2
<1>8. PoolsOK'
  <2>1. connectors' \in [Nodes -> Seq(ConnectorRecords)]
    BY <1>1, <1>2, <1>4
  <2>2. \A k \in Nodes : Len(connectors'[k]) > 0
    BY <1>4, <1>5, <1>7 DEF PoolsOK
  <2>3. \A g \in DOMAIN row : StubsOf(row[g]) \in StubSets[n]
    <3>1. \A g \in DOMAIN connectors[n] : row[g] = connectors[n][g] /\ StubsOf(connectors[n][g]) \in StubSets[n]
      BY <1>1, <1>4, <1>5 DEF PoolsOK
    <3>2. QED
      BY <1>1, <1>3, <1>4, <1>6, <3>1
  <2>4. \A k \in Nodes : \A g \in DOMAIN connectors'[k] : StubsOf(connectors'[k][g]) \in StubSets[k]
    BY <1>7, <2>3 DEF PoolsOK
  <2>5. QED
    BY <2>1, <2>2, <2>4 DEF PoolsOK
<1>9. Grown(StubTable, StubTable')
  <2> SUFFICES ASSUME NEW k \in Nodes, NEW g \in DOMAIN StubTable[k]
               PROVE  g \in DOMAIN StubTable'[k] /\ StubTable'[k][g] = StubTable[k][g]
    BY DEF Grown
  <2>1. DOMAIN StubTable[k] = DOMAIN connectors[k] /\ StubTable[k][g] = StubsOf(connectors[k][g])
        /\ g \in DOMAIN connectors[k]
    BY TableNow
  <2>2. g \in DOMAIN connectors'[k] /\ connectors'[k][g] = connectors[k][g]
    <3>1. CASE k = n
      BY <1>4, <1>5, <1>6, <1>7, <2>1, <3>1
    <3>2. CASE k # n
      BY <1>7, <2>1, <3>2
    <3>3. QED
      BY <3>1, <3>2
  <2>3. QED
    BY <2>1, <2>2 DEF StubTable
<1>10. QED
  BY <1>4, <1>5, <1>6, <1>7, <1>8, <1>9 DEF l, c

-----------------------------------------------------------------------------
(* Every step of a request, in terms of the calls that hold a connection. *)

PoolStep(m, m2) ==
  \/ KeepsHolding(m, m2) /\ UNCHANGED connectors
  \/ KeepsHolding(m, m2) /\ \E n, T : Added(n, T)
  \/ \E n, i, s : /\ HoldsOneMore(m, m2, n, i, s) /\ s \in StubsOf(Pool(m, n))
                  /\ Replaced(n, m.ConP[n], Allocate(Pool(m, n), s))
  \/ \E n, i, s : \E in_error \in BOOLEAN :
       /\ HoldsOneMore(m2, m, n, i, s) /\ s \in StubsOf(Pool(m, n))
       /\ Replaced(n, m.ConP[n], Finish(Pool(m, n), s, Drops(s, in_error, accumulate_addresses)))

Step(e, m2) ==
  /\ Become(e, m2) /\ MethodInv(StubTable', m2)
  /\ PoolsOK' /\ Grown(StubTable, StubTable')
  /\ PoolStep(method[e], m2)

LEMMA EntryFacts ==
  ASSUME IInv, NEW e \in Entries
  PROVE  /\ PoolsOK /\ TableOK(StubTable) /\ MethodInv(StubTable, method[e])
         /\ method[e] \in MethodRecords
         /\ Grown(StubTable, StubTable)
         /\ \A n \in Nodes : DOMAIN StubTable[n] = DOMAIN connectors[n]
<1>1. PoolsOK /\ MethodInv(StubTable, method[e]) /\ method[e] \in MethodRecords
  BY DEF IInv
<1>2. QED
  BY <1>1, TableNow DEF Grown

LEMMA StepKept ==
  ASSUME IInv, NEW e \in Entries, NEW m2, Become(e, m2), UNCHANGED connectors,
         MethodInv(StubTable, m2), KeepsHolding(method[e], m2)
  PROVE  Step(e, m2)
<1>1. StubTable' = StubTable /\ (PoolsOK => PoolsOK')
  BY DEF StubTable, PoolsOK
<1>2. QED
  BY <1>1, EntryFacts DEF Step, PoolStep

LEMMA StepTaken ==
  ASSUME IInv, NEW e \in Entries, NEW m2, Become(e, m2),
         NEW n \in Nodes, method[e].ConP[n] \in DOMAIN connectors[n], NEW i, NEW s,
         TakeStub(method[e], n, s), MethodInv(StubTable, m2), HoldsOneMore(method[e], m2, n, i, s)
  PROVE  Step(e, m2)
<1> DEFINE m == method[e]
<1>1. PoolsOK /\ Grown(StubTable, StubTable)
  BY EntryFacts
<1>2. s \in StubsOf(Pool(m, n)) /\ Replaced(n, m.ConP[n], Allocate(Pool(m, n), s))
  BY <1>1, StubTaken
<1>3. PoolsOK' /\ StubTable' = StubTable
  BY <1>1, <1>2, ReplacedFacts
<1>4. PoolStep(m, m2)
  BY <1>2 DEF PoolStep
<1>5. QED
  BY <1>1, <1>3, <1>4 DEF Step

LEMMA StepGiven ==
  ASSUME IInv, NEW e \in Entries, NEW m2, Become(e, m2),
         NEW n \in Nodes, NEW i \in HeldBy(method[e], n), NEW in_error \in BOOLEAN,
         GiveBack(method[e], n, method[e].ConN[n][i], in_error), MethodInv(StubTable, m2),
         HoldsOneMore(m2, method[e], n, i, method[e].ConN[n][i])
  PROVE  Step(e, m2)
<1> DEFINE m == method[e]
           s == m.ConN[n][i]
<1>1. PoolsOK /\ Grown(StubTable, StubTable) /\ MethodInv(StubTable, m)
      /\ DOMAIN StubTable[n] = DOMAIN connectors[n]
  BY EntryFacts
<1>2. m.ConP[n] \in DOMAIN connectors[n] /\ s \in StubTable[n][m.ConP[n]]
  BY <1>1, InvFields DEF PoolsUsed
<1>3. s \in StubsOf(Pool(m, n))
  BY <1>1, <1>2, TableNow DEF Pool, Connector
<1>4. Replaced(n, m.ConP[n], Finish(Pool(m, n), s, Drops(s, in_error, accumulate_addresses)))
  <2> HIDE DEF s
  <2>1. GiveBack(m, n, s, in_error)
    BY DEF s
  <2>2. QED
    BY <1>1, <1>2, <1>3, <2>1, StubGivenBack
<1>5. PoolsOK' /\ StubTable' = StubTable
  BY <1>1, <1>4, ReplacedFacts
<1>6. PoolStep(m, m2)
  <2> HIDE DEF m, s
  <2>1. HoldsOneMore(m2, m, n, i, s)
    BY DEF m, s
  <2>2. QED
    BY <1>3, <1>4, <2>1 DEF PoolStep
<1>7. QED
  BY <1>1, <1>5, <1>6 DEF Step

(* What changes after a call was sent or has given back its connection. *)
LEMMA RestKept ==
  ASSUME NEW m \in MethodRecords
  PROVE  /\ \A r : SamePools(m, Returned(m, r))
         /\ \A r : SamePools(m, NextStage(m, r))
         /\ \A n : SamePools(m, NextCall(m, n))
         /\ SamePools(m, Handled(m))
<1>1. \A r : SamePools(m, Returned(m, r))
  BY DEF SamePools, Returned, MethodRecords
<1>2. ASSUME NEW r PROVE SamePools(m, NextStage(m, r))
  <2>1. CASE m.stage = Len(stages)
    BY <1>1, <2>1 DEF NextStage
  <2>2. CASE m.stage # Len(stages)
    <3> DEFINE none == <<>>
               next == m.stage + 1
    <3>1. NextStage(m, r) = [m EXCEPT !.pc = "prepare", !.stage = next, !.at = 1,
                                      !.status = none, !.event = 0, !.recv = 0]
      BY <2>2 DEF NextStage, MethodRecords
    <3> HIDE DEF none, next
    <3>2. QED
      BY <3>1 DEF SamePools, MethodRecords
  <2>3. QED
    BY <2>1, <2>2
<1>3. \A n : SamePools(m, NextCall(m, n))
  <2> SUFFICES ASSUME NEW n PROVE SamePools(m, NextCall(m, n))
    OBVIOUS
  <2>1. CASE Len(m.status) < m.end[n]
    BY <2>1 DEF NextCall, SamePools, MethodRecords
  <2>2. CASE ~(Len(m.status) < m.end[n])
    <3> DEFINE next == m.at + 1
    <3>1. NextCall(m, n) = [m EXCEPT !.pc = "prepare", !.at = next]
      BY <2>2 DEF NextCall, MethodRecords
    <3> HIDE DEF next
    <3>2. QED
      BY <3>1 DEF SamePools, MethodRecords
  <2>3. QED
    BY <2>1, <2>2
<1>4. SamePools(m, Handled(m))
  <2>1. CASE m.status[m.event] # "ok"
    BY <2>1 DEF Handled, SamePools, MethodRecords
  <2>2. CASE m.status[m.event] = "ok"
    <3> DEFINE next == m.recv + 1
               pc2  == IF m.recv + 1 < Len(m.status) THEN "wait" ELSE "drain"
    <3>1. Handled(m) = [m EXCEPT !.recv = next, !.pc = pc2]
      BY <2>2 DEF Handled, MethodRecords
    <3> HIDE DEF next, pc2
    <3>2. QED
      BY <3>1 DEF SamePools, MethodRecords
  <2>3. QED
    BY <2>1, <2>2
<1>5. QED
  BY <1>1, <1>2, <1>3, <1>4

LEMMA RestKeeps ==
  ASSUME NEW m \in MethodRecords
  PROVE  /\ \A r : KeepsHolding(m, Returned(m, r))
         /\ \A r : KeepsHolding(m, NextStage(m, r))
         /\ \A n : KeepsHolding(m, NextCall(m, n))
         /\ KeepsHolding(m, Handled(m))
  BY RestKept, PoolsKept

(* What Count(), Window() and Unsent() say of the table of stubs. *)
LEMMA CountsNow ==
  ASSUME IInv, NEW e \in Entries
  PROVE  /\ \A n \in Nodes : method[e].ConP[n] \in DOMAIN connectors[n] =>
              /\ StubsOf(Pool(method[e], n)) = StubTable[n][method[e].ConP[n]]
              /\ Window(method[e], n) = WindowOf(StubTable, method[e], n)
         /\ \A m : m.ConP = method[e].ConP /\ m.stage = method[e].stage /\ EndInv(StubTable, method[e]) =>
              Unsent(m) = UnsentOf(StubTable, m)
<1>1. PoolsOK /\ TableOK(StubTable) /\ MethodInv(StubTable, method[e])
  BY EntryFacts
<1>2. \A m : \A n \in Nodes : m.ConP[n] \in DOMAIN connectors[n] =>
         /\ StubsOf(Pool(m, n)) = StubTable[n][m.ConP[n]]
         /\ Window(m, n) = WindowOf(StubTable, m, n)
  BY <1>1, TableNow DEF Pool, Connector, Count, Window, WindowOf
<1>3. ASSUME NEW m, m.ConP = method[e].ConP, m.stage = method[e].stage, EndInv(StubTable, method[e])
      PROVE  Unsent(m) = UnsentOf(StubTable, m)
  <2>1. NodesOf(m) = NodesOf(method[e])
    BY <1>3 DEF NodesOf
  <2>2. \A p \in DOMAIN NodesOf(m) : /\ NodesOf(m)[p] \in Nodes
                                     /\ m.ConP[NodesOf(m)[p]] \in DOMAIN connectors[NodesOf(m)[p]]
    <3> SUFFICES ASSUME NEW p \in DOMAIN NodesOf(method[e]), NEW n, n = NodesOf(method[e])[p]
                 PROVE  n \in Nodes /\ method[e].ConP[n] \in DOMAIN connectors[n]
      BY <1>3, <2>1
    <3>1. n \in Nodes /\ method[e].ConP[n] \in DOMAIN StubTable[n]
      BY <1>1, <1>3, InvFields, EndNodeFacts
    <3>2. QED
      BY <1>1, <3>1, TableNow
  <2>3. \A p \in DOMAIN NodesOf(m) : Window(m, NodesOf(m)[p]) = WindowOf(StubTable, m, NodesOf(m)[p])
    BY <1>2, <2>2
  <2>4. QED
    BY <2>3 DEF Unsent, UnsentOf
<1>4. QED
  BY <1>2, <1>3

-----------------------------------------------------------------------------
(* The actions, one by one. *)

LEMMA ErrorCheckStep ==
  ASSUME IInv, NEW e \in Entries, ErrorCheck(e)
  PROVE  \E m2 : Step(e, m2)
<1>1. /\ method[e].pc = "prepare" /\ Become(e, Returned(method[e], "refused")) /\ UNCHANGED connectors
  BY DEF ErrorCheck
<1>2. MethodInv(StubTable, Returned(method[e], "refused"))
  BY <1>1, EntryFacts, PrepareReturns DEF Results
<1>3. QED
  BY <1>1, <1>2, EntryFacts, RestKeeps, StepKept

LEMMA HoldsNothingKeeps ==
  ASSUME NEW m, NEW m2, HoldsNothing(m), HoldsNothing(m2)
  PROVE  KeepsHolding(m, m2)
  BY DEF HoldsNothing, KeepsHolding

LEMMA AddressesTaken ==
  ASSUME IInv, NEW n \in Nodes, GetConnector(n)
  PROVE  /\ PoolsOK' /\ Grown(StubTable, StubTable') /\ TableOK(StubTable')
         /\ Len(connectors'[n]) \in Nat \ {0} /\ Len(connectors'[n]) \in DOMAIN StubTable'[n]
         /\ StubTable'[n][Len(connectors'[n])] = StubsOf(connectors'[n][Len(connectors'[n])])
         /\ UNCHANGED connectors \/ \E k, T : Added(k, T)
<1>1. PoolsOK
  BY DEF IInv
<1>2. /\ PoolsOK' /\ Grown(StubTable, StubTable') /\ (UNCHANGED connectors \/ \E k, T : Added(k, T))
  <2>1. CASE UNCHANGED connectors
    <3>1. StubTable' = StubTable /\ PoolsOK'
      BY <1>1, <2>1 DEF StubTable, PoolsOK
    <3>2. QED
      BY <2>1, <3>1 DEF Grown
  <2>2. CASE \E T \in StubSets[n] : connectors' = [connectors EXCEPT ![n] = Append(@, NewConnector(T))]
    <3>1. PICK T : Added(n, T)
      BY <2>2 DEF Added
    <3>2. QED
      BY <1>1, <3>1, AddedFacts
  <2>3. QED
    BY <2>1, <2>2 DEF GetConnector
<1>3. /\ DOMAIN connectors'[n] = 1 .. Len(connectors'[n]) /\ Len(connectors'[n]) \in Nat \ {0}
      /\ DOMAIN StubTable'[n] = DOMAIN connectors'[n]
      /\ \A g \in DOMAIN connectors'[n] : StubTable'[n][g] = StubsOf(connectors'[n][g])
  BY <1>2 DEF PoolsOK, StubTable
<1>4. TableOK(StubTable')
  <2>1. DOMAIN StubTable' = Nodes
    BY DEF StubTable
  <2>2. \A k \in Nodes : /\ DOMAIN connectors'[k] = 1 .. Len(connectors'[k])
                         /\ \A g \in DOMAIN connectors'[k] : StubsOf(connectors'[k][g]) \in StubSets[k]
    BY <1>2 DEF PoolsOK
  <2>3. \A k \in Nodes : /\ DOMAIN StubTable'[k] = DOMAIN connectors'[k]
                         /\ \A g \in DOMAIN connectors'[k] : StubTable'[k][g] = StubsOf(connectors'[k][g])
    BY DEF StubTable
  <2>4. QED
    BY <2>1, <2>2, <2>3 DEF TableOK
<1>5. QED
  BY <1>2, <1>3, <1>4

(* A node's numbered calls, as the action writes them. *)
NumberedAfter(m, n, last, numbers, k, next, status2) ==
  [Started(m, n, last, <<>>, k) EXCEPT !.at = next, !.ConN[n] = numbers, !.status = status2]
NumberedAtOnce(m, n, last, numbers, k, next, status2) ==
  [Started(m, n, last, numbers, k) EXCEPT !.at = next, !.status = status2]

LEMMA StartedAgain ==
  ASSUME NEW m \in MethodRecords, NEW n \in Nodes, NEW last, NEW numbers, NEW k, NEW next, NEW status2
  PROVE  NumberedAfter(m, n, last, numbers, k, next, status2)
         = NumberedAtOnce(m, n, last, numbers, k, next, status2)
<1> DEFINE none   == <<>>
           l      == Len(m.status)
           z      == l + k
           ConP2  == [m.ConP EXCEPT ![n] = last]
           sent2  == [m.sent EXCEPT ![n] = 0]
           ConN1  == [m.ConN EXCEPT ![n] = none]
           ConN2  == [m.ConN EXCEPT ![n] = numbers]
           begin2 == [m.begin EXCEPT ![n] = l]
           end2   == [m.end EXCEPT ![n] = z]
           m1     == Started(m, n, last, none, k)
           m2     == Started(m, n, last, numbers, k)
<1>1. m1 = [m EXCEPT !.ConP = ConP2, !.sent = sent2, !.ConN = ConN1, !.begin = begin2, !.end = end2]
  BY DEF Started, MethodRecords
<1>2. m2 = [m EXCEPT !.ConP = ConP2, !.sent = sent2, !.ConN = ConN2, !.begin = begin2, !.end = end2]
  BY DEF Started, MethodRecords
<1>3. [ConN1 EXCEPT ![n] = numbers] = ConN2 /\ m.ConN \in [Nodes -> Seq(Stubs \union {NoConn})]
  BY DEF MethodRecords
<1> HIDE DEF ConP2, sent2, ConN1, ConN2, begin2, end2, m1, m2, none
<1>4. m1.ConN = ConN1
  BY <1>1 DEF MethodRecords
<1>5. [m1 EXCEPT !.at = next, !.ConN = ConN2, !.status = status2] = [m2 EXCEPT !.at = next, !.status = status2]
  BY <1>1, <1>2 DEF MethodRecords
<1>6. [m1 EXCEPT !.at = next, !.ConN[n] = numbers, !.status = status2]
      = [m1 EXCEPT !.at = next, !.ConN = [ConN1 EXCEPT ![n] = numbers], !.status = status2]
  BY <1>4
<1>7. QED
  BY <1>3, <1>5, <1>6 DEF NumberedAfter, NumberedAtOnce, m1, m2, none

LEMMA PrepareStep ==
  ASSUME IInv, NEW e \in Entries, Prepare(e)
  PROVE  \E m2 : Step(e, m2)
<1> DEFINE m    == method[e]
           n    == NodesOf(m)[m.at]
           S    == StubTable'
           last == Len(connectors'[n])
<1>1. m.pc = "prepare" /\ m.at <= Len(NodesOf(m)) /\ GetConnector(n)
  BY DEF Prepare
<1>2. MethodInv(StubTable, m) /\ m \in MethodRecords
  BY EntryFacts
<1>3. n \in Nodes
  <2>1. m.at \in DOMAIN NodesOf(m)
    BY <1>1, <1>2, StageNodes, InvFields
  <2>2. QED
    BY <1>2, <2>1, StageNodes, InvFields
<1>4. PICK k \in 0 .. MaxCalls :
        LET count == Cardinality(StubsOf(connectors'[n][last]))
            node  == Started(m, n, last, <<>>, k)
        IN  \/ ~m.async_calls /\ Become(e, NextCall(node, n))
            \/ \E r \in {"no_address", "refused"} : Become(e, Returned(m, r))
            \/ /\ m.async_calls /\ (k = 0 \/ count > 0)
               /\ Become(e, [node EXCEPT !.at = @ + 1, !.ConN[n] = Fill(k, NoConn),
                                         !.status = @ \o Fill(k, "unsent")])
  BY DEF Prepare, Started
<1> HIDE DEF m, n
<1>5. /\ PoolsOK' /\ Grown(StubTable, S) /\ TableOK(S)
      /\ last \in Nat \ {0} /\ last \in DOMAIN S[n]
      /\ S[n][last] = StubsOf(connectors'[n][last])
      /\ UNCHANGED connectors \/ \E j, T : Added(j, T)
  BY <1>1, <1>3, AddressesTaken
<1> HIDE DEF S, last
<1>6. MethodInv(S, m) /\ HoldsNothing(m)
  BY <1>1, <1>2, <1>5, GrownInv, PreparingInv
<1>7. ASSUME NEW m2, Become(e, m2), MethodInv(S, m2), HoldsNothing(m2)
      PROVE  Step(e, m2)
  <2>1. KeepsHolding(m, m2)
    BY <1>6, <1>7, HoldsNothingKeeps
  <2>2. PoolStep(m, m2)
    BY <1>5, <2>1 DEF PoolStep
  <2>3. QED
    BY <1>5, <1>7, <2>2 DEF Step, m, S
<1>8. CASE ~m.async_calls /\ Become(e, NextCall(Started(m, n, last, <<>>, k), n))
  <2> DEFINE m2 == NextCall(Started(m, n, last, <<>>, k), n)
  <2>1. MethodInv(S, m2)
    BY <1>1, <1>5, <1>6, <1>8, StartedInTurn DEF n
  <2>2. m2.pc \in {"call", "prepare"}
    <3> DEFINE node == Started(m, n, last, <<>>, k)
               next == node.at + 1
    <3>1. "pc" \in DOMAIN node
      BY <1>2 DEF Started, MethodRecords, m
    <3> HIDE DEF node
    <3>2. NextCall(node, n).pc \in {"call", "prepare"}
      <4> HIDE DEF next
      <4>1. NextCall(node, n) = IF Len(node.status) < node.end[n] THEN [node EXCEPT !.pc = "call"]
                                ELSE [node EXCEPT !.pc = "prepare", !.at = next]
        BY DEF NextCall, next
      <4>2. QED
        BY <3>1, <4>1
    <3>3. QED
      BY <3>2 DEF node
  <2> HIDE DEF m2
  <2>3. HoldsNothing(m2)
    BY <2>1, <2>2 DEF MethodInv, PrepareInv, CallInv
  <2>4. QED
    BY <1>7, <1>8, <2>1, <2>3 DEF m2
<1>9. ASSUME NEW r \in {"no_address", "refused"}, Become(e, Returned(m, r))
      PROVE  \E m2 : Step(e, m2)
  <2>1. MethodInv(S, Returned(m, r))
    <3>1. r \in Results \ {"none"}
      BY DEF Results
    <3>2. QED
      BY <1>1, <1>6, <3>1, PrepareReturns DEF m
  <2>2. KeepsHolding(m, Returned(m, r))
    BY <1>2, RestKeeps DEF m
  <2>3. HoldsNothing(Returned(m, r))
    BY <1>6, <2>2 DEF KeepsHolding, HoldsNothing
  <2>4. QED
    BY <1>7, <1>9, <2>1, <2>3
<1>10. CASE /\ m.async_calls /\ (k = 0 \/ Cardinality(StubsOf(connectors'[n][last])) > 0)
            /\ Become(e, [Started(m, n, last, <<>>, k) EXCEPT !.at = @ + 1, !.ConN[n] = Fill(k, NoConn),
                                                             !.status = @ \o Fill(k, "unsent")])
  <2> DEFINE m2 == [Started(m, n, last, Fill(k, NoConn), k) EXCEPT !.at = @ + 1, !.status = @ \o Fill(k, "unsent")]
  <2>1. k = 0 \/ S[n][last] # {}
    BY <1>5, <1>10, FS_EmptySet
  <2>2. MethodInv(S, m2)
    BY <1>1, <1>5, <1>6, <1>10, <2>1, StartedTogether DEF n
  <2>3. Become(e, m2)
    <3> DEFINE node == Started(m, n, last, <<>>, k)
               node2 == Started(m, n, last, Fill(k, NoConn), k)
    <3>1. node.at = m.at /\ node.status = m.status /\ node2.at = m.at /\ node2.status = m.status
      BY <1>2 DEF Started, MethodRecords, m
    <3> DEFINE next    == m.at + 1
               status2 == m.status \o Fill(k, "unsent")
               numbers == Fill(k, NoConn)
    <3>2. Become(e, [node EXCEPT !.at = next, !.ConN[n] = numbers, !.status = status2])
      BY <1>10, <3>1
    <3> HIDE DEF next, status2, numbers
    <3>3. Become(e, [Started(m, n, last, numbers, k) EXCEPT !.at = next, !.status = status2])
      <4>1. m \in MethodRecords
        BY <1>2 DEF m
      <4>2. NumberedAfter(m, n, last, numbers, k, next, status2)
            = NumberedAtOnce(m, n, last, numbers, k, next, status2)
        BY <1>3, <4>1, StartedAgain
      <4>3. Become(e, NumberedAfter(m, n, last, numbers, k, next, status2))
        BY <3>2 DEF NumberedAfter
      <4>4. Become(e, NumberedAtOnce(m, n, last, numbers, k, next, status2))
        BY <4>2, <4>3
      <4>5. QED
        BY <4>4 DEF NumberedAtOnce
    <3>4. QED
      BY <3>1, <3>3 DEF next, status2, numbers
  <2>4. m2.pc = "prepare"
    BY <1>1, <1>2 DEF Started, MethodRecords, m
  <2> HIDE DEF m2
  <2>5. HoldsNothing(m2)
    BY <2>2, <2>4 DEF MethodInv, PrepareInv
  <2>6. QED
    BY <1>7, <2>2, <2>3, <2>5
<1>11. QED
  BY <1>4, <1>8, <1>9, <1>10

LEMMA CallStep ==
  ASSUME IInv, NEW e \in Entries, Call(e)
  PROVE  \E m2 : Step(e, m2)
<1> DEFINE m == method[e]
           n == NodesOf(m)[m.at]
<1>1. /\ m \in MethodRecords /\ MethodInv(StubTable, m) /\ m.pc = "call" /\ TableOK(StubTable)
      /\ \A k \in Nodes : DOMAIN StubTable[k] = DOMAIN connectors[k]
  BY EntryFacts DEF Call
<1>2. ASSUME NEW r \in {"refused", "cancelled", "no_address"}, Become(e, Returned(m, r)),
             UNCHANGED connectors
      PROVE  \E m2 : Step(e, m2)
  <2>1. r \in Results \ {"none"}
    BY DEF Results
  <2>2. MethodInv(StubTable, Returned(m, r)) /\ KeepsHolding(m, Returned(m, r))
    BY <1>1, <2>1, CallReturns, RestKeeps
  <2>3. QED
    BY <1>2, <2>2, StepKept
<1>3. ASSUME NEW s, TakeStub(m, n, s),
             Become(e, [m EXCEPT !.pc = "called", !.ConN[n] = Append(@, s), !.status = Append(@, "out")])
      PROVE  \E m2 : Step(e, m2)
  <2> DEFINE m2 == [m EXCEPT !.pc = "called", !.ConN[n] = Append(@, s), !.status = Append(@, "out")]
  <2>1. n \in Nodes /\ m.ConP[n] \in DOMAIN connectors[n]
    <3>1. m.ConP[n] # 0 /\ m.at <= Len(NodesOf(m))
      BY <1>1 DEF MethodInv, CallInv, InTurnInv
    <3>2. n \in Nodes
      BY <1>1, <3>1, InvFields, StageNodes
    <3>3. QED
      BY <1>1, <3>1, <3>2, InvFields DEF PoolsUsed
  <2>2. s \in StubTable[n][m.ConP[n]]
    BY <1>3, <2>1, EntryFacts, StubTaken
  <2>3. MethodInv(StubTable, m2) /\ HoldsOneMore(m, m2, n, Len(m.ConN[n]) + 1, s)
    BY <1>1, <2>2, CallMade
  <2>4. Become(e, m2)
    BY <1>3
  <2> HIDE DEF m2, n
  <2>5. Step(e, m2)
    BY <1>3, <2>1, <2>3, <2>4, StepTaken
  <2>6. QED
    BY <2>5
<1>4. \/ Become(e, Returned(m, "refused")) /\ UNCHANGED connectors
      \/ Become(e, Returned(m, "cancelled")) /\ UNCHANGED connectors
      \/ Become(e, Returned(m, "no_address")) /\ UNCHANGED connectors
      \/ \E s : /\ TakeStub(m, n, s)
                /\ Become(e, [m EXCEPT !.pc = "called", !.ConN[n] = Append(@, s), !.status = Append(@, "out")])
  BY DEF Call
<1>5. QED
  BY <1>2, <1>3, <1>4

LEMMA CalledStep ==
  ASSUME IInv, NEW e \in Entries, Called(e)
  PROVE  \E m2 : Step(e, m2)
<1> DEFINE m  == method[e]
           n  == NodesOf(m)[m.at]
           s  == m.status[Len(m.status)]
           i  == Len(m.ConN[n])
           m1 == Given(m, n, i)
           m2 == IF s = "ok" THEN NextCall(m1, n) ELSE Returned(m1, s)
<1>1. /\ m \in MethodRecords /\ MethodInv(StubTable, m) /\ m.pc = "called" /\ TableOK(StubTable)
      /\ s # "out"
  BY EntryFacts DEF Called
<1>2. GiveBack(m, n, m.ConN[n][i], s = "unavailable") /\ Become(e, m2)
  BY DEF Called, Given
<1>3. n \in Nodes /\ i \in HeldBy(m, n) /\ MethodInv(StubTable, m2)
  BY <1>1, CallGivenBack
<1> DEFINE dropped == s = "unavailable"
<1>4. dropped \in BOOLEAN /\ GiveBack(m, n, m.ConN[n][i], dropped)
  BY <1>2
<1> HIDE DEF n, i, s, dropped
<1>5. AfterGiving(StubTable, m, n, i, m1)
  BY <1>1, <1>3, InvFields, GivenFacts
<1>6. HoldsOneMore(m1, m, n, i, m.ConN[n][i]) /\ m1 \in MethodRecords
  BY <1>1, <1>3, <1>5, GivenMoves DEF AfterGiving
<1> HIDE DEF m1
<1>7. SamePools(m1, m2)
  BY <1>6, RestKept
<1>8. HoldsOneMore(m2, m, n, i, m.ConN[n][i])
  BY <1>6, <1>7, PoolsKept
<1> HIDE DEF m2
<1>9. QED
  BY <1>2, <1>3, <1>4, <1>8, StepGiven

LEMMA EndNodesStep ==
  ASSUME IInv, NEW e \in Entries, EndNodes(e)
  PROVE  \E m2 : Step(e, m2)
<1> DEFINE m  == method[e]
           Going(r) == IF m.async_calls /\ Len(m.status) > 0 THEN [m EXCEPT !.pc = "send"]
                       ELSE NextStage(m, r)
<1>0. PICK r \in Filled : Become(e, Going(r))
  BY DEF EndNodes
<1> DEFINE m2 == Going(r)
<1>1. /\ m \in MethodRecords /\ MethodInv(StubTable, m) /\ TableOK(StubTable)
      /\ m.pc = "prepare" /\ m.at > Len(NodesOf(m)) /\ Become(e, m2) /\ UNCHANGED connectors
  BY <1>0, EntryFacts DEF EndNodes
<1>2. MethodInv(StubTable, m2)
  BY <1>1, SendingStarts, NothingToSend
<1>3. SamePools(m, m2)
  <2>1. SamePools(m, [m EXCEPT !.pc = "send"])
    BY <1>1 DEF SamePools, MethodRecords
  <2>2. QED
    BY <1>1, <2>1, RestKept
<1>4. KeepsHolding(m, m2)
  BY <1>3, PoolsKept
<1>5. QED
  BY <1>1, <1>2, <1>4, StepKept

(* A call sent, whatever else the step does to the local state. *)
LEMMA SendStepPools ==
  ASSUME IInv, NEW e \in Entries, NEW n, NEW s, NEW m2, Become(e, m2),
         MethodInv(StubTable, m2), TakeStub(method[e], n, s),
         CanSend(StubTable, method[e], n, s), SamePools(SendCall(method[e], n, s), m2)
  PROVE  Step(e, m2)
<1> DEFINE m  == method[e]
           m1 == SendCall(m, n, s)
<1>1. AfterSending(StubTable, m, n, s, m1)
  BY EntryFacts, SentFacts
<1>2. HoldsOneMore(m, m1, n, m.sent[n] + 1, s)
  BY <1>1, SentMoves
<1> HIDE DEF m1
<1>3. SamePools(m1, m2)
  BY DEF m1
<1>4. HoldsOneMore(m, m2, n, m.sent[n] + 1, s)
  BY <1>2, <1>3, PoolsKept
<1>5. n \in Nodes /\ m.ConP[n] \in DOMAIN connectors[n]
  <2>1. n \in Nodes /\ m.ConP[n] # 0 /\ PoolsUsed(StubTable, m)
    BY DEF CanSend
  <2>2. QED
    BY <2>1, EntryFacts DEF PoolsUsed
<1>6. QED
  BY <1>4, <1>5, StepTaken

(* An initial call is one that was not sent yet, and there is a stub for it. *)
AfterSend(S, m1) == [m1 EXCEPT !.pc = IF UnsentOf(S, m1) = {} THEN "wait" ELSE "send"]

LEMMA SendChoice ==
  ASSUME IInv, NEW e \in Entries, Send(e)
  PROVE  \E n, s : /\ CanSend(StubTable, method[e], n, s)
                   /\ method[e].status[method[e].begin[n] + (method[e].sent[n] + 1)] = "unsent"
                   /\ TakeStub(method[e], n, s)
                   /\ Become(e, AfterSend(StubTable, SendCall(method[e], n, s)))
                   /\ MethodInv(StubTable, AfterSend(StubTable, SendCall(method[e], n, s)))
<1> DEFINE m == method[e]
           n == NodesOf(m)[Least(Unsent(m))]
<1>1. /\ m \in MethodRecords /\ MethodInv(StubTable, m) /\ TableOK(StubTable) /\ m.pc = "send"
  BY EntryFacts DEF Send
<1>2. PICK s \in StubsOf(Pool(m, n)) :
        /\ TakeStub(m, n, s)
        /\ Become(e, [SendCall(m, n, s) EXCEPT
                        !.pc = IF Unsent(SendCall(m, n, s)) = {} THEN "wait" ELSE "send"])
  BY DEF Send
<1> DEFINE m1 == SendCall(m, n, s)
           m2 == AfterSend(StubTable, m1)
<1>3. /\ EndInv(StubTable, m) /\ LoopInv(StubTable, m) /\ FieldsOK(StubTable, m)
      /\ SendInv(StubTable, m)
  BY <1>1, InvFields DEF MethodInv, SendInv, LoopInv
<1>4. Unsent(m) = UnsentOf(StubTable, m)
  BY <1>3, CountsNow
<1>5. n = NodesOf(m)[Least(UnsentOf(StubTable, m))]
  BY <1>4
<1> DEFINE p == Least(UnsentOf(StubTable, m))
<1>6. p \in UnsentOf(StubTable, m)
  <2>1. UnsentOf(StubTable, m) # {} /\ UnsentOf(StubTable, m) \in SUBSET Nat
    BY <1>1, <1>3, StageNodes, InvFields DEF SendInv, UnsentOf
  <2>2. QED
    BY <2>1, LeastIn
<1> HIDE DEF n, p
<1>7. p \in DOMAIN NodesOf(m) /\ n = NodesOf(m)[p] /\ m.sent[n] < WindowOf(StubTable, m, n)
  BY <1>5, <1>6 DEF UnsentOf, p
<1>8. /\ n \in Nodes /\ m.ConP[n] \in DOMAIN StubTable[n] /\ m.sent[n] \in Nat
      /\ m.begin[n] \in Nat /\ m.end[n] \in Nat
  BY <1>1, <1>3, <1>7, EndNodeFacts
<1>9. s \in StubTable[n][m.ConP[n]]
  BY <1>2, <1>8, EntryFacts, StubTaken
<1>10. MethodInv(StubTable, m2)
  BY <1>1, <1>5, <1>9, InitialCallSent DEF AfterSend
<1>11. CanSend(StubTable, m, n, s) /\ m.status[m.begin[n] + (m.sent[n] + 1)] = "unsent"
  <2>1. m.sent[n] < m.end[n] - m.begin[n] /\ Cardinality(HeldBy(m, n)) < Cardinality(StubTable[n][m.ConP[n]])
    <3> DEFINE w == WindowOf(StubTable, m, n)
               c == Cardinality(StubTable[n][m.ConP[n]])
               h == Cardinality(HeldBy(m, n))
               t == m.sent[n]
               r == m.end[n] - m.begin[n]
    <3>1. w \in Nat /\ w <= c /\ w <= r
      BY <1>1, <1>3, <1>7, WindowFacts
    <3>2. h <= t /\ t < w
      BY <1>1, <1>3, <1>7, HeldWereSent
    <3>3. c \in Nat /\ h \in Nat /\ t \in Nat /\ r \in Int
      BY <1>1, <1>8, TableFacts, HeldFinite
    <3> HIDE DEF w, c, h, t, r
    <3>4. h < c /\ t < r
      BY <3>1, <3>2, <3>3
    <3>5. QED
      BY <3>4 DEF c, h, t, r
  <2>2. QED
    BY <1>1, <1>3, <1>7, <1>9, <2>1, MaySend
<1>12. AfterSending(StubTable, m, n, s, m1)
  BY <1>1, <1>11, SentFacts
<1> HIDE DEF m1
<1>13. m1 \in MethodRecords /\ SameRanges(m, m1)
  BY <1>12 DEF AfterSending
<1>14. Unsent(m1) = UnsentOf(StubTable, m1)
  BY <1>3, <1>13, CountsNow DEF SameRanges
<1>15. Become(e, m2)
  BY <1>2, <1>14 DEF m1, AfterSend
<1>16. QED
  BY <1>2, <1>10, <1>11, <1>15 DEF m1

LEMMA SendStep ==
  ASSUME IInv, NEW e \in Entries, Send(e)
  PROVE  \E m2 : Step(e, m2)
<1> DEFINE m == method[e]
<1>1. PICK n, s : /\ CanSend(StubTable, m, n, s) /\ TakeStub(m, n, s)
                  /\ Become(e, AfterSend(StubTable, SendCall(m, n, s)))
                  /\ MethodInv(StubTable, AfterSend(StubTable, SendCall(m, n, s)))
  BY SendChoice
<1> DEFINE m1 == SendCall(m, n, s)
           m2 == AfterSend(StubTable, m1)
<1>2. m1 \in MethodRecords
  BY <1>1, EntryFacts, SentFacts DEF AfterSending
<1>3. SamePools(m1, m2)
  <2> HIDE DEF m1
  <2>1. QED
    BY <1>2 DEF SamePools, MethodRecords, AfterSend
<1> HIDE DEF m2
<1>4. Step(e, m2)
  BY <1>1, <1>3, SendStepPools DEF m2
<1>5. QED
  BY <1>4

LEMMA WakeStep ==
  ASSUME IInv, NEW e \in Entries, Wake(e)
  PROVE  \E m2 : Step(e, m2)
<1> DEFINE m == method[e]
<1>1. /\ m \in MethodRecords /\ MethodInv(StubTable, m) /\ TableOK(StubTable) /\ m.pc = "wait"
  BY EntryFacts DEF Wake
<1>2. PICK X \in m.queue :
        LET n == NodeOf(m, X)
            i == X - m.begin[n]
        IN  \/ /\ m.cancelled
               /\ Become(e, [m EXCEPT !.pc = "drain", !.abort = "cancelled", !.queue = @ \ {X}])
               /\ UNCHANGED connectors
            \/ /\ ~m.cancelled
               /\ GiveBack(m, n, m.ConN[n][i], m.status[X] = "unavailable")
               /\ Become(e, [m EXCEPT !.pc = "event", !.event = X,
                                      !.queue = @ \ {X}, !.ConN[n][i] = NoConn])
  BY DEF Wake
<1> DEFINE n  == NodeOf(m, X)
           i  == X - m.begin[n]
           m1 == Given(m, n, i)
           m2 == [m EXCEPT !.pc = "event", !.event = X, !.queue = @ \ {X}, !.ConN[n][i] = NoConn]
           m3 == [m EXCEPT !.pc = "drain", !.abort = "cancelled", !.queue = m.queue \ {X}]
<1>3. CASE m.cancelled /\ Become(e, m3) /\ UNCHANGED connectors
  <2>1. MethodInv(StubTable, m3)
    BY <1>1, <1>3, StageCancelled
  <2>2. SamePools(m, m3)
    BY <1>1 DEF SamePools, MethodRecords
  <2>3. KeepsHolding(m, m3)
    BY <2>2, PoolsKept
  <2>4. QED
    BY <1>3, <2>1, <2>3, StepKept
<1>4. CASE /\ GiveBack(m, n, m.ConN[n][i], m.status[X] = "unavailable") /\ Become(e, m2)
  <2>1. n \in Nodes /\ i \in HeldBy(m, n) /\ MethodInv(StubTable, m2)
    BY <1>1, EventTaken
  <2> HIDE DEF n, i
  <2>2. AfterGiving(StubTable, m, n, i, m1)
    BY <1>1, <2>1, InvFields, GivenFacts
  <2>3. HoldsOneMore(m1, m, n, i, m.ConN[n][i]) /\ m1.ConN = [m.ConN EXCEPT ![n] = [m.ConN[n] EXCEPT ![i] = NoConn]]
        /\ m1 = [m EXCEPT !.ConN = m1.ConN]
    BY <1>1, <2>1, <2>2, GivenMoves DEF AfterGiving
  <2> DEFINE ConN2 == [m.ConN EXCEPT ![n] = [m.ConN[n] EXCEPT ![i] = NoConn]]
             queue2 == m.queue \ {X}
  <2>4. m2 = [m EXCEPT !.pc = "event", !.event = X, !.queue = queue2, !.ConN = ConN2]
    BY <1>1 DEF MethodRecords
  <2> HIDE DEF m1, m2, ConN2, queue2
  <2>5. m1 = [m EXCEPT !.ConN = ConN2]
    BY <2>3 DEF ConN2
  <2>6. SamePools(m1, m2)
    BY <1>1, <2>4, <2>5 DEF SamePools, MethodRecords
  <2>7. HoldsOneMore(m2, m, n, i, m.ConN[n][i])
    BY <2>3, <2>6, PoolsKept
  <2>8. (m.status[X] = "unavailable") \in BOOLEAN
    OBVIOUS
  <2>9. QED
    BY <1>4, <2>1, <2>7, <2>8, StepGiven
<1>5. QED
  BY <1>2, <1>3, <1>4

(* The next call of the node of an event was not sent yet, and the connector
   has a stub for it. *)
LEMMA NextCallChoice ==
  ASSUME IInv, NEW e \in Entries, method[e].pc = "event",
         NEW n, n = NodeOf(method[e], method[e].event), MoreToSend(method[e], n),
         NEW s, TakeStub(method[e], n, s)
  PROVE  /\ CanSend(StubTable, method[e], n, s)
         /\ method[e].status[method[e].begin[n] + (method[e].sent[n] + 1)] = "unsent"
         /\ MethodInv(StubTable, Handled(SendCall(method[e], n, s)))
<1> DEFINE m == method[e]
<1>1. /\ m \in MethodRecords /\ MethodInv(StubTable, m) /\ TableOK(StubTable)
  BY EntryFacts
<1>2. /\ n \in Nodes /\ m.ConP[n] \in DOMAIN StubTable[n]
      /\ \A t \in StubTable[n][m.ConP[n]] : MethodInv(StubTable, Handled(SendCall(m, n, t)))
  BY <1>1, EventHandled
<1>3. s \in StubTable[n][m.ConP[n]]
  BY <1>2, EntryFacts, StubTaken
<1>4. /\ LoopInv(StubTable, m) /\ m.event \in DOMAIN m.status /\ EndInv(StubTable, m)
      /\ FieldsOK(StubTable, m)
      /\ Cardinality(HeldBy(m, n)) < Cardinality(StubTable[n][m.ConP[n]])
  BY <1>1, InvFields DEF MethodInv, EventInv, LoopInv, Taken
<1>5. PICK p \in DOMAIN NodesOf(m) : n = NodesOf(m)[p]
  BY <1>1, <1>4, NumberedCall
<1>6. m.sent[n] < m.end[n] - m.begin[n]
  <2> DEFINE b == m.begin[n]
             z == m.end[n]
             t == m.sent[n]
  <2>1. b \in Nat /\ z \in Nat /\ t \in Nat /\ b + t <= z /\ t # z - b
    BY <1>1, <1>4, <1>5, EndNodeFacts DEF MoreToSend
  <2> HIDE DEF b, z, t
  <2>2. t < z - b
    BY <2>1
  <2>3. QED
    BY <2>2 DEF b, z, t
<1>7. QED
  BY <1>1, <1>2, <1>3, <1>4, <1>5, <1>6, MaySend

LEMMA HandleEventStep ==
  ASSUME IInv, NEW e \in Entries, HandleEvent(e)
  PROVE  \E m2 : Step(e, m2)
<1> DEFINE m == method[e]
           n == NodeOf(m, m.event)
<1>1. /\ m \in MethodRecords /\ MethodInv(StubTable, m) /\ TableOK(StubTable) /\ m.pc = "event"
  BY EntryFacts DEF HandleEvent
<1>2. \/ ~MoreToSend(m, n) /\ Become(e, Handled(m)) /\ UNCHANGED connectors
      \/ /\ MoreToSend(m, n)
         /\ \E s \in StubsOf(Pool(m, n)) : TakeStub(m, n, s) /\ Become(e, Handled(SendCall(m, n, s)))
  BY DEF HandleEvent
<1>3. ~MoreToSend(m, n) => MethodInv(StubTable, Handled(m))
  BY <1>1, EventHandled
<1>4. CASE ~MoreToSend(m, n) /\ Become(e, Handled(m)) /\ UNCHANGED connectors
  BY <1>1, <1>3, <1>4, RestKeeps, StepKept
<1>5. ASSUME MoreToSend(m, n), NEW s, TakeStub(m, n, s), Become(e, Handled(SendCall(m, n, s)))
      PROVE  \E m2 : Step(e, m2)
  <2> DEFINE m1 == SendCall(m, n, s)
             m2 == Handled(m1)
  <2> HIDE DEF n
  <2>1. CanSend(StubTable, m, n, s) /\ MethodInv(StubTable, m2)
    BY <1>1, <1>5, NextCallChoice DEF n
  <2>2. m1 \in MethodRecords
    BY <1>1, <2>1, SentFacts DEF AfterSending
  <2>3. SamePools(m1, m2)
    BY <2>2, RestKept
  <2>4. Become(e, m2)
    BY <1>5
  <2> HIDE DEF m2
  <2>5. Step(e, m2)
    BY <1>5, <2>1, <2>3, <2>4, SendStepPools
  <2>6. QED
    BY <2>5
<1>6. QED
  BY <1>2, <1>4, <1>5

LEMMA TimeoutStep ==
  ASSUME IInv, NEW e \in Entries, Timeout(e)
  PROVE  \E m2 : Step(e, m2)
<1> DEFINE m  == method[e]
           m2 == [m EXCEPT !.pc = "drain", !.abort = "cancelled"]
           m3 == [m EXCEPT !.pc = "drain", !.abort = "cancelled", !.queue = m.queue]
<1>1. /\ m \in MethodRecords /\ MethodInv(StubTable, m) /\ m.pc = "wait" /\ m.expired
      /\ Become(e, m2) /\ UNCHANGED connectors
  BY EntryFacts DEF Timeout
<1>2. m3 = m2
  BY <1>1 DEF MethodRecords
<1>3. MethodInv(StubTable, m3)
  BY <1>1, StageCancelled
<1>4. SamePools(m, m2)
  BY <1>1 DEF SamePools, MethodRecords
<1>5. KeepsHolding(m, m2)
  BY <1>4, PoolsKept
<1> HIDE DEF m2, m3
<1>6. QED
  BY <1>1, <1>2, <1>3, <1>5, StepKept

LEMMA CloseQueueStep ==
  ASSUME IInv, NEW e \in Entries, CloseQueue(e)
  PROVE  \E m2 : Step(e, m2)
<1> DEFINE m  == method[e]
           m1 == [m EXCEPT !.queue = {}]
           Going(r) == IF m1.abort = "none" THEN NextStage(m1, r)
                       ELSE IF Held(m1) = {} THEN Returned(m1, m1.abort)
                       ELSE [m1 EXCEPT !.pc = "release"]
<1>0. PICK r \in Filled : Become(e, Going(r))
  BY DEF CloseQueue
<1> DEFINE m2 == Going(r)
<1>1. /\ m \in MethodRecords /\ MethodInv(StubTable, m) /\ TableOK(StubTable) /\ m.pc = "drain"
      /\ AllEnded(m1) /\ Become(e, m2) /\ UNCHANGED connectors
  BY <1>0, EntryFacts DEF CloseQueue
<1>2. MethodInv(StubTable, m2)
  BY <1>1, QueueClosed
<1>3. SamePools(m, m1) /\ m1 \in MethodRecords
  BY <1>1 DEF SamePools, MethodRecords
<1> HIDE DEF m1
<1>4. SamePools(m1, m2)
  <2>1. SamePools(m1, [m1 EXCEPT !.pc = "release"])
    BY <1>3 DEF SamePools, MethodRecords
  <2>2. QED
    BY <1>3, <2>1, RestKept
<1>5. SamePools(m, m2)
  BY <1>3, <1>4 DEF SamePools
<1>6. KeepsHolding(m, m2)
  BY <1>5, PoolsKept
<1> HIDE DEF m2
<1>7. QED
  BY <1>1, <1>2, <1>6, StepKept

LEMMA ReleaseStep ==
  ASSUME IInv, NEW e \in Entries, Release(e)
  PROVE  \E m2 : Step(e, m2)
<1> DEFINE m  == method[e]
           X  == Least(Held(m))
           n  == NodeOf(m, X)
           i  == X - m.begin[n]
           m1 == Given(m, n, i)
           m2 == IF Held(m1) = {} THEN Returned(m1, m.abort) ELSE m1
           m3 == IF Held(m1) = {} THEN Returned(m1, m1.abort) ELSE m1
<1>1. /\ m \in MethodRecords /\ MethodInv(StubTable, m) /\ TableOK(StubTable) /\ m.pc = "release"
      /\ PoolsUsed(StubTable, m)
  BY EntryFacts, InvFields DEF Release
<1>2. GiveBack(m, n, m.ConN[n][i], FALSE) /\ Become(e, m2)
  BY DEF Release, Given
<1>3. n \in Nodes /\ i \in HeldBy(m, n) /\ MethodInv(StubTable, m3)
  BY <1>1, CallReleased
<1> HIDE DEF X, n, i
<1>4. AfterGiving(StubTable, m, n, i, m1)
  BY <1>1, <1>3, GivenFacts
<1>5. HoldsOneMore(m1, m, n, i, m.ConN[n][i]) /\ m1 \in MethodRecords /\ m1.abort = m.abort
  BY <1>1, <1>3, <1>4, GivenMoves DEF AfterGiving
<1>6. m3 = m2
  BY <1>5
<1> HIDE DEF m1
<1>7. SamePools(m1, m2)
  BY <1>5, RestKept DEF SamePools
<1>8. HoldsOneMore(m2, m, n, i, m.ConN[n][i])
  BY <1>5, <1>7, PoolsKept
<1> HIDE DEF m2, m3
<1>9. QED
  BY <1>2, <1>3, <1>6, <1>8, StepGiven

LEMMA CompleteStep ==
  ASSUME IInv, NEW e \in Entries, Complete(e)
  PROVE  \E m2 : Step(e, m2)
<1> DEFINE m == method[e]
<1>1. /\ m \in MethodRecords /\ MethodInv(StubTable, m) /\ TableOK(StubTable) /\ UNCHANGED connectors
  BY EntryFacts DEF Complete
<1>2. PICK x \in DOMAIN m.status, s \in Ended :
        /\ m.status[x] = "out"
        /\ Become(e, [m EXCEPT !.status[x] = s,
                               !.queue = IF m.async_calls THEN @ \union {x} ELSE @])
  BY DEF Complete
<1> DEFINE m2 == [m EXCEPT !.status[x] = s, !.queue = IF m.async_calls THEN @ \union {x} ELSE @]
<1>3. MethodInv(StubTable, m2)
  BY <1>1, <1>2, CallEnded
<1>4. SamePools(m, m2)
  BY <1>1 DEF SamePools, MethodRecords
<1>5. KeepsHolding(m, m2)
  BY <1>4, PoolsKept
<1>6. Become(e, m2)
  BY <1>2
<1> HIDE DEF m2
<1>7. Step(e, m2)
  BY <1>1, <1>3, <1>5, <1>6, StepKept
<1>8. QED
  BY <1>7

LEMMA InterruptedStep ==
  ASSUME IInv, NEW e \in Entries, Cancel(e) \/ Expire(e)
  PROVE  \E m2 : Step(e, m2)
<1> DEFINE m == method[e]
<1>1. /\ m \in MethodRecords /\ MethodInv(StubTable, m) /\ UNCHANGED connectors
  BY EntryFacts DEF Cancel, Expire
<1>2. PICK m2 : /\ Become(e, m2)
                /\ m2 = [m EXCEPT !.cancelled = TRUE] \/ m2 = [m EXCEPT !.expired = TRUE]
  BY DEF Cancel, Expire
<1>3. m2 \in MethodRecords /\ SamePools(m, m2)
  <2>1. CASE m2 = [m EXCEPT !.cancelled = TRUE]
    BY <1>1, <2>1 DEF SamePools, MethodRecords
  <2>2. CASE m2 = [m EXCEPT !.expired = TRUE]
    BY <1>1, <2>2 DEF SamePools, MethodRecords
  <2>3. QED
    BY <1>2, <2>1, <2>2
<1>4. MethodInv(StubTable, m2) /\ KeepsHolding(m, m2)
  BY <1>1, <1>2, <1>3, Interrupted, PoolsKept
<1>5. Step(e, m2)
  BY <1>1, <1>2, <1>4, StepKept
<1>6. QED
  BY <1>5

LEMMA EveryStep ==
  ASSUME IInv, Next
  PROVE  \E e \in Entries : \E m2 : Step(e, m2)
<1>1. PICK e \in Entries : Thread(e) \/ Complete(e) \/ Cancel(e) \/ Expire(e)
  BY DEF Next
<1>2. CASE ErrorCheck(e) \/ Prepare(e) \/ Call(e) \/ Called(e)
  BY <1>2, ErrorCheckStep, PrepareStep, CallStep, CalledStep
<1>3. CASE EndNodes(e) \/ Send(e) \/ Wake(e) \/ HandleEvent(e)
  BY <1>3, EndNodesStep, SendStep, WakeStep, HandleEventStep
<1>4. CASE Timeout(e) \/ CloseQueue(e) \/ Release(e)
  BY <1>4, TimeoutStep, CloseQueueStep, ReleaseStep
<1>5. CASE Complete(e) \/ Cancel(e) \/ Expire(e)
  BY <1>5, CompleteStep, InterruptedStep
<1>6. QED
  BY <1>1, <1>2, <1>3, <1>4, <1>5 DEF Thread

-----------------------------------------------------------------------------
(* The invariant holds. *)

LEMMA StepInv ==
  ASSUME IInv, NEW e \in Entries, NEW m2, Step(e, m2)
  PROVE  IInv'
<1>1. /\ method' = [method EXCEPT ![e] = m2] /\ MethodInv(StubTable', m2) /\ PoolsOK'
      /\ Grown(StubTable, StubTable') /\ method \in [Entries -> MethodRecords]
  BY DEF Step, Become, IInv
<1>2. m2 \in MethodRecords
  BY <1>1, InvFields
<1>3. method' \in [Entries -> MethodRecords]
  BY <1>1, <1>2
<1>4. ASSUME NEW f \in Entries PROVE MethodInv(StubTable', method'[f])
  <2>1. CASE f = e
    BY <1>1, <2>1
  <2>2. CASE f # e
    <3>1. method'[f] = method[f] /\ MethodInv(StubTable, method[f])
      BY <1>1, <2>2 DEF IInv
    <3>2. QED
      BY <1>1, <3>1, GrownInv
  <2>3. QED
    BY <2>1, <2>2
<1>5. QED
  BY <1>1, <1>3, <1>4 DEF IInv

LEMMA SingleConnector ==
  ASSUME NEW n \in Nodes, NEW T \in StubSets[n]
  PROVE  /\ <<NewConnector(T)>> \in Seq(ConnectorRecords) /\ Len(<<NewConnector(T)>>) = 1
         /\ <<NewConnector(T)>>[1] = NewConnector(T) /\ StubsOf(NewConnector(T)) = T
<1> DEFINE c == NewConnector(T)
<1>1. c \in ConnectorRecords /\ StubsOf(c) = T
  <2>1. [s \in T |-> 0] \in [T -> Int] /\ 0 \in Int /\ T \in UNION {StubSets[k] : k \in Nodes}
    OBVIOUS
  <2>2. QED
    BY <2>1, MakeRecord DEF NewConnector
<1> HIDE DEF c
<1>2. <<c>> \in Seq(ConnectorRecords) /\ Len(<<c>>) = 1 /\ <<c>>[1] = c
  BY <1>1
<1>3. QED
  BY <1>1, <1>2 DEF c

LEMMA InitPools == Init => PoolsOK
<1> SUFFICES ASSUME Init PROVE PoolsOK
  OBVIOUS
<1>1. /\ connectors \in [Nodes -> {<<NewConnector(S)>> : S \in UNION {StubSets[n] : n \in Nodes}}]
      /\ \A n \in Nodes : StubsOf(connectors[n][1]) \in StubSets[n]
  BY DEF Init
<1>2. ASSUME NEW n \in Nodes
      PROVE  /\ connectors[n] \in Seq(ConnectorRecords) /\ Len(connectors[n]) = 1
  <2>1. PICK T \in UNION {StubSets[k] : k \in Nodes} : connectors[n] = <<NewConnector(T)>>
    BY <1>1
  <2>2. QED
    BY <2>1, SingleConnector
<1>3. connectors \in [Nodes -> Seq(ConnectorRecords)]
  BY <1>1, <1>2
<1>4. \A n \in Nodes : DOMAIN connectors[n] = {1}
  BY <1>2
<1>5. QED
  BY <1>1, <1>2, <1>3, <1>4 DEF PoolsOK

LEMMA InitMethod ==
  ASSUME NEW S, TableOK(S), NEW async \in BOOLEAN
  PROVE  /\ InitialMethod(async) \in MethodRecords
         /\ MethodInv(S, InitialMethod(async))
<1> DEFINE m    == InitialMethod(async)
           none == <<>>
<1>1. /\ none \in Seq(CallStates) /\ none \in Seq(Stubs \union {NoConn})
      /\ Len(none) = 0 /\ DOMAIN none = {}
  OBVIOUS
<1> HIDE DEF none
<1>2. m \in MethodRecords
  BY <1>1 DEF InitialMethod, MethodRecords, States, Results, none
<1>3. /\ m.pc = "prepare" /\ m.async_calls = async /\ m.stage = 1 /\ m.at = 1
      /\ \A n \in Nodes : m.ConP[n] = 0 /\ m.begin[n] = 0 /\ m.end[n] = 0 /\ m.sent[n] = 0
                          /\ m.ConN[n] = none
      /\ m.status = none /\ m.queue = {} /\ m.recv = 0 /\ m.abort = "none" /\ m.result = "none"
  BY DEF InitialMethod, none
<1> HIDE DEF m
<1>4. Placed(m)
  <2>1. m.stage \in DOMAIN stages
    BY <1>3, StagesAssumption
  <2>2. m.at \in 1 .. Len(NodesOf(m)) + 1
    BY <1>3, <2>1, StageNodes
  <2>3. QED
    BY <1>1, <1>2, <1>3, <2>1, <2>2 DEF Placed
<1>5. \A n \in Nodes : HeldBy(m, n) = {}
  BY <1>1, <1>3 DEF HeldBy
<1>6. PoolsUsed(S, m)
  BY <1>1, <1>3, <1>5, BoundsAssumption DEF PoolsUsed
<1>7. PrepareInv(S, m)
  <2>1. Numbered(S, m)
    BY <1>1, <1>3 DEF Numbered
  <2>2. \A X \in DOMAIN m.status : FALSE
    BY <1>1, <1>3
  <2>3. QED
    BY <1>3, <1>5, <2>1, <2>2 DEF PrepareInv, HoldsNothing, NothingSent, AllOk
<1>8. MethodInv(S, m)
  BY <1>3, <1>4, <1>6, <1>7 DEF FieldsOK, MethodInv
<1>9. QED
  BY <1>2, <1>8 DEF m

LEMMA InitIInv == Init => IInv
<1> SUFFICES ASSUME Init PROVE IInv
  OBVIOUS
<1>1. PoolsOK
  BY InitPools
<1>2. TableOK(StubTable)
  BY <1>1, TableNow
<1>3. method \in [Entries -> {InitialMethod(async) : async \in BOOLEAN}]
  BY DEF Init
<1>4. \A e \in Entries : method[e] \in MethodRecords /\ MethodInv(StubTable, method[e])
  <2> SUFFICES ASSUME NEW e \in Entries
               PROVE  method[e] \in MethodRecords /\ MethodInv(StubTable, method[e])
    OBVIOUS
  <2>1. PICK async \in BOOLEAN : method[e] = InitialMethod(async)
    BY <1>3
  <2>2. QED
    BY <1>2, <2>1, InitMethod
<1>5. QED
  BY <1>1, <1>3, <1>4 DEF IInv

LEMMA NextIInv == IInv /\ [Next]_vars => IInv'
<1> SUFFICES ASSUME IInv, [Next]_vars PROVE IInv'
  OBVIOUS
<1>1. CASE Next
  BY <1>1, EveryStep, StepInv
<1>2. CASE UNCHANGED vars
  <2>1. connectors' = connectors /\ method' = method
    BY <1>2 DEF vars
  <2>2. StubTable' = StubTable
    BY <2>1 DEF StubTable
  <2>3. QED
    BY <2>1, <2>2 DEF IInv, PoolsOK
<1>3. QED
  BY <1>1, <1>2

(* The invariant holds for any number of requests, nodes, stages and calls. *)
THEOREM IInvHolds == Spec => []IInv
  BY InitIInv, NextIInv, PTL DEF Spec
=============================================================================
