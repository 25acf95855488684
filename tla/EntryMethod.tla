---------------------------- MODULE EntryMethod -----------------------------
(***************************************************************************)
(* A generated entry method (the code gc-server.C writes for BSTG, BERC,   *)
(* BNOD, CALL, ENOD and ESTG, with X_prep() and X_call() of                *)
(* template.server.C), as run by the server threads for several requests   *)
(* at a time.  The method goes through its stages; in each it first runs   *)
(* the stage's error checks, then the nodes one by one: a node takes its   *)
(* connector and its calls are made one after the other (X_call) or are    *)
(* numbered and, at the end of the stage, sent together, at most count()   *)
(* of a node at a time, on a completion queue shared by the stage.         *)
(*                                                                         *)
(* What threads share is the connectors; the method of a connector runs    *)
(* under a mutex and is one step (ConnectorOps).  A step here is one       *)
(* connector method and the local work around it.  An address change       *)
(* replaces the connector of a node: connectors[n] lists all there have    *)
(* been, the last is X_conp, and a method keeps the one it took in ConP.   *)
(***************************************************************************)
EXTENDS ConnectorOps, Sequences, FiniteSets

CONSTANTS
  Entries,              \* the requests being served
  Nodes,                \* the nodes that make calls
  stages,               \* the nodes of every stage, in source order
  StubSets,             \* the sets of stubs a connector of a node can have
  accumulate_addresses, \* configuration: connectors drop failing stubs
  MaxCalls,             \* bound: calls a node makes, the size of its inputs
  MaxConnectors         \* bound: connectors a node goes through

ASSUME StagesAssumption ==
  /\ Len(stages) \in Nat \ {0} /\ DOMAIN stages = 1 .. Len(stages)
  /\ \A s \in DOMAIN stages :
       /\ Len(stages[s]) \in Nat /\ stages[s] \in [1 .. Len(stages[s]) -> Nodes]
       /\ \A p, q \in DOMAIN stages[s] : stages[s][p] = stages[s][q] => p = q
ASSUME StubSetsAssumption ==
  /\ DOMAIN StubSets = Nodes
  /\ \A n \in Nodes : \A S \in StubSets[n] : IsFiniteSet(S) /\ NoConn \notin S
ASSUME EntriesAssumption == IsFiniteSet(Entries)
ASSUME ConfigurationAssumption == accumulate_addresses \in BOOLEAN
ASSUME BoundsAssumption == MaxCalls \in Nat /\ MaxConnectors \in Nat \ {0}

VARIABLES
  connectors,  \* node -> its connectors so far, the last one is X_conp
  method       \* entry -> the local state of its thread
vars == <<connectors, method>>

(***************************************************************************)
(* The local state of a thread.  By node: ConP, the connector it took; BX  *)
(* (begin) and EX (end), the calls numbered before and up to this node;    *)
(* SENT (sent); ConN, the connection number of every call.  By call: its   *)
(* state (status), which is L_STATUS once it ended.  Of the stage: the     *)
(* completion queue with the ended calls, the tag X it was woken up with   *)
(* (event), the number of events handled (recv) and abort_status, "none"   *)
(* until abort_stage is set.  Of the request: whether it was cancelled and *)
(* whether its deadline expired.                                           *)
(***************************************************************************)
InitialMethod(async) ==
  [pc |-> "prepare", async_calls |-> async, stage |-> 1, at |-> 1,
   ConP |-> [n \in Nodes |-> 0], begin |-> [n \in Nodes |-> 0],
   end |-> [n \in Nodes |-> 0], sent |-> [n \in Nodes |-> 0],
   ConN |-> [n \in Nodes |-> <<>>], status |-> <<>>,
   queue |-> {}, event |-> 0, recv |-> 0, abort |-> "none",
   cancelled |-> FALSE, expired |-> FALSE, result |-> "none"]

Init ==
  /\ connectors \in [Nodes -> {<<NewConnector(S)>> : S \in UNION {StubSets[n] : n \in Nodes}}]
  /\ \A n \in Nodes : StubsOf(connectors[n][1]) \in StubSets[n]
  /\ method \in [Entries -> {InitialMethod(async) : async \in BOOLEAN}]

Failures == {"unavailable", "error"}
Ended    == Failures \union {"ok"}

Become(e, m)   == method' = [method EXCEPT ![e] = m]
Returned(m, r) == [m EXCEPT !.pc = "done", !.result = r]
Fill(k, v)     == [i \in 1 .. k |-> v]
Least(S)       == CHOOSE p \in S : \A q \in S : p <= q
NodesOf(m)     == stages[m.stage]

(* A bug the checks must notice: the node's current connector is used. *)
CurrentConnector(m, n) == Len(connectors[n])

(* X_ConP *)
Connector(m, n) == m.ConP[n]
Pool(m, n)      == connectors[n][Connector(m, n)]
Count(m, n)     == Cardinality(StubsOf(Pool(m, n)))

(* ConP->stub(): s is taken. *)
TakeStub(m, n, s) ==
  /\ s \in LeastActive(Pool(m, n))
  /\ connectors' = [connectors EXCEPT ![n][Connector(m, n)] = Allocate(@, s)]

(* ConP->finished(): a negative connection number is ignored. *)
GiveBack(m, n, s, in_error) ==
  connectors' =
    IF s = NoConn THEN connectors
    ELSE [connectors EXCEPT ![n][Connector(m, n)] =
            Finish(@, s, Drops(s, in_error, accumulate_addresses))]

(* X_get_connector(): the current connector, or a new one that replaces it
   because the addresses of the node changed. *)
GetConnector(n) ==
  \/ UNCHANGED connectors
  \/ /\ Len(connectors[n]) < MaxConnectors
     /\ \E S \in StubSets[n] :
          connectors' = [connectors EXCEPT ![n] = Append(@, NewConnector(S))]

(* What becomes of a message that is filled in, a node's input or the reply:
   SETE refuses a value that an enum does not have. *)
Filled == {"ok", "refused"}

(* After ESTG: the vectors of the stage are emptied and the next one starts,
   or the reply is filled in and the method returns r. *)
NextStage(m, r) ==
  IF m.stage = Len(stages) THEN Returned(m, r)
  ELSE [m EXCEPT !.pc = "prepare", !.stage = @ + 1, !.at = 1,
                 !.status = <<>>, !.event = 0, !.recv = 0]

-----------------------------------------------------------------------------
(* BERC: an error check at the beginning of a stage fails. *)
ErrorCheck(e) ==
  /\ method[e].pc = "prepare" /\ method[e].at = 1
  /\ Become(e, Returned(method[e], "refused"))
  /\ UNCHANGED connectors

(* The calls of a node that are made one by one: the next one, or none. *)
NextCall(m, n) ==
  IF Len(m.status) < m.end[n] THEN [m EXCEPT !.pc = "call"]
  ELSE [m EXCEPT !.pc = "prepare", !.at = @ + 1]

(* BNOD: the node takes its connector.  Its loops then fill in the input and
   run CALL k times; the overlapped calls are numbered, and refused when there
   is no stub.  A value an input cannot have ends the request. *)
Prepare(e) ==
  LET m == method[e]
      n == NodesOf(m)[m.at]
  IN  /\ m.pc = "prepare" /\ m.at <= Len(NodesOf(m))
      /\ GetConnector(n)
      /\ \E k \in 0 .. MaxCalls :
           LET last  == Len(connectors'[n])
               count == Cardinality(StubsOf(connectors'[n][last]))
               node  == [m EXCEPT !.ConP[n] = last, !.sent[n] = 0, !.ConN[n] = <<>>,
                                  !.begin[n] = Len(m.status),
                                  !.end[n] = Len(m.status) + k]
           IN  \/ ~m.async_calls /\ Become(e, NextCall(node, n))
               \/ /\ m.async_calls /\ k > 0 /\ count = 0
                  /\ Become(e, Returned(m, "no_address"))
               \/ m.async_calls /\ k > 0 /\ Become(e, Returned(m, "refused"))
               \/ /\ m.async_calls /\ (k = 0 \/ count > 0)
                  /\ Become(e, [node EXCEPT !.at = @ + 1,
                                            !.ConN[n] = Fill(k, NoConn),
                                            !.status = @ \o Fill(k, "unsent")])

(* The input is filled in, then CALL, not overlapped, and X_call() up to the
   RPC. *)
Call(e) ==
  LET m == method[e]
      n == NodesOf(m)[m.at]
  IN  /\ m.pc = "call"
      /\ \/ /\ Become(e, Returned(m, "refused"))
            /\ UNCHANGED connectors
         \/ /\ m.cancelled
            /\ Become(e, Returned(m, "cancelled"))
            /\ UNCHANGED connectors
         \/ /\ ~m.cancelled /\ Count(m, n) = 0
            /\ Become(e, Returned(m, "no_address"))
            /\ UNCHANGED connectors
         \/ /\ ~m.cancelled
            /\ \E s \in StubsOf(Pool(m, n)) :
                 /\ TakeStub(m, n, s)
                 /\ Become(e, [m EXCEPT !.pc = "called",
                                        !.ConN[n] = Append(@, s),
                                        !.status = Append(@, "out")])

(* X_call() after the RPC: the connection is given back, an error returned. *)
Called(e) ==
  LET m == method[e]
      n == NodesOf(m)[m.at]
      s == m.status[Len(m.status)]
      i == Len(m.ConN[n])
      given == [m EXCEPT !.ConN[n][i] = NoConn]
  IN  /\ m.pc = "called" /\ s # "out"
      /\ GiveBack(m, n, m.ConN[n][i], s = "unavailable")
      /\ Become(e, IF s = "ok" THEN NextCall(given, n) ELSE Returned(given, s))

-----------------------------------------------------------------------------
(* ESTG. *)

(* A bug the checks must notice: all the calls of a node are sent at once. *)
NoWindow(m, n) == m.end[n] - m.begin[n]

(* How many calls of the node are sent before the first answer. *)
Window(m, n) ==
  LET calls == m.end[n] - m.begin[n]
  IN  IF calls < Count(m, n) THEN calls ELSE Count(m, n)

(* The positions of the nodes that still have initial calls to send. *)
Unsent(m) == {p \in DOMAIN NodesOf(m) : m.sent[NodesOf(m)[p]] < Window(m, NodesOf(m)[p])}

(* A bug the checks must notice: the tag is the index in the node. *)
SendCallUnshifted(m, n, s) ==
  LET i == m.sent[n] + 1
  IN  [m EXCEPT !.ConN[n][i] = s, !.status[i] = "out", !.sent[n] = i]

(* X_prep(), StartCall() and Finish() of the next call of a node. *)
SendCall(m, n, s) ==
  LET i == m.sent[n] + 1
  IN  [m EXCEPT !.ConN[n][i] = s, !.status[m.begin[n] + i] = "out", !.sent[n] = i]

(* All nodes are prepared: nothing is to be sent, or sending begins. *)
EndNodes(e) ==
  LET m == method[e]
  IN  /\ m.pc = "prepare" /\ m.at > Len(NodesOf(m))
      /\ \E r \in Filled :
           Become(e, IF m.async_calls /\ Len(m.status) > 0
                     THEN [m EXCEPT !.pc = "send"] ELSE NextStage(m, r))
      /\ UNCHANGED connectors

(* The initial calls, node by node. *)
Send(e) ==
  LET m == method[e]
      n == NodesOf(m)[Least(Unsent(m))]
  IN  /\ m.pc = "send"
      /\ \E s \in StubsOf(Pool(m, n)) :
           LET next == SendCall(m, n, s)
           IN  /\ TakeStub(m, n, s)
               /\ Become(e, [next EXCEPT !.pc = IF Unsent(next) = {} THEN "wait" ELSE "send"])

(* The node a tag belongs to: the first with X <= EX, or else the last. *)
NodeOf(m, X) ==
  LET before == {p \in 1 .. Len(NodesOf(m)) - 1 : X <= m.end[NodesOf(m)[p]]}
  IN  NodesOf(m)[IF before = {} THEN Len(NodesOf(m)) ELSE Least(before)]

(* AsyncNext() returns an event: the request is given up if it was cancelled;
   otherwise the connection of the call is given back.  (NextOK is true for
   the end of a client's call.) *)
Wake(e) ==
  LET m == method[e]
  IN  /\ m.pc = "wait"
      /\ \E X \in m.queue :
           LET n == NodeOf(m, X)
               i == X - m.begin[n]
           IN  \/ /\ m.cancelled
                  /\ Become(e, [m EXCEPT !.pc = "drain", !.abort = "cancelled",
                                         !.queue = @ \ {X}])
                  /\ UNCHANGED connectors
               \/ /\ ~m.cancelled
                  /\ GiveBack(m, n, m.ConN[n][i], m.status[X] = "unavailable")
                  /\ Become(e, [m EXCEPT !.pc = "event", !.event = X,
                                         !.queue = @ \ {X}, !.ConN[n][i] = NoConn])

(* A bug the checks must notice: no call is sent after the initial ones. *)
NothingMore(m, n) == FALSE

(* SENT_n != EX_n - BX_n *)
MoreToSend(m, n) == m.sent[n] # m.end[n] - m.begin[n]

(* A bug the checks must notice: the status of the call is not looked at. *)
HandledAnyStatus(m) ==
  [m EXCEPT !.recv = @ + 1,
            !.pc = IF m.recv + 1 < Len(m.status) THEN "wait" ELSE "drain"]

(* The status of the call aborts the stage, or one more event is done with;
   the loop goes on while there are more to come. *)
Handled(m) ==
  IF m.status[m.event] # "ok"
  THEN [m EXCEPT !.pc = "drain", !.abort = m.status[m.event]]
  ELSE [m EXCEPT !.recv = @ + 1,
                 !.pc = IF m.recv + 1 < Len(m.status) THEN "wait" ELSE "drain"]

(* The rest of the loop's body: the next call of the node is sent, whatever
   the status of the one that ended. *)
HandleEvent(e) ==
  LET m == method[e]
      n == NodeOf(m, m.event)
  IN  /\ m.pc = "event"
      /\ \/ /\ MoreToSend(m, n)
            /\ \E s \in StubsOf(Pool(m, n)) :
                 TakeStub(m, n, s) /\ Become(e, Handled(SendCall(m, n, s)))
         \/ /\ ~MoreToSend(m, n)
            /\ Become(e, Handled(m))
            /\ UNCHANGED connectors

(* AsyncNext() times out: the deadline passed and there is no event. *)
Timeout(e) ==
  LET m == method[e]
  IN  /\ m.pc = "wait" /\ m.expired /\ m.queue = {}
      /\ Become(e, [m EXCEPT !.pc = "drain", !.abort = "cancelled"])
      /\ UNCHANGED connectors

(* A bug the checks must notice: the queue is abandoned, not drained. *)
NotWaiting(m) == TRUE

(* The completion queue is empty once all the calls have ended. *)
AllEnded(m) == \A x \in DOMAIN m.status : m.status[x] # "out"

(* A bug the checks must notice: an aborted stage releases nothing. *)
NothingHeld(m) == {}

(* The calls whose connection has not been given back, in order. *)
Held(m) ==
  {X \in DOMAIN m.status :
     LET n == NodeOf(m, X) IN m.ConN[n][X - m.begin[n]] # NoConn}

(* closeq(): the queue is shut down and drained, then the stage is over. *)
CloseQueue(e) ==
  LET m == [method[e] EXCEPT !.queue = {}]
  IN  /\ m.pc = "drain" /\ AllEnded(m)
      /\ \E r \in Filled :
           Become(e, IF m.abort = "none" THEN NextStage(m, r)
                     ELSE IF Held(m) = {} THEN Returned(m, m.abort)
                     ELSE [m EXCEPT !.pc = "release"])
      /\ UNCHANGED connectors

(* release() of every node of the stage, one connection at a time. *)
Release(e) ==
  LET m == method[e]
      X == Least(Held(m))
      n == NodeOf(m, X)
      i == X - m.begin[n]
      given == [m EXCEPT !.ConN[n][i] = NoConn]
  IN  /\ m.pc = "release"
      /\ GiveBack(m, n, m.ConN[n][i], FALSE)
      /\ Become(e, IF Held(given) = {} THEN Returned(given, m.abort) ELSE given)

-----------------------------------------------------------------------------
(* gRPC: a call ends, and does so in any event at its deadline. *)
Complete(e) ==
  LET m == method[e]
  IN  /\ \E x \in DOMAIN m.status, s \in Ended :
           /\ m.status[x] = "out"
           /\ Become(e, [m EXCEPT !.status[x] = s,
                                  !.queue = IF m.async_calls THEN @ \union {x} ELSE @])
      /\ UNCHANGED connectors

Cancel(e) ==
  /\ method[e].result = "none" /\ ~method[e].cancelled
  /\ Become(e, [method[e] EXCEPT !.cancelled = TRUE])
  /\ UNCHANGED connectors

Expire(e) ==
  /\ method[e].result = "none" /\ ~method[e].expired
  /\ Become(e, [method[e] EXCEPT !.expired = TRUE])
  /\ UNCHANGED connectors

Thread(e) ==
  \/ ErrorCheck(e) \/ Prepare(e) \/ Call(e) \/ Called(e)
  \/ EndNodes(e) \/ Send(e) \/ Wake(e) \/ HandleEvent(e) \/ Timeout(e)
  \/ CloseQueue(e) \/ Release(e)

Next == \E e \in Entries : Thread(e) \/ Complete(e) \/ Cancel(e) \/ Expire(e)

Spec == Init /\ [][Next]_vars

(* Threads are scheduled, and every call ends: X_prep() and X_call() give it
   a deadline. *)
FairSpec == Spec /\ \A e \in Entries : WF_vars(Thread(e)) /\ WF_vars(Complete(e))

-----------------------------------------------------------------------------
(* Properties. *)

States == {"prepare", "call", "called", "send", "wait", "event", "drain", "release", "done"}

TypeOK ==
  /\ \A n \in Nodes : \A g \in DOMAIN connectors[n] :
       LET c == connectors[n][g]
       IN  StubsOf(c) \in StubSets[n] /\ \A s \in StubsOf(c) : c.active[s] \in Int
  /\ \A e \in Entries : LET m == method[e] IN
       /\ m.pc \in States
       /\ m.stage \in DOMAIN stages /\ m.at \in 1 .. Len(NodesOf(m)) + 1
       /\ m.queue \subseteq DOMAIN m.status
       /\ m.recv \in 0 .. Len(m.status)
       /\ \A n \in Nodes :
            /\ m.ConP[n] \in 0 .. Len(connectors[n])
            /\ m.sent[n] \in 0 .. m.end[n] - m.begin[n]
       /\ (m.pc = "done") = (m.result # "none")

(* The calls of e to n that hold a connection of n's g-th connector. *)
Holding(e, n, g) ==
  {i \in DOMAIN method[e].ConN[n] : method[e].ConP[n] = g /\ method[e].ConN[n][i] # NoConn}

(* The calls that hold a connection of n's g-th connector, or its stub s, over
   all requests: a call is its request and its index. *)
Holders(n, g) == UNION {{e} \X Holding(e, n, g) : e \in Entries}
StubHolders(n, g, s) == {h \in Holders(n, g) : method[h[1]].ConN[n][h[2]] = s}

(* Every connector, replaced or not, counts exactly the calls that hold one
   of its stubs, over all requests, stub by stub and in total (a dropped stub
   counts Penalty less): a connection always goes back to where it came
   from, once. *)
PoolAccounting ==
  \A n \in Nodes : \A g \in DOMAIN connectors[n] :
    /\ connectors[n][g].total_active = Cardinality(Holders(n, g))
    /\ \A s \in StubsOf(connectors[n][g]) :
         LET over == connectors[n][g].active[s] - Cardinality(StubHolders(n, g, s))
         IN  over = 0 \/ (accumulate_addresses /\ over % Penalty = 0)

(* While a stage runs, its calls hold a connection exactly as long as they
   are out or their end has not been taken off the queue: tags are told
   apart correctly by the ranges of their nodes. *)
HeldWhileOut ==
  \A e \in Entries : LET m == method[e] IN
    m.pc \in {"send", "wait", "event"} =>
      \A p \in DOMAIN NodesOf(m) : LET n == NodesOf(m)[p] IN
        \A i \in 1 .. m.end[n] - m.begin[n] :
          LET X == m.begin[n] + i
          IN  m.ConN[n][i] # NoConn <=> m.status[X] = "out" \/ X \in m.queue

(* A request never has more calls to a node under way than the connector it
   took has stubs, and sends no more than it has made (TypeOK). *)
WindowRespected ==
  TypeOK /\ \A e \in Entries : \A n \in Nodes :
    LET m == method[e]
    IN  m.ConP[n] # 0 => Cardinality(Holding(e, n, m.ConP[n])) <= Count(m, n)

(* A request that has returned left nothing behind: no call is out (its
   status and output would be written after they are gone), no event is on
   its queue, and no connection is held. *)
NothingLeft ==
  \A e \in Entries : LET m == method[e] IN
    m.result # "none" =>
      /\ m.queue = {} /\ \A x \in DOMAIN m.status : m.status[x] # "out"
      /\ \A n \in Nodes : Holding(e, n, m.ConP[n]) = {}

(* "Maximum number of concurrent requests that can be send to" a node: for a
   node with one fixed endpoint, maxcc is the number of its stubs. *)
NodeMaxcc ==
  \A n \in Nodes :
    LET out == {h \in Holders(n, 1) :
                  LET m == method[h[1]] IN m.status[m.begin[n] + h[2]] = "out"}
    IN  Cardinality(out) <= Cardinality(StubsOf(connectors[n][1]))

(* The method keeps the promise of ScatterGather. *)
Promise == INSTANCE ScatterGather WITH
  Last      <- Len(stages),
  stage     <- [e \in Entries |-> method[e].stage],
  calls     <- [e \in Entries |-> method[e].status],
  cancelled <- [e \in Entries |-> method[e].cancelled \/ method[e].expired],
  result    <- [e \in Entries |-> method[e].result]
ImplementsScatterGather == Promise!Spec

(* Every request is answered, whatever fails, is cancelled or expires. *)
EveryRequestReturns == \A e \in Entries : <>(method[e].result # "none")
=============================================================================
