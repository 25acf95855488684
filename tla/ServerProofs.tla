---------------------------- MODULE ServerProofs ----------------------------
(***************************************************************************)
(* Proofs about the aggregator as a process, for any configuration, REST   *)
(* threads, clients, signals and fixed stubs: an orderly stop, replies     *)
(* that tell the outcome of the call, and handlers that leave nothing      *)
(* behind.                                                                 *)
(***************************************************************************)
EXTENDS Server, FiniteSetTheorems, TLAPS

USE ActorsAssumption, StubsAssumption, SignalsAssumption

-----------------------------------------------------------------------------
(* The inductive invariant. *)

Positions  == {"accepted", "waiting", "closing", "replied"}
CallStates == {"none", "sent", "served"} \union Outcomes
NoFlaw     == Flaws \union {"none", "after"}
Codes      == {0, 200, 400, 403, 404, 408, 422, 500, 503}

(* The requests of REST threads, of which those for a node hold one of the stubs S. *)
Requests(S) ==
  [pc : Positions, kind : {"entry", "node"}, deadline : BOOLEAN, late : BOOLEAN, flaw : NoFlaw,
   call : CallStates, seen : BOOLEAN, status : Statuses, stub : S \union {NoConn}, code : Codes]

Calls == [caller : RestThreads \union Clients, attached : BOOLEAN, deadline : BOOLEAN]

ProcessTyped ==
  /\ main \in {"configure", "start", "watching", "built", "gateway", "abort", "draining", "wait",
               "stopgateway", "stop", "join", "exited"}
  /\ failed \in BOOLEAN /\ handler \in {"none", "shutdown"} /\ signals \in 0 .. MaxSignals
  /\ server \in {"none", "running", "stopping", "stopped"} /\ published \in BOOLEAN
  /\ watcher \in {"none", "looking", "told", "ended"}
  /\ gateway \in {"none", "open", "closing", "closed"}

(* Where the server, the pointer to it, the watcher and the gateway are when the
   main thread has come to a position. *)
Before == main \in {"configure", "start"} =>
  server = "none" /\ ~published /\ gateway = "none" /\ watcher = "none"
Starting == main \in {"watching", "built", "gateway", "abort", "draining"} =>
  gateway = "none" /\ watcher = "looking"
Building == /\ main = "watching" => server = "none" /\ ~published
            /\ main = "built" => server \in {"none", "running"} /\ ~published
Published == main \in {"gateway", "abort", "draining", "wait", "stopgateway", "stop", "join"} =>
  published = (server # "none")
Waiting == /\ main = "wait" => gateway \in {"none", "open"} /\ watcher = "looking"
           /\ main = "stopgateway" => /\ gateway \in {"none", "closing"} /\ watcher = "looking"
                                      /\ server = "stopped"
Stopping == main \in {"stop", "join"} =>
  /\ gateway \in {"none", "closed"} /\ server \in {"none", "stopped"}
  /\ watcher \in IF main = "stop" THEN {"looking"} ELSE {"told", "ended"}
Exited == main = "exited" =>
  /\ gateway \in {"none", "closed"} /\ server = "none" /\ ~published
  /\ watcher \in {"none", "ended"}

ProcessOK ==
  /\ ProcessTyped /\ Before /\ Starting /\ Building /\ Published /\ Waiting /\ Stopping /\ Exited

(* Entry methods run in a server that runs or stops, and handlers in a gateway
   that is open or waits for them. *)
Housed ==
  /\ serving # {} => server \in {"running", "stopping"}
  /\ gateway \in {"none", "closed"} => \A r \in RestThreads : request[r].pc = "replied"

(* What is so of every request. *)
RequestOK(q) ==
  /\ q.pc = "accepted" => q.call = "none" /\ q.stub = NoConn
  /\ q.pc \in {"waiting", "closing"} => q.call # "none"
  /\ q.seen => q.call \in Outcomes /\ q.status = q.call
  /\ q.pc = "replied" =>
       /\ ~IsOut(q) /\ q.stub = NoConn
       /\ q.flaw \in Flaws => q.call = "none"
       /\ q.flaw = "after" => q.call \in Outcomes
       /\ q.flaw = "none" => q.code = 0 \/ (q.call \in Outcomes /\ q.code = HttpCode(q.call))

(* What is so of a call that is served for a thread with the request q. *)
Attached(s, q) ==
  /\ q.pc # "accepted" /\ q.call # "sent"
  /\ s.attached => q.call = "served"

RequestsTyped == request \in [RestThreads -> Requests(StubsOf(connector))]

RequestsOK == \A r \in RestThreads : RequestOK(request[r])

ServingOK ==
  /\ serving \subseteq Calls
  /\ \A s, t \in serving : s.caller = t.caller => s = t
  /\ \A s \in serving : s.caller \in RestThreads => Attached(s, request[s.caller])

ConnectorTyped ==
  /\ StubsOf(connector) \in StubSets
  /\ connector \in [active : [StubsOf(connector) -> Int], total_active : Int]

(* The requests that hold a stub, and those that hold any. *)
HoldersOf(s) == {r \in RestThreads : request[r].stub = s}
AllHolders == {r \in RestThreads : request[r].stub # NoConn}

Counted ==
  /\ \A s \in StubsOf(connector) : connector.active[s] = Cardinality(HoldersOf(s))
  /\ connector.total_active = Cardinality(AllHolders)

CallsOK == RequestsTyped /\ RequestsOK /\ ServingOK /\ ConnectorTyped /\ Counted

IInv == ProcessOK /\ Housed /\ CallsOK


-----------------------------------------------------------------------------
(* The steps of the main thread, the handler, the server and the watcher. *)

USE DEF At

LEMMA CallsKept ==
  ASSUME CallsOK, UNCHANGED <<request, serving, connector>>
  PROVE  CallsOK'
<1>1. RequestsTyped' /\ RequestsOK' /\ ServingOK' /\ ConnectorTyped'
  BY DEF CallsOK, RequestsTyped, RequestsOK, ServingOK, ConnectorTyped
<1>2. /\ AllHolders' = AllHolders /\ \A s : HoldersOf(s)' = HoldersOf(s)
  BY DEF AllHolders, HoldersOf
<1>3. Counted'
  BY <1>2 DEF CallsOK, Counted
<1>4. QED
  BY <1>1, <1>3 DEF CallsOK

(* A step of the process leaves the calls alone. *)
ProcessStep ==
  /\ \/ Configure \/ Main \/ Signal \/ HandlerReturns \/ Drained \/ WatcherEnds
  /\ ProcessOK /\ Housed

LEMMA ProcessFrame ==
  ASSUME ProcessStep
  PROVE  UNCHANGED <<request, serving, connector>>
  BY DEF ProcessStep, Main, Configure, StartWatcher, BuildAndStart, Publish, StartGateway, Abort,
         AbortDone, Wait, StopGateway, StopWatcher, Exit, Signal, HandlerReturns, Drained, WatcherEnds

USE DEF ProcessOK, ProcessTyped, Before, Starting, Building, Published, Waiting, Stopping, Exited,
        Housed, IsThere, ShuttingDown, Told

LEMMA ConfigureStep == ProcessOK /\ Housed /\ Configure => ProcessOK' /\ Housed'
<1> SUFFICES ASSUME ProcessOK, Housed, Configure PROVE ProcessOK' /\ Housed'
  OBVIOUS
<1>1. /\ main = "configure" /\ handler = "none" /\ main' \in {"start", "exited"}
      /\ failed' \in BOOLEAN
      /\ UNCHANGED <<handler, signals, server, published, watcher, gateway, request, serving>>
  BY DEF Configure
<1>2. QED
  BY <1>1

LEMMA StartWatcherStep == ProcessOK /\ Housed /\ StartWatcher => ProcessOK' /\ Housed'
<1> SUFFICES ASSUME ProcessOK, Housed, StartWatcher PROVE ProcessOK' /\ Housed'
  OBVIOUS
<1>1. /\ main = "start" /\ handler = "none"
      /\ \/ main' = "watching" /\ watcher' = "looking" /\ failed' = failed
         \/ main' = "exited" /\ failed' = TRUE /\ watcher' = watcher
      /\ UNCHANGED <<handler, signals, server, published, gateway, request, serving>>
  BY DEF StartWatcher
<1>2. QED
  BY <1>1

LEMMA BuildAndStartStep == ProcessOK /\ Housed /\ BuildAndStart => ProcessOK' /\ Housed'
<1> SUFFICES ASSUME ProcessOK, Housed, BuildAndStart PROVE ProcessOK' /\ Housed'
  OBVIOUS
<1>1. /\ main = "watching" /\ main' = "built" /\ server' \in {"none", "running"} /\ failed' \in BOOLEAN
      /\ UNCHANGED <<handler, signals, published, watcher, gateway, request, serving>>
  BY DEF BuildAndStart
<1>2. QED
  BY <1>1

LEMMA PublishStep == ProcessOK /\ Housed /\ Publish => ProcessOK' /\ Housed'
<1> SUFFICES ASSUME ProcessOK, Housed, Publish PROVE ProcessOK' /\ Housed'
  OBVIOUS
<1>1. /\ main = "built" /\ main' \in {"abort", "gateway"} /\ published' = (server # "none")
      /\ UNCHANGED <<failed, handler, signals, server, watcher, gateway, request, serving>>
  BY DEF Publish
<1>2. QED
  BY <1>1

LEMMA StartGatewayStep == ProcessOK /\ Housed /\ StartGateway => ProcessOK' /\ Housed'
  BY DEF StartGateway

LEMMA AbortStep == ProcessOK /\ Housed /\ Abort => ProcessOK' /\ Housed'
  BY DEF Abort

LEMMA AbortDoneStep == ProcessOK /\ Housed /\ AbortDone => ProcessOK' /\ Housed'
  BY DEF AbortDone

LEMMA WaitStep == ProcessOK /\ Housed /\ Wait => ProcessOK' /\ Housed'
  BY DEF Wait

LEMMA StopGatewayStep == ProcessOK /\ Housed /\ StopGateway => ProcessOK' /\ Housed'
  BY DEF StopGateway, GatewayJoined

LEMMA StopWatcherStep == ProcessOK /\ Housed /\ StopWatcher => ProcessOK' /\ Housed'
  BY DEF StopWatcher

LEMMA ExitStep == ProcessOK /\ Housed /\ Exit => ProcessOK' /\ Housed'
  BY DEF Exit

LEMMA SignalStep == ProcessOK /\ Housed /\ Signal => ProcessOK' /\ Housed'
<1> SUFFICES ASSUME ProcessOK, Housed, Signal PROVE ProcessOK' /\ Housed'
  OBVIOUS
<1>1. /\ main \notin {"configure", "start", "exited"} /\ signals' \in 0 .. MaxSignals
      /\ handler' \in {"none", "shutdown"}
      /\ server' = IF published THEN ShuttingDown(server) ELSE server
      /\ UNCHANGED <<main, failed, published, watcher, gateway, request, serving>>
  BY DEF Signal
<1>2. QED
  BY <1>1

LEMMA HandlerReturnsStep == ProcessOK /\ Housed /\ HandlerReturns => ProcessOK' /\ Housed'
  BY DEF HandlerReturns

LEMMA DrainedStep == ProcessOK /\ Housed /\ Drained => ProcessOK' /\ Housed'
  BY DEF Drained

LEMMA WatcherEndsStep == ProcessOK /\ Housed /\ WatcherEnds => ProcessOK' /\ Housed'
  BY DEF WatcherEnds


HIDE DEF ProcessOK, ProcessTyped, Before, Starting, Building, Published, Waiting, Stopping, Exited,
         Housed, IsThere, ShuttingDown, Told, At

LEMMA ProcessSteps == CallsOK /\ ProcessStep => IInv'
<1> SUFFICES ASSUME CallsOK, ProcessStep PROVE IInv'
  OBVIOUS
<1>1. CallsOK'
  BY ProcessFrame, CallsKept
<1>2. ProcessOK' /\ Housed'
  BY ConfigureStep, StartWatcherStep, BuildAndStartStep, PublishStep, StartGatewayStep, AbortStep,
     AbortDoneStep, WaitStep, StopGatewayStep, StopWatcherStep, ExitStep, SignalStep,
     HandlerReturnsStep, DrainedStep, WatcherEndsStep DEF ProcessStep, Main
<1>3. QED
  BY <1>1, <1>2 DEF IInv

-----------------------------------------------------------------------------
(* Facts about the steps of the calls. *)

LEMMA ProcessKept ==
  ASSUME ProcessOK, UNCHANGED processVars
  PROVE  ProcessOK'
  BY DEF ProcessOK, ProcessTyped, Before, Starting, Building, Published, Waiting, Stopping, Exited,
         processVars

(* A request holds no stub, or one of the connector's. *)
LEMMA RequestFacts ==
  ASSUME IInv, NEW r \in RestThreads
  PROVE  /\ request[r] \in Requests(StubsOf(connector)) /\ RequestOK(request[r])
         /\ request[r].call \in {"none", "sent", "served"} \union Outcomes
         /\ request[r].pc \in Positions
         /\ NoConn \notin StubsOf(connector) /\ IsFiniteSet(StubsOf(connector))
         /\ \A s \in serving : s.caller = r => Attached(s, request[r])
<1>1. request[r] \in Requests(StubsOf(connector)) /\ RequestOK(request[r])
  BY DEF IInv, CallsOK, RequestsTyped, RequestsOK
<1>2. request[r].call \in {"none", "sent", "served"} \union Outcomes /\ request[r].pc \in Positions
  BY <1>1 DEF Requests, CallStates
<1>3. NoConn \notin StubsOf(connector) /\ IsFiniteSet(StubsOf(connector))
  BY DEF IInv, CallsOK, ConnectorTyped
<1>4. \A s \in serving : s.caller = r => Attached(s, request[r])
  BY DEF IInv, CallsOK, ServingOK
<1>5. QED
  BY <1>1, <1>2, <1>3, <1>4

(* The values of a request. *)
LEMMA RequestValues ==
  /\ Positions = {"accepted", "waiting", "closing", "replied"}
  /\ {"none", "sent", "served"} \union Outcomes \subseteq CallStates
  /\ {"none", "after"} \subseteq NoFlaw /\ Flaws \subseteq NoFlaw
  /\ "ok" \in Statuses /\ "cancelled" \in Statuses /\ Outcomes \subseteq Statuses
  /\ {0, 200, 408, 500, 503} \subseteq Codes /\ {400, 403, 404, 422} \subseteq Codes
  BY DEF Positions, CallStates, NoFlaw, Statuses, Outcomes, Answers, Codes

(* Requests with some fields changed. *)
LEMMA RequestRecord ==
  ASSUME NEW S, NEW pc \in Positions, NEW kind \in {"entry", "node"}, NEW deadline \in BOOLEAN,
         NEW late \in BOOLEAN, NEW flaw \in NoFlaw, NEW call \in CallStates, NEW seen \in BOOLEAN,
         NEW status \in Statuses, NEW stub \in S \union {NoConn}, NEW code \in Codes
  PROVE  [pc |-> pc, kind |-> kind, deadline |-> deadline, late |-> late, flaw |-> flaw,
          call |-> call, seen |-> seen, status |-> status, stub |-> stub, code |-> code]
            \in Requests(S)
  BY DEF Requests

LEMMA NoRequestFields ==
  ASSUME NEW S
  PROVE  /\ NoRequest \in Requests(S)
         /\ NoRequest.pc = "replied" /\ NoRequest.call = "none" /\ NoRequest.stub = NoConn
         /\ NoRequest.seen = FALSE /\ NoRequest.flaw = "none" /\ NoRequest.code = 0
<1>1. /\ "replied" \in Positions /\ "none" \in NoFlaw /\ "none" \in CallStates
      /\ "ok" \in Statuses /\ 0 \in Codes
  BY RequestValues
<1>2. NoRequest \in Requests(S)
  BY <1>1, RequestRecord DEF NoRequest
<1>3. QED
  BY <1>2 DEF NoRequest

(* A thread that becomes q: a handler runs only when the gateway lets it. *)
Becomes(r, q) ==
  /\ IInv /\ r \in RestThreads /\ request' = [request EXCEPT ![r] = q]
  /\ q \in Requests(StubsOf(connector)) /\ RequestOK(q)
  /\ q.pc = "replied" \/ gateway = "open" \/ request[r].pc # "replied"
  /\ UNCHANGED processVars

LEMMA BecomesRequest ==
  ASSUME NEW r, NEW q, Becomes(r, q)
  PROVE  /\ request'[r] = q /\ \A t \in RestThreads \ {r} : request'[t] = request[t]
         /\ request' \in [RestThreads -> Requests(StubsOf(connector))] /\ RequestsOK'
         /\ ProcessOK'
         /\ gateway' \in {"none", "closed"} => \A t \in RestThreads : request'[t].pc = "replied"
<1>1. request \in [RestThreads -> Requests(StubsOf(connector))] /\ r \in RestThreads
  BY DEF Becomes, IInv, CallsOK, RequestsTyped
<1>2. request'[r] = q /\ \A t \in RestThreads \ {r} : request'[t] = request[t]
  BY <1>1 DEF Becomes
<1>3. request' \in [RestThreads -> Requests(StubsOf(connector))]
  BY <1>1 DEF Becomes
<1>4. RequestsOK'
  BY <1>2 DEF Becomes, RequestsOK, IInv, CallsOK
<1>5. ProcessOK'
  BY ProcessKept DEF Becomes, IInv
<1>6. gateway' \in {"none", "closed"} => \A t \in RestThreads : request'[t].pc = "replied"
  <2>1. gateway' = gateway
    BY DEF Becomes, processVars
  <2>2. gateway \in {"none", "closed"} => \A t \in RestThreads : request[t].pc = "replied"
    BY DEF Becomes, IInv, Housed
  <2>3. gateway \in {"none", "closed"} => q.pc = "replied"
    BY <1>1, <2>2 DEF Becomes
  <2>4. QED
    BY <1>2, <2>1, <2>2, <2>3
<1>7. QED
  BY <1>2, <1>3, <1>4, <1>5, <1>6

(* The counts are those of the requests that hold a stub. *)
LEMMA CountsKept ==
  ASSUME Counted, UNCHANGED connector, request \in [RestThreads -> Requests(StubsOf(connector))],
         \A t \in RestThreads : request'[t].stub = request[t].stub
  PROVE  Counted'
<1>1. AllHolders' = AllHolders
  BY DEF AllHolders
<1>2. ASSUME NEW s PROVE HoldersOf(s)' = HoldersOf(s)
  BY DEF HoldersOf
<1>3. QED
  BY <1>1, <1>2 DEF Counted

(* The calls that are served stay what they are. *)
LEMMA ServingKept ==
  ASSUME NEW r, NEW q, Becomes(r, q), UNCHANGED serving,
         \A s \in serving : s.caller = r => Attached(s, q)
  PROVE  ServingOK' /\ (serving' # {} => server \in {"running", "stopping"})
<1>1. request'[r] = q /\ (\A t \in RestThreads \ {r} : request'[t] = request[t])
  BY BecomesRequest
<1>2. ServingOK /\ r \in RestThreads /\ (serving # {} => server \in {"running", "stopping"})
  BY DEF Becomes, IInv, CallsOK, Housed
<1>3. \A s \in serving : s.caller \in RestThreads => Attached(s, request'[s.caller])
  BY <1>1, <1>2 DEF ServingOK
<1>4. QED
  BY <1>2, <1>3 DEF ServingOK

(* A thread whose request changes: what does not depend on the connector. *)
LEMMA RequestMoves ==
  ASSUME NEW r, NEW q, Becomes(r, q),
         serving' # {} => server \in {"running", "stopping"}
  PROVE  ProcessOK' /\ Housed' /\ RequestsOK'
<1>1. /\ RequestsOK' /\ ProcessOK'
      /\ (gateway' \in {"none", "closed"} => \A t \in RestThreads : request'[t].pc = "replied")
  BY BecomesRequest
<1>2. UNCHANGED processVars
  BY DEF Becomes
<1>3. Housed'
  BY <1>1, <1>2 DEF Housed, processVars
<1>4. QED
  BY <1>1, <1>3

(* A thread whose request changes, but for the stub it holds. *)
LEMMA CallMoves ==
  ASSUME NEW r, NEW q, Becomes(r, q), q.stub = request[r].stub, UNCHANGED connector,
         ServingOK', serving' # {} => server \in {"running", "stopping"}
  PROVE  IInv'
<1>1. ProcessOK' /\ Housed' /\ RequestsOK'
  BY RequestMoves
<1>2. /\ request'[r] = q /\ (\A t \in RestThreads \ {r} : request'[t] = request[t])
      /\ request' \in [RestThreads -> Requests(StubsOf(connector))] /\ IInv
  BY BecomesRequest DEF Becomes
<1>3. RequestsTyped' /\ ConnectorTyped'
  BY <1>2 DEF RequestsTyped, ConnectorTyped, IInv, CallsOK
<1>4. Counted'
  <2>1. \A t \in RestThreads : request'[t].stub = request[t].stub
    BY <1>2
  <2>2. QED
    BY <1>2, <2>1, CountsKept DEF IInv, CallsOK, RequestsTyped
<1>5. QED
  BY <1>1, <1>3, <1>4 DEF IInv, CallsOK

LEMMA RequestChanges ==
  ASSUME NEW r, NEW q, Becomes(r, q), q.stub = request[r].stub, UNCHANGED <<serving, connector>>,
         \A s \in serving : s.caller = r => Attached(s, q)
  PROVE  IInv'
<1>1. ServingOK' /\ (serving' # {} => server \in {"running", "stopping"})
  BY ServingKept
<1>2. QED
  BY <1>1, CallMoves

(* A thread that takes a stub: it held none. *)
LEMMA HoldsMore ==
  ASSUME NEW r \in RestThreads, request \in [RestThreads -> Requests(StubsOf(connector))],
         NEW s \in StubsOf(connector), request[r].stub = NoConn, s # NoConn,
         request'[r].stub = s, \A t \in RestThreads \ {r} : request'[t].stub = request[t].stub
  PROVE  /\ Cardinality(AllHolders') = Cardinality(AllHolders) + 1
         /\ Cardinality(HoldersOf(s)') = Cardinality(HoldersOf(s)) + 1
         /\ \A u \in StubsOf(connector) \ {s} : u # NoConn => HoldersOf(u)' = HoldersOf(u)
<1>1. /\ AllHolders' = AllHolders \union {r} /\ r \notin AllHolders
      /\ AllHolders \subseteq RestThreads
  BY DEF AllHolders
<1>2. /\ HoldersOf(s)' = HoldersOf(s) \union {r} /\ r \notin HoldersOf(s)
      /\ HoldersOf(s) \subseteq RestThreads
  BY DEF HoldersOf
<1>3. IsFiniteSet(AllHolders) /\ IsFiniteSet(HoldersOf(s))
  BY <1>1, <1>2, FS_Subset
<1>4. ASSUME NEW u \in StubsOf(connector) \ {s}, u # NoConn PROVE HoldersOf(u)' = HoldersOf(u)
  BY <1>4 DEF HoldersOf
<1>5. Cardinality(AllHolders \union {r}) = Cardinality(AllHolders) + 1
  BY <1>1, <1>3, FS_AddElement
<1>6. Cardinality(HoldersOf(s) \union {r}) = Cardinality(HoldersOf(s)) + 1
  BY <1>2, <1>3, FS_AddElement
<1>7. QED
  BY <1>1, <1>2, <1>4, <1>5, <1>6

(* A thread that gives its stub back. *)
LEMMA HoldsLess ==
  ASSUME NEW r \in RestThreads, request \in [RestThreads -> Requests(StubsOf(connector))],
         NEW s \in StubsOf(connector), request[r].stub = s, s # NoConn,
         request'[r].stub = NoConn, \A t \in RestThreads \ {r} : request'[t].stub = request[t].stub
  PROVE  /\ Cardinality(AllHolders') = Cardinality(AllHolders) - 1
         /\ Cardinality(HoldersOf(s)') = Cardinality(HoldersOf(s)) - 1
         /\ \A u \in StubsOf(connector) \ {s} : u # NoConn => HoldersOf(u)' = HoldersOf(u)
<1>1. /\ AllHolders' = AllHolders \ {r} /\ r \in AllHolders
      /\ AllHolders \subseteq RestThreads
  BY DEF AllHolders
<1>2. /\ HoldersOf(s)' = HoldersOf(s) \ {r} /\ r \in HoldersOf(s)
      /\ HoldersOf(s) \subseteq RestThreads
  BY DEF HoldersOf
<1>3. IsFiniteSet(AllHolders) /\ IsFiniteSet(HoldersOf(s))
  BY <1>1, <1>2, FS_Subset
<1>4. ASSUME NEW u \in StubsOf(connector) \ {s}, u # NoConn PROVE HoldersOf(u)' = HoldersOf(u)
  BY <1>4 DEF HoldersOf
<1>5. Cardinality(AllHolders \ {r}) = Cardinality(AllHolders) - 1
  BY <1>1, <1>3, FS_RemoveElement
<1>6. Cardinality(HoldersOf(s) \ {r}) = Cardinality(HoldersOf(s)) - 1
  BY <1>2, <1>3, FS_RemoveElement
<1>7. QED
  BY <1>1, <1>2, <1>4, <1>5, <1>6


(* A thread that takes a stub, or gives it back, and what that does to the
   connector. *)
LEMMA StubMoves ==
  ASSUME NEW r, NEW q, Becomes(r, q), UNCHANGED serving,
         \A s \in serving : s.caller = r => Attached(s, q),
         ConnectorTyped', StubsOf(connector)' = StubsOf(connector), Counted'
  PROVE  IInv'
<1>1. ProcessOK' /\ Housed' /\ RequestsOK' /\ ServingOK'
  BY ServingKept, RequestMoves
<1>2. request' \in [RestThreads -> Requests(StubsOf(connector))]
  BY BecomesRequest
<1>3. RequestsTyped'
  BY <1>2 DEF RequestsTyped
<1>4. QED
  BY <1>1, <1>3 DEF IInv, CallsOK

LEMMA ConnectorFields ==
  ASSUME NEW a, NEW t, NEW c, c = [active |-> a, total_active |-> t]
  PROVE  c.active = a /\ c.total_active = t
  OBVIOUS

LEMMA AllocatedType ==
  ASSUME ConnectorTyped, NEW s \in StubsOf(connector), connector' = Allocate(connector, s)
  PROVE  /\ ConnectorTyped' /\ StubsOf(connector)' = StubsOf(connector)
         /\ connector'.total_active = connector.total_active + 1
         /\ connector'.active[s] = connector.active[s] + 1
         /\ \A u \in StubsOf(connector) \ {s} : connector'.active[u] = connector.active[u]
<1> DEFINE total  == connector.total_active + 1
           active == [connector.active EXCEPT ![s] = @ + 1]
           D      == StubsOf(connector)
<1>1. connector.active \in [D -> Int] /\ connector.total_active \in Int /\ D \in StubSets
  BY DEF ConnectorTyped
<1>2. connector' = [active |-> active, total_active |-> total]
  BY DEF Allocate
<1>3. total \in Int /\ active \in [D -> Int]
  BY <1>1
<1>4. active[s] = connector.active[s] + 1 /\ \A u \in D \ {s} : active[u] = connector.active[u]
  BY <1>1
<1> HIDE DEF total, active
<1>5. /\ connector'.active = active /\ connector'.total_active = total
      /\ connector' \in [active : [D -> Int], total_active : Int]
  <2>1. connector'.active = active /\ connector'.total_active = total
    BY <1>2, ConnectorFields
  <2> HIDE DEF D
  <2>2. [active |-> active, total_active |-> total] \in [active : [D -> Int], total_active : Int]
    BY <1>3
  <2>3. QED
    BY <1>2, <2>1, <2>2
<1>6. StubsOf(connector)' = D
  BY <1>3, <1>5 DEF StubsOf
<1>7. ConnectorTyped'
  BY <1>1, <1>5, <1>6 DEF ConnectorTyped
<1>8. QED
  BY <1>4, <1>5, <1>6, <1>7 DEF total

(* A stub comes back and is not dropped. *)
GivenBack(s) == connector' = Finish(connector, s, FALSE)

LEMMA FinishedType ==
  ASSUME ConnectorTyped, NEW s \in StubsOf(connector), GivenBack(s)
  PROVE  /\ ConnectorTyped' /\ StubsOf(connector)' = StubsOf(connector)
         /\ connector'.total_active = connector.total_active - 1
         /\ connector'.active[s] = connector.active[s] - 1
         /\ \A u \in StubsOf(connector) \ {s} : connector'.active[u] = connector.active[u]
<1> DEFINE total  == connector.total_active - 1
           active == [connector.active EXCEPT ![s] = @ - 1]
           D      == StubsOf(connector)
<1>1. connector.active \in [D -> Int] /\ connector.total_active \in Int /\ D \in StubSets
  BY DEF ConnectorTyped
<1>2. connector' = [active |-> active, total_active |-> total]
  <2>1. [connector.active EXCEPT ![s] = @ - 1 - 0] = active
    BY <1>1
  <2>2. QED
    BY <2>1 DEF Finish, GivenBack
<1>3. total \in Int /\ active \in [D -> Int]
  BY <1>1
<1>4. active[s] = connector.active[s] - 1 /\ \A u \in D \ {s} : active[u] = connector.active[u]
  BY <1>1
<1> HIDE DEF total, active
<1>5. /\ connector'.active = active /\ connector'.total_active = total
      /\ connector' \in [active : [D -> Int], total_active : Int]
  <2>1. connector'.active = active /\ connector'.total_active = total
    BY <1>2, ConnectorFields
  <2> HIDE DEF D
  <2>2. [active |-> active, total_active |-> total] \in [active : [D -> Int], total_active : Int]
    BY <1>3
  <2>3. QED
    BY <1>2, <2>1, <2>2
<1>6. StubsOf(connector)' = D
  BY <1>3, <1>5 DEF StubsOf
<1>7. ConnectorTyped'
  BY <1>1, <1>5, <1>6 DEF ConnectorTyped
<1>8. QED
  BY <1>4, <1>5, <1>6, <1>7 DEF total

-----------------------------------------------------------------------------
(* The steps of the calls that are served. *)

(* A call is served by a server that runs. *)
LEMMA DirectCallStep == IInv /\ (\E c \in Clients : DirectCall(c)) => IInv'
<1> SUFFICES ASSUME IInv, NEW c \in Clients, DirectCall(c) PROVE IInv'
  OBVIOUS
<1>1. PICK d \in BOOLEAN : serving' = serving \union {Served(c, TRUE, GrpcDeadline(d, TRUE))}
  BY DEF DirectCall
<1>2. /\ server = "running" /\ (\A s \in serving : s.caller # c)
      /\ UNCHANGED <<processVars, request, connector>>
  BY DEF DirectCall
<1> DEFINE s1 == Served(c, TRUE, GrpcDeadline(d, TRUE))
<1>3. s1 \in Calls /\ s1.caller = c /\ c \notin RestThreads
  BY DEF Served, GrpcDeadline, Calls
<1>4. serving' = serving \union {s1}
  BY <1>1
<1> HIDE DEF s1
<1>5. ServingOK'
  <2>1. ServingOK
    BY DEF IInv, CallsOK
  <2>2. QED
    BY <1>2, <1>3, <1>4, <2>1 DEF ServingOK
<1>6. RequestsTyped' /\ RequestsOK' /\ ConnectorTyped' /\ Counted'
  <2>1. AllHolders' = AllHolders /\ \A s : HoldersOf(s)' = HoldersOf(s)
    BY <1>2 DEF AllHolders, HoldersOf
  <2>2. QED
    BY <1>2, <2>1 DEF IInv, CallsOK, RequestsTyped, RequestsOK, ConnectorTyped, Counted
<1>7. ProcessOK' /\ Housed'
  BY <1>2, ProcessKept DEF IInv, Housed, processVars
<1>8. QED
  BY <1>5, <1>6, <1>7 DEF IInv, CallsOK


(* The steps of a REST thread start from one of its requests. *)
LEMMA ReplacedCall ==
  ASSUME NEW r \in RestThreads, RequestsTyped, NEW o,
         request' = [request EXCEPT ![r].call = o]
  PROVE  request' = [request EXCEPT ![r] = [request[r] EXCEPT !.call = o]]
  BY DEF RequestsTyped

(* The call of a request ends, or reaches the server. *)
LEMMA CallBecomes ==
  ASSUME IInv, NEW r \in RestThreads, NEW o \in {"served"} \union Outcomes,
         IsOut(request[r]), request' = [request EXCEPT ![r].call = o], UNCHANGED processVars
  PROVE  /\ Becomes(r, [request[r] EXCEPT !.call = o])
         /\ [request[r] EXCEPT !.call = o].stub = request[r].stub
         /\ [request[r] EXCEPT !.call = o].pc = request[r].pc
         /\ [request[r] EXCEPT !.call = o].call = o
         /\ request[r].pc \in {"waiting", "closing"}
<1> DEFINE q0 == request[r]
           q  == [q0 EXCEPT !.call = o]
           S  == StubsOf(connector)
<1>1. q0 \in Requests(S) /\ RequestOK(q0)
  BY RequestFacts
<1>2. request' = [request EXCEPT ![r] = q]
  BY ReplacedCall DEF IInv, CallsOK
<1>3. IsOut(q0)
  OBVIOUS
<1> HIDE DEF q0, S
<1>4. q \in Requests(S)
  <2>1. o \in CallStates
    BY RequestValues
  <2>2. QED
    BY <1>1, <2>1 DEF Requests
<1>5. /\ q.pc = q0.pc /\ q.stub = q0.stub /\ q.call = o /\ q.seen = q0.seen /\ q.flaw = q0.flaw
  BY <1>1 DEF Requests
<1>6. q0.pc \in {"waiting", "closing"} /\ ~q0.seen
  <2>1. q0.pc \in Positions
    BY <1>1 DEF Requests
  <2>2. QED
    BY <1>1, <1>3, <2>1 DEF RequestOK, IsOut, Positions, Outcomes, Answers
<1>7. RequestOK(q)
  BY <1>5, <1>6 DEF RequestOK, Outcomes, Answers
<1> HIDE DEF q
<1>8. Becomes(r, q)
  <2>1. request[r].pc # "replied"
    BY <1>6 DEF q0
  <2>2. QED
    BY <1>2, <1>4, <1>7, <2>1 DEF Becomes, S
<1>9. QED
  BY <1>5, <1>6, <1>8 DEF q, q0

LEMMA EntryReturnsStep ==
  ASSUME IInv, NEW c \in RestThreads \union Clients, EntryReturns(c)
  PROVE  IInv'
<1>1. PICK s \in serving : /\ s.caller = c /\ serving' = serving \ {s}
                           /\ IF s.attached /\ c \in RestThreads
                                THEN \E o \in Answers : request' = [request EXCEPT ![c].call = o]
                                ELSE UNCHANGED request
  BY DEF EntryReturns
<1>2. UNCHANGED <<processVars, connector>>
  BY DEF EntryReturns
<1>3. ServingOK /\ (serving # {} => server \in {"running", "stopping"})
  BY DEF IInv, CallsOK, Housed
<1>4. serving' # {} => server \in {"running", "stopping"}
  BY <1>1, <1>3
<1>5. \A t \in serving' : t \in serving /\ t.caller # c
  BY <1>1, <1>3 DEF ServingOK
<1>6. CASE s.attached /\ c \in RestThreads
  <2>1. PICK o \in Answers : request' = [request EXCEPT ![c].call = o]
    BY <1>1, <1>6
  <2> DEFINE q == [request[c] EXCEPT !.call = o]
  <2>2. IsOut(request[c])
    BY <1>1, <1>6, RequestFacts DEF Attached, IsOut
  <2>3. Becomes(c, q) /\ q.stub = request[c].stub
    BY <1>2, <1>6, <2>1, <2>2, CallBecomes DEF Outcomes
  <2> HIDE DEF q
  <2>4. \A t \in RestThreads \ {c} : request'[t] = request[t]
    BY <2>3, BecomesRequest
  <2>5. ServingOK'
    BY <1>3, <1>5, <2>4 DEF ServingOK
  <2>6. QED
    BY <1>2, <1>4, <2>3, <2>5, CallMoves
<1>7. CASE ~(s.attached /\ c \in RestThreads)
  <2>1. UNCHANGED request
    BY <1>1, <1>7
  <2>2. ServingOK'
    BY <1>3, <1>5, <2>1 DEF ServingOK
  <2>3. RequestsTyped' /\ RequestsOK' /\ ConnectorTyped' /\ Counted'
    <3>1. AllHolders' = AllHolders /\ \A u : HoldersOf(u)' = HoldersOf(u)
      BY <2>1 DEF AllHolders, HoldersOf
    <3>2. QED
      BY <1>2, <2>1, <3>1
      DEF IInv, CallsOK, RequestsTyped, RequestsOK, ConnectorTyped, Counted
  <2>4. ProcessOK' /\ Housed'
    BY <1>2, <1>4, <2>1, ProcessKept DEF IInv, Housed, processVars
  <2>5. QED
    BY <2>2, <2>3, <2>4 DEF IInv, CallsOK
<1>8. QED
  BY <1>6, <1>7

LEMMA ReachStep ==
  ASSUME IInv, NEW r \in RestThreads, Reach(r)
  PROVE  IInv'
<1>1. /\ request[r].call = "sent" /\ IsOut(request[r])
      /\ UNCHANGED <<processVars, connector>>
  BY DEF Reach, IsOut
<1>2. ServingOK /\ (serving # {} => server \in {"running", "stopping"})
  BY DEF IInv, CallsOK, Housed
<1>3. \A s \in serving : s.caller # r
  BY <1>1, RequestFacts DEF Attached
<1>4. CASE server = "running"
  <2> DEFINE o  == "served"
             s1 == Served(r, TRUE, GrpcDeadline(request[r].deadline, TRUE))
             q  == [request[r] EXCEPT !.call = o]
  <2>1. serving' = serving \union {s1} /\ request' = [request EXCEPT ![r].call = o]
    BY <1>4 DEF Reach
  <2>2. /\ Becomes(r, q) /\ q.stub = request[r].stub /\ q.pc = request[r].pc /\ q.call = o
        /\ request[r].pc \in {"waiting", "closing"}
    BY <1>1, <2>1, CallBecomes
  <2>3. request[r].deadline \in BOOLEAN
    BY RequestFacts DEF Requests
  <2>4. s1 \in Calls /\ s1.caller = r /\ s1.attached
    BY <2>3 DEF Served, GrpcDeadline, Calls
  <2>5. Attached(s1, q)
    BY <2>2 DEF Attached
  <2> HIDE DEF q, s1
  <2>6. request'[r] = q /\ \A t \in RestThreads \ {r} : request'[t] = request[t]
    BY <2>2, BecomesRequest
  <2>7. ServingOK'
    BY <1>2, <1>3, <2>1, <2>4, <2>5, <2>6 DEF ServingOK
  <2>8. serving' # {} => server \in {"running", "stopping"}
    BY <1>4
  <2>9. QED
    BY <1>1, <2>2, <2>7, <2>8, CallMoves
<1>5. CASE server # "running"
  <2> DEFINE o == "unavailable"
             q == [request[r] EXCEPT !.call = o]
  <2>1. serving' = serving /\ request' = [request EXCEPT ![r].call = o]
    BY <1>5 DEF Reach
  <2>2. Becomes(r, q) /\ q.stub = request[r].stub
    BY <1>1, <2>1, CallBecomes DEF Outcomes, Answers
  <2> HIDE DEF q
  <2>3. QED
    BY <1>1, <1>3, <2>1, <2>2, RequestChanges
<1>6. QED
  BY <1>4, <1>5

LEMMA NodeAnswersStep ==
  ASSUME IInv, NEW r \in RestThreads, NodeAnswers(r)
  PROVE  IInv'
<1>1. /\ request[r].call = "sent" /\ IsOut(request[r])
      /\ UNCHANGED <<processVars, serving, connector>>
  BY DEF NodeAnswers, IsOut
<1>2. PICK o \in Answers : request' = [request EXCEPT ![r].call = o]
  BY DEF NodeAnswers, Answers
<1>3. \A s \in serving : s.caller # r
  BY <1>1, RequestFacts DEF Attached
<1> DEFINE q == [request[r] EXCEPT !.call = o]
<1>4. Becomes(r, q) /\ q.stub = request[r].stub
  BY <1>1, <1>2, CallBecomes DEF Outcomes
<1> HIDE DEF q
<1>5. QED
  BY <1>1, <1>3, <1>4, RequestChanges

LEMMA DeadlineEndsStep ==
  ASSUME IInv, NEW r \in RestThreads, DeadlineEnds(r)
  PROVE  IInv'
<1> DEFINE o == "deadline_exceeded"
           q == [request[r] EXCEPT !.call = o]
           Left(s) == IF s.caller = r THEN [s EXCEPT !.attached = FALSE] ELSE s
<1>1. /\ IsOut(request[r]) /\ request' = [request EXCEPT ![r].call = o]
      /\ UNCHANGED <<processVars, connector>> /\ serving' = {Left(s) : s \in serving}
  BY DEF DeadlineEnds
<1>2. /\ Becomes(r, q) /\ q.stub = request[r].stub /\ q.pc = request[r].pc /\ q.call = o
      /\ request[r].pc \in {"waiting", "closing"}
  BY <1>1, CallBecomes DEF Outcomes
<1>3. ServingOK /\ (serving # {} => server \in {"running", "stopping"})
  BY DEF IInv, CallsOK, Housed
<1>4. ASSUME NEW s \in serving
      PROVE  /\ Left(s) \in Calls /\ Left(s).caller = s.caller
             /\ s.caller = r => Left(s).attached = FALSE
             /\ s.caller # r => Left(s) = s
  BY <1>3 DEF ServingOK, Calls
<1> HIDE DEF q, Left
<1>5. request'[r] = q /\ \A t \in RestThreads \ {r} : request'[t] = request[t]
  BY <1>2, BecomesRequest
<1>6. ServingOK'
  <2>1. serving' \subseteq Calls
    BY <1>1, <1>4
  <2>2. ASSUME NEW s \in serving', NEW t \in serving', s.caller = t.caller PROVE s = t
    <3>1. PICK u \in serving : s = Left(u)
      BY <1>1
    <3>2. PICK v \in serving : t = Left(v)
      BY <1>1
    <3>3. u.caller = v.caller
      BY <1>4, <2>2, <3>1, <3>2
    <3>4. u = v
      BY <1>3, <3>3 DEF ServingOK
    <3>5. QED
      BY <3>1, <3>2, <3>4
  <2>3. ASSUME NEW t \in serving', t.caller \in RestThreads
        PROVE  Attached(t, request'[t.caller])
    <3>1. PICK s \in serving : t = Left(s)
      BY <1>1
    <3>2. CASE s.caller = r
      <4>1. t.caller = r /\ t.attached = FALSE
        BY <1>4, <3>1, <3>2
      <4>2. QED
        BY <1>2, <1>5, <4>1 DEF Attached
    <3>3. CASE s.caller # r
      BY <1>3, <1>4, <1>5, <2>3, <3>1, <3>3 DEF ServingOK
    <3>4. QED
      BY <3>2, <3>3
  <2>4. QED
    BY <2>1, <2>2, <2>3 DEF ServingOK
<1>7. serving' # {} => server \in {"running", "stopping"}
  BY <1>1, <1>3
<1>8. QED
  BY <1>1, <1>2, <1>6, <1>7, CallMoves


-----------------------------------------------------------------------------
(* The other steps of a REST thread. *)

USE DEF Become

LEMMA AcceptStep ==
  ASSUME IInv, NEW r \in RestThreads, Accept(r)
  PROVE  IInv'
<1>1. /\ gateway = "open" /\ request[r].pc = "replied" /\ (\A s \in serving : s.caller # r)
      /\ UNCHANGED <<processVars, serving, connector>>
  BY DEF Accept
<1>2. PICK kind \in {"entry", "node"}, header \in TimeoutHeaders :
        request' = [request EXCEPT ![r] =
                      [NoRequest EXCEPT !.pc = "accepted", !.kind = kind,
                                        !.deadline = RestDeadline(header)]]
  BY DEF Accept
<1> DEFINE d  == RestDeadline(header)
           pc == "accepted"
           q  == [NoRequest EXCEPT !.pc = pc, !.kind = kind, !.deadline = d]
           S  == StubsOf(connector)
<1>3. d \in BOOLEAN /\ pc \in Positions
  BY RequestValues DEF RestDeadline
<1> HIDE DEF d, pc, S
<1>4. NoRequest \in Requests(S)
  BY NoRequestFields
<1>5. q \in Requests(S)
  BY <1>3, <1>4 DEF Requests
<1>6. q.pc = "accepted" /\ q.call = "none" /\ q.stub = NoConn /\ q.seen = FALSE
  <2>1. /\ q.pc = pc /\ q.call = NoRequest.call /\ q.stub = NoRequest.stub
        /\ q.seen = NoRequest.seen
    BY <1>4 DEF Requests
  <2>2. QED
    BY <2>1, NoRequestFields DEF pc
<1>7. request' = [request EXCEPT ![r] = q]
  BY <1>2 DEF d, pc
<1>8. request[r].stub = NoConn
  BY <1>1, RequestFacts DEF RequestOK
<1> HIDE DEF q
<1>9. RequestOK(q)
  BY <1>6 DEF RequestOK
<1>10. Becomes(r, q)
  BY <1>1, <1>5, <1>7, <1>9 DEF Becomes, S
<1>11. QED
  BY <1>1, <1>6, <1>8, <1>10, RequestChanges

LEMMA RefuseStep ==
  ASSUME IInv, NEW r \in RestThreads, Refuse(r)
  PROVE  IInv'
<1>1. request[r].pc = "accepted" /\ UNCHANGED <<processVars, serving, connector>>
  BY DEF Refuse
<1>2. PICK flaw \in Flaws :
        request' = [request EXCEPT ![r] =
                      [NoRequest EXCEPT !.flaw = flaw, !.code = RefusalCode(flaw)]]
  BY DEF Refuse
<1> DEFINE code == RefusalCode(flaw)
           q    == [NoRequest EXCEPT !.flaw = flaw, !.code = code]
           S    == StubsOf(connector)
<1>3. code \in Codes /\ flaw \in NoFlaw /\ flaw \notin {"none", "after"}
  BY RequestValues DEF RefusalCode, Flaws
<1> HIDE DEF code, S
<1>4. NoRequest \in Requests(S)
  BY NoRequestFields
<1>5. q \in Requests(S)
  BY <1>3, <1>4 DEF Requests
<1>6. /\ q.pc = "replied" /\ q.call = "none" /\ q.stub = NoConn /\ q.seen = FALSE
      /\ q.flaw \notin {"none", "after"}
  <2>1. /\ q.pc = NoRequest.pc /\ q.call = NoRequest.call /\ q.stub = NoRequest.stub
        /\ q.seen = NoRequest.seen /\ q.flaw = flaw
    BY <1>4 DEF Requests
  <2>2. QED
    BY <1>3, <2>1, NoRequestFields
<1>7. request' = [request EXCEPT ![r] = q]
  BY <1>2 DEF code
<1>8. request[r].stub = NoConn /\ \A s \in serving : s.caller # r
  BY <1>1, RequestFacts DEF RequestOK, Attached
<1> HIDE DEF q
<1>9. RequestOK(q)
  BY <1>6 DEF RequestOK, IsOut
<1>10. Becomes(r, q)
  BY <1>1, <1>5, <1>6, <1>7, <1>9 DEF Becomes, S
<1>11. QED
  BY <1>1, <1>6, <1>8, <1>10, RequestChanges

(* The call of a request is made. *)
LEMMA StartCallStep ==
  ASSUME IInv, NEW r \in RestThreads, StartCall(r)
  PROVE  IInv'
<1> DEFINE q0 == request[r]
           pc == "waiting"
           call == "sent"
           q  == [q0 EXCEPT !.pc = pc, !.call = call]
           S  == StubsOf(connector)
<1>1. q0.pc = "accepted" /\ UNCHANGED <<processVars, serving>>
  BY DEF StartCall
<1>2. q0 \in Requests(S) /\ RequestOK(q0) /\ (\A s \in serving : s.caller # r)
  BY <1>1, RequestFacts DEF Attached
<1>3. q0.call = "none" /\ q0.stub = NoConn /\ ~q0.seen /\ NoConn \notin S
  BY <1>1, <1>2, RequestFacts DEF RequestOK, Outcomes, Answers
<1>4. pc \in Positions /\ call \in CallStates
  BY RequestValues
<1>5. CASE q.kind = "node" /\ S # {}
  <2>1. PICK s \in LeastActive(connector) :
          request' = [request EXCEPT ![r] = [q EXCEPT !.stub = s]]
            /\ connector' = Allocate(connector, s)
    BY <1>5 DEF StartCall
  <2> DEFINE q2 == [q EXCEPT !.stub = s]
  <2>2. s \in S
    BY DEF LeastActive
  <2> HIDE DEF q0, S, pc, call
  <2>3. /\ q2 \in Requests(S) /\ q2.pc = "waiting" /\ q2.call = "sent" /\ q2.stub = s
        /\ q2.seen = q0.seen
    <3>1. q2 \in Requests(S)
      BY <1>2, <1>4, <2>2 DEF Requests
    <3>2. q2.pc = pc /\ q2.call = call /\ q2.stub = s /\ q2.seen = q0.seen
      BY <1>2 DEF Requests
    <3>3. QED
      BY <3>1, <3>2 DEF pc, call
  <2>4. request' = [request EXCEPT ![r] = q2]
    BY <2>1
  <2> HIDE DEF q2
  <2>5. RequestOK(q2)
    BY <1>3, <2>3 DEF RequestOK
  <2>6. Becomes(r, q2)
    BY <1>1, <2>3, <2>4, <2>5 DEF Becomes, q0, S
  <2>7. /\ ConnectorTyped' /\ StubsOf(connector)' = S
        /\ connector'.total_active = connector.total_active + 1
        /\ connector'.active[s] = connector.active[s] + 1
        /\ \A u \in S \ {s} : connector'.active[u] = connector.active[u]
    BY <2>1, <2>2, AllocatedType DEF S, IInv, CallsOK
  <2>8. request'[r].stub = s /\ \A t \in RestThreads \ {r} : request'[t].stub = request[t].stub
    BY <2>3, <2>6, BecomesRequest
  <2>9. /\ Cardinality(AllHolders') = Cardinality(AllHolders) + 1
        /\ Cardinality(HoldersOf(s)') = Cardinality(HoldersOf(s)) + 1
        /\ \A u \in S \ {s} : u # NoConn => HoldersOf(u)' = HoldersOf(u)
    <3>1. request \in [RestThreads -> Requests(StubsOf(connector))]
      BY DEF IInv, CallsOK, RequestsTyped
    <3>2. s \in StubsOf(connector) /\ request[r].stub = NoConn /\ s # NoConn
      BY <1>3, <2>2 DEF q0, S
    <3>3. QED
      BY <2>8, <3>1, <3>2, HoldsMore DEF S
  <2>10. Counted'
    <3>1. Counted
      BY DEF IInv, CallsOK
    <3>2. \A u \in S \ {s} : u # NoConn
      BY <1>3
    <3>3. connector'.active[s] = Cardinality(HoldersOf(s)')
      BY <2>2, <2>7, <2>9, <3>1 DEF Counted, S
    <3>4. \A u \in S \ {s} : connector'.active[u] = Cardinality(HoldersOf(u)')
      BY <2>7, <2>9, <3>1, <3>2 DEF Counted, S
    <3>5. connector'.total_active = Cardinality(AllHolders')
      BY <2>7, <2>9, <3>1 DEF Counted
    <3>6. QED
      BY <2>7, <3>3, <3>4, <3>5 DEF Counted
  <2>11. QED
    BY <1>1, <1>2, <2>6, <2>7, <2>10, StubMoves DEF S
<1>6. CASE ~(q.kind = "node" /\ S # {})
  <2>1. request' = [request EXCEPT ![r] = q] /\ UNCHANGED connector
    BY <1>6 DEF StartCall
  <2> HIDE DEF q0, S, pc, call
  <2>2. /\ q \in Requests(S) /\ q.pc = "waiting" /\ q.call = "sent" /\ q.stub = q0.stub
        /\ q.seen = q0.seen
    <3>1. q \in Requests(S)
      BY <1>2, <1>4 DEF Requests
    <3>2. q.pc = pc /\ q.call = call /\ q.stub = q0.stub /\ q.seen = q0.seen
      BY <1>2 DEF Requests
    <3>3. QED
      BY <3>1, <3>2 DEF pc, call
  <2> HIDE DEF q
  <2>3. RequestOK(q)
    BY <1>3, <2>2 DEF RequestOK
  <2>4. Becomes(r, q)
    BY <1>1, <2>1, <2>2, <2>3 DEF Becomes, q0, S
  <2>5. QED
    BY <1>1, <1>2, <2>1, <2>2, <2>4, RequestChanges DEF q0
<1>7. QED
  BY <1>5, <1>6

LEMMA LateStep ==
  ASSUME IInv, NEW r \in RestThreads, Late(r)
  PROVE  IInv'
<1> DEFINE q0 == request[r]
           b  == TRUE
           q  == [q0 EXCEPT !.late = b]
           S  == StubsOf(connector)
<1>1. /\ q0.pc = "waiting" /\ UNCHANGED <<processVars, serving, connector>>
      /\ request' = [request EXCEPT ![r].late = TRUE]
  BY DEF Late
<1>2. /\ q0 \in Requests(S) /\ RequestOK(q0)
      /\ \A s \in serving : s.caller = r => Attached(s, q0)
  BY RequestFacts
<1>3. request' = [request EXCEPT ![r] = q]
  BY <1>1 DEF IInv, CallsOK, RequestsTyped
<1>4. b \in BOOLEAN
  OBVIOUS
<1> HIDE DEF q0, S, b
<1>5. /\ q \in Requests(S) /\ q.pc = q0.pc /\ q.call = q0.call /\ q.stub = q0.stub
      /\ q.seen = q0.seen /\ q.status = q0.status
  BY <1>2, <1>4 DEF Requests
<1> HIDE DEF q
<1>6. RequestOK(q)
  BY <1>1, <1>2, <1>5 DEF RequestOK
<1>7. Becomes(r, q)
  BY <1>1, <1>3, <1>5, <1>6 DEF Becomes, q0, S
<1>8. \A s \in serving : s.caller = r => Attached(s, q)
  BY <1>2, <1>5 DEF Attached
<1>9. QED
  BY <1>1, <1>5, <1>7, <1>8, RequestChanges DEF q0

(* The thread learns how its call ended. *)
LEMMA GotEventStep ==
  ASSUME IInv, NEW r \in RestThreads, GotEvent(r)
  PROVE  IInv'
<1> DEFINE q0 == request[r]
           pc == "closing"
           b  == TRUE
           q  == [q0 EXCEPT !.pc = pc, !.seen = b, !.status = q0.call]
           S  == StubsOf(connector)
<1>1. /\ q0.pc = "waiting" /\ q0.call \in Outcomes /\ UNCHANGED <<processVars, serving, connector>>
      /\ request' = [request EXCEPT ![r] = q]
  BY DEF GotEvent, Woken
<1>2. /\ q0 \in Requests(S) /\ RequestOK(q0)
      /\ \A s \in serving : s.caller = r => Attached(s, q0)
  BY RequestFacts
<1>3. q0.call \in Statuses /\ b \in BOOLEAN /\ pc \in Positions
  BY <1>1, RequestValues
<1> HIDE DEF q0, S, b, pc
<1>4. /\ q \in Requests(S) /\ q.pc = "closing" /\ q.call = q0.call /\ q.stub = q0.stub
      /\ q.status = q0.call
  <2>1. q \in Requests(S)
    BY <1>2, <1>3 DEF Requests
  <2>2. q.pc = pc /\ q.call = q0.call /\ q.stub = q0.stub /\ q.status = q0.call
    BY <1>2 DEF Requests
  <2>3. QED
    BY <2>1, <2>2 DEF pc
<1> HIDE DEF q
<1>5. RequestOK(q)
  BY <1>1, <1>4 DEF RequestOK, Outcomes, Answers
<1>6. Becomes(r, q)
  BY <1>1, <1>4, <1>5 DEF Becomes, q0, S
<1>7. \A s \in serving : s.caller = r => Attached(s, q)
  BY <1>2, <1>4 DEF Attached
<1>8. QED
  BY <1>1, <1>4, <1>6, <1>7, RequestChanges DEF q0

(* The thread gives its call up, and sets a status of its own. *)
LEMMA GiveUpStep ==
  ASSUME IInv, NEW r \in RestThreads, GiveUp(r)
  PROVE  IInv'
<1> DEFINE q0 == request[r]
           pc == "closing"
           st == "cancelled"
           q  == [q0 EXCEPT !.pc = pc, !.status = st]
           S  == StubsOf(connector)
<1>1. /\ q0.pc = "waiting" /\ IsOut(q0) /\ UNCHANGED <<processVars, serving, connector>>
      /\ request' = [request EXCEPT ![r] = q]
  BY DEF GiveUp
<1>2. /\ q0 \in Requests(S) /\ RequestOK(q0)
      /\ \A s \in serving : s.caller = r => Attached(s, q0)
  BY RequestFacts
<1>3. pc \in Positions /\ st \in Statuses
  BY RequestValues
<1> HIDE DEF q0, S, pc, st
<1>4. ~q0.seen /\ q0.call # "none"
  BY <1>1, <1>2 DEF RequestOK, IsOut, Outcomes, Answers
<1>5. /\ q \in Requests(S) /\ q.pc = "closing" /\ q.call = q0.call /\ q.stub = q0.stub
      /\ q.seen = q0.seen
  <2>1. q \in Requests(S)
    BY <1>2, <1>3 DEF Requests
  <2>2. q.pc = pc /\ q.call = q0.call /\ q.stub = q0.stub /\ q.seen = q0.seen
    BY <1>2 DEF Requests
  <2>3. QED
    BY <2>1, <2>2 DEF pc
<1> HIDE DEF q
<1>6. RequestOK(q)
  BY <1>4, <1>5 DEF RequestOK
<1>7. Becomes(r, q)
  BY <1>1, <1>5, <1>6 DEF Becomes, q0, S
<1>8. \A s \in serving : s.caller = r => Attached(s, q)
  BY <1>2, <1>5 DEF Attached
<1>9. QED
  BY <1>1, <1>5, <1>7, <1>8, RequestChanges DEF q0

(* The reply: the call has ended, whatever the thread saw of it. *)
LEMMA ReplyStep ==
  ASSUME IInv, NEW r \in RestThreads, Reply(r)
  PROVE  IInv'
<1> DEFINE q0   == request[r]
           s    == q0.stub
           S    == StubsOf(connector)
           call == q0.call
<1>0. PICK flaw, code :
        /\ \/ flaw = "none" /\ code = HttpCode(DrainedStatus(q0))
           \/ flaw = "after" /\ code = RefusalCode("after")
        /\ request' = [request EXCEPT ![r] =
             [NoRequest EXCEPT !.call = call, !.flaw = flaw, !.code = code]]
  BY DEF Reply, Become
<1> DEFINE q == [NoRequest EXCEPT !.call = call, !.flaw = flaw, !.code = code]
<1>1. /\ q0.pc = "closing" /\ ~IsOut(q0) /\ UNCHANGED <<processVars, serving>>
      /\ request' = [request EXCEPT ![r] = q]
      /\ connector' = IF GivesBack(q0)
                        THEN Finish(connector, s, Drops(s, DrainedStatus(q0) = "unavailable", TRUE))
                        ELSE connector
  BY <1>0 DEF Reply, QueueEmpty
<1>2. /\ q0 \in Requests(S) /\ RequestOK(q0) /\ NoConn \notin S
      /\ call \in {"none", "sent", "served"} \union Outcomes
      /\ \A t \in serving : t.caller = r => Attached(t, q0)
  BY RequestFacts
<1>3. call \in Outcomes /\ s \in S \union {NoConn}
  BY <1>1, <1>2 DEF RequestOK, IsOut, Requests
<1>4. DrainedStatus(q0) = call
  BY <1>2 DEF DrainedStatus, RequestOK
<1>5. /\ (flaw = "none" /\ code = HttpCode(call)) \/ flaw = "after"
      /\ code \in {200, 403, 503, 408, 500}
  BY <1>0, <1>4 DEF HttpCode, RefusalCode
<1>6. \A t \in serving : t.caller = r => ~t.attached
  BY <1>1, <1>2 DEF Attached, IsOut
<1> HIDE DEF q0, s, S, call
<1>7. NoRequest \in Requests(S) /\ call \in CallStates /\ code \in Codes /\ flaw \in NoFlaw
  <2>1. NoRequest \in Requests(S)
    BY NoRequestFields
  <2>2. call \in CallStates
    BY <1>3, RequestValues
  <2>3. code \in Codes /\ flaw \in NoFlaw
    BY <1>5, RequestValues
  <2>4. QED
    BY <2>1, <2>2, <2>3
<1>8. /\ q \in Requests(S) /\ q.pc = "replied" /\ q.call = call /\ q.stub = NoConn
      /\ q.seen = FALSE /\ q.flaw = flaw /\ q.code = code
  <2>1. q \in Requests(S)
    BY <1>7 DEF Requests
  <2>2. /\ q.pc = NoRequest.pc /\ q.call = call /\ q.stub = NoRequest.stub
        /\ q.seen = NoRequest.seen /\ q.flaw = flaw /\ q.code = code
    BY <1>7 DEF Requests
  <2>3. QED
    BY <2>1, <2>2, NoRequestFields
<1> HIDE DEF q
<1>9. RequestOK(q)
  BY <1>3, <1>5, <1>8 DEF RequestOK, IsOut, Outcomes, Answers, Flaws
<1>10. Becomes(r, q)
  BY <1>1, <1>8, <1>9 DEF Becomes, S
<1>11. \A t \in serving : t.caller = r => Attached(t, q)
  BY <1>3, <1>6, <1>8 DEF Attached, Outcomes, Answers
<1>12. CASE s = NoConn
  <2>1. UNCHANGED connector
    BY <1>1, <1>12 DEF GivesBack, s
  <2>2. QED
    BY <1>1, <1>8, <1>10, <1>11, <1>12, <2>1, RequestChanges DEF q0, s
<1>13. CASE s # NoConn
  <2>1. PICK u \in S : u = s
    BY <1>3, <1>13
  <2>2. Drops(s, DrainedStatus(q0) = "unavailable", TRUE) = FALSE
    <3>1. S \in StubSets
      BY DEF S, IInv, CallsOK, ConnectorTyped
    <3>2. s.ip = NoIp
      BY <2>1, <3>1
    <3>3. QED
      BY <3>2 DEF Drops
  <2>3. GivenBack(u)
    BY <1>1, <1>13, <2>1, <2>2 DEF GivesBack, GivenBack, s
  <2>4. /\ ConnectorTyped' /\ StubsOf(connector)' = S
        /\ connector'.total_active = connector.total_active - 1
        /\ connector'.active[u] = connector.active[u] - 1
        /\ \A v \in S \ {u} : connector'.active[v] = connector.active[v]
    BY <2>3, FinishedType DEF S, IInv, CallsOK
  <2>5. request'[r].stub = NoConn /\ \A t \in RestThreads \ {r} : request'[t].stub = request[t].stub
    BY <1>8, <1>10, BecomesRequest
  <2>6. /\ Cardinality(AllHolders') = Cardinality(AllHolders) - 1
        /\ Cardinality(HoldersOf(u)') = Cardinality(HoldersOf(u)) - 1
        /\ \A v \in S \ {u} : v # NoConn => HoldersOf(v)' = HoldersOf(v)
    <3>1. request \in [RestThreads -> Requests(StubsOf(connector))]
      BY DEF IInv, CallsOK, RequestsTyped
    <3>2. u \in StubsOf(connector) /\ request[r].stub = u /\ u # NoConn
      BY <1>13, <2>1 DEF q0, S, s
    <3>3. QED
      BY <2>5, <3>1, <3>2, HoldsLess DEF S
  <2>7. Counted'
    <3>1. Counted
      BY DEF IInv, CallsOK
    <3>2. \A v \in S \ {u} : v # NoConn
      BY <1>2
    <3>3. connector'.active[u] = Cardinality(HoldersOf(u)')
      BY <2>4, <2>6, <3>1 DEF Counted, S
    <3>4. \A v \in S \ {u} : connector'.active[v] = Cardinality(HoldersOf(v)')
      BY <2>4, <2>6, <3>1, <3>2 DEF Counted, S
    <3>5. connector'.total_active = Cardinality(AllHolders')
      BY <2>4, <2>6, <3>1 DEF Counted
    <3>6. QED
      BY <2>4, <3>3, <3>4, <3>5 DEF Counted
  <2>8. QED
    BY <1>1, <1>10, <1>11, <2>4, <2>7, StubMoves DEF S
<1>14. QED
  BY <1>12, <1>13

HIDE DEF Become


-----------------------------------------------------------------------------
(* The invariant holds, and what follows from it. *)

LEMMA InitIInv == Init => IInv
<1> SUFFICES ASSUME Init PROVE IInv
  OBVIOUS
<1>1. ProcessOK /\ (\A r \in RestThreads : request[r] = NoRequest) /\ serving = {}
  <2>1. /\ main = "configure" /\ failed = FALSE /\ handler = "none" /\ signals = 0
        /\ server = "none" /\ published = FALSE /\ watcher = "none" /\ gateway = "none"
    BY DEF Init
  <2>2. ProcessOK
    <3>1. ProcessTyped
      <4>1. signals \in 0 .. MaxSignals
        BY <2>1
      <4>2. failed \in BOOLEAN /\ published \in BOOLEAN
        BY <2>1
      <4>3. QED
        BY <2>1, <4>1, <4>2 DEF ProcessTyped
    <3>2. Before /\ Starting /\ Building /\ Published
      BY <2>1 DEF Before, Starting, Building, Published
    <3>3. Waiting /\ Stopping /\ Exited
      BY <2>1 DEF Waiting, Stopping, Exited
    <3>4. QED
      BY <3>1, <3>2, <3>3 DEF ProcessOK
  <2>3. (\A r \in RestThreads : request[r] = NoRequest) /\ serving = {}
    BY DEF Init
  <2>4. QED
    BY <2>2, <2>3
<1>2. PICK S \in StubSets : connector = NewConnector(S)
  BY DEF Init
<1>3. S \in StubSets /\ IsFiniteSet(S) /\ NoConn \notin S
  BY <1>2
<1>4. /\ connector.active = [s \in S |-> 0] /\ connector.total_active = 0 /\ StubsOf(connector) = S
      /\ connector \in [active : [S -> Int], total_active : Int]
  BY <1>2 DEF NewConnector, StubsOf
<1>5. RequestOK(NoRequest)
  BY NoRequestFields DEF RequestOK, IsOut
<1>6. RequestsTyped /\ RequestsOK
  <2>1. NoRequest \in Requests(StubsOf(connector)) /\ request = [r \in RestThreads |-> NoRequest]
    BY NoRequestFields DEF Init
  <2> HIDE DEF NoRequest
  <2>2. QED
    BY <1>5, <2>1 DEF RequestsTyped, RequestsOK
<1>7. AllHolders = {} /\ \A s \in S : HoldersOf(s) = {}
  <2>1. \A r \in RestThreads : request[r].stub = NoConn
    BY <1>1, NoRequestFields
  <2>2. QED
    BY <1>3, <2>1 DEF AllHolders, HoldersOf
<1>8. Counted
  BY <1>4, <1>7, FS_EmptySet DEF Counted
<1>9. Housed
  BY <1>1, NoRequestFields DEF Housed
<1>10. QED
  BY <1>1, <1>3, <1>4, <1>6, <1>8, <1>9 DEF IInv, CallsOK, ServingOK, ConnectorTyped

LEMMA NextIInv == IInv /\ [Next]_vars => IInv'
<1> SUFFICES ASSUME IInv, [Next]_vars PROVE IInv'
  OBVIOUS
<1>1. CASE Configure \/ Main \/ Signal \/ HandlerReturns \/ Drained \/ WatcherEnds
  BY <1>1, ProcessSteps DEF IInv, ProcessStep
<1>2. CASE \E c \in Clients : DirectCall(c)
  BY <1>2, DirectCallStep
<1>3. CASE \E c \in RestThreads \union Clients : EntryReturns(c)
  BY <1>3, EntryReturnsStep
<1>4. ASSUME NEW r \in RestThreads,
             Accept(r) \/ NodeAnswers(r) \/ Late(r) \/ Rest(r) \/ Transport(r)
      PROVE  IInv'
  <2>1. CASE Accept(r) \/ NodeAnswers(r) \/ Late(r)
    BY <2>1, AcceptStep, NodeAnswersStep, LateStep
  <2>2. CASE Rest(r)
    BY <2>2, RefuseStep, StartCallStep, GotEventStep, GiveUpStep, ReplyStep DEF Rest
  <2>3. CASE Transport(r)
    BY <2>3, ReachStep, DeadlineEndsStep DEF Transport
  <2>4. QED
    BY <1>4, <2>1, <2>2, <2>3
<1>5. CASE UNCHANGED vars
  <2>1. UNCHANGED <<request, serving, connector>> /\ UNCHANGED processVars
    BY <1>5 DEF vars, processVars
  <2>2. CallsOK'
    BY <2>1, CallsKept DEF IInv
  <2>3. ProcessOK' /\ Housed'
    BY <2>1, ProcessKept DEF IInv, Housed, processVars
  <2>4. QED
    BY <2>2, <2>3 DEF IInv
<1>6. QED
  BY <1>1, <1>2, <1>3, <1>4, <1>5 DEF Next

(* The inductive invariant: where the main thread is, the requests and the
   calls they wait for, and the stubs they hold fit together. *)
THEOREM IInvHolds == Spec => []IInv
<1>1. QED
  BY InitIInv, NextIInv, PTL DEF Spec

LEMMA TypeInIInv == IInv => TypeOK
<1> SUFFICES ASSUME IInv PROVE TypeOK
  OBVIOUS
<1>1. ProcessTyped /\ (published => server # "none")
  BY DEF IInv, ProcessOK, ProcessTyped, Before, Building, Published, Exited
<1>2. request \in [RestThreads ->
       [pc : {"accepted", "waiting", "closing", "replied"}, kind : {"entry", "node"},
        deadline : BOOLEAN, late : BOOLEAN, flaw : Flaws \union {"none", "after"},
        call : {"none", "sent", "served"} \union Outcomes, seen : BOOLEAN, status : Statuses,
        stub : StubsOf(connector) \union {NoConn}, code : {0, 200, 400, 403, 404, 408, 422, 500, 503}]]
  BY DEF IInv, CallsOK, RequestsTyped, Requests, Positions, CallStates, NoFlaw, Codes
<1>3. /\ serving \subseteq [caller : RestThreads \union Clients, attached : BOOLEAN, deadline : BOOLEAN]
      /\ connector \in [active : [StubsOf(connector) -> Int], total_active : Int]
  BY DEF IInv, CallsOK, ServingOK, Calls, ConnectorTyped
<1>4. QED
  BY <1>1, <1>2, <1>3 DEF TypeOK, ProcessTyped

LEMMA StopInIInv == IInv => OrderlyStop
<1> SUFFICES ASSUME IInv, main = "exited"
             PROVE  /\ serving = {} /\ server = "none" /\ ~published
                    /\ gateway \in {"none", "closed"}
                    /\ \A r \in RestThreads : request[r].pc = "replied"
                    /\ watcher \in {"none", "ended"}
  BY DEF OrderlyStop
<1>1. /\ server = "none" /\ ~published /\ gateway \in {"none", "closed"}
      /\ watcher \in {"none", "ended"}
  BY DEF IInv, ProcessOK, Exited
<1>2. serving = {} /\ \A r \in RestThreads : request[r].pc = "replied"
  BY <1>1 DEF IInv, Housed
<1>3. QED
  BY <1>1, <1>2

(* However start-up and the signals went, when main() returns no entry method
   runs, no handler of the gateway does, and the watcher has ended. *)
THEOREM OrderlyStopHolds == Spec => []OrderlyStop
<1>1. QED
  BY IInvHolds, StopInIInv, PTL

LEMMA RepliesInIInv == IInv => RepliesTruthful
<1> SUFFICES ASSUME IInv, NEW r \in RestThreads, NEW q, q = request[r],
                    q.pc = "replied", q.code # 0
             PROVE  /\ q.flaw \in Flaws => q.call = "none"
                    /\ q.flaw = "after" => q.call \in Outcomes
                    /\ q.flaw = "none" =>
                         /\ (q.code = 200) <=> (q.call = "ok")
                         /\ (q.code = 503) <=> (q.call = "unavailable")
                         /\ (q.code = 408) <=> (q.call = "deadline_exceeded")
  BY DEF RepliesTruthful
<1>1. RequestOK(q)
  BY RequestFacts
<1>2. CASE q.flaw # "none"
  BY <1>1, <1>2 DEF RequestOK
<1>3. CASE q.flaw = "none"
  <2>1. q.call \in {"ok", "unavailable", "error", "deadline_exceeded"} /\ q.code = HttpCode(q.call)
    BY <1>1, <1>3 DEF RequestOK, Outcomes, Answers
  <2>2. QED
    BY <1>3, <2>1 DEF HttpCode, Flaws
<1>4. QED
  BY <1>2, <1>3

(* A reply tells how the call ended, whether the thread saw it end, gave it up
   at the deadline, or both at once; a refused request made no call. *)
THEOREM RepliesTruthfulHolds == Spec => []RepliesTruthful
<1>1. QED
  BY IInvHolds, RepliesInIInv, PTL

LEMMA OutstandingInIInv == IInv => NothingOutstanding
<1> SUFFICES ASSUME IInv PROVE NothingOutstanding
  OBVIOUS
<1>1. TypeOK
  BY TypeInIInv
<1>2. \A r \in RestThreads : request[r].pc = "replied" => ~IsOut(request[r])
  BY RequestFacts DEF RequestOK
<1>3. /\ \A s \in StubsOf(connector) :
           connector.active[s] = Cardinality({r \in RestThreads : request[r].stub = s})
      /\ connector.total_active = Cardinality({r \in RestThreads : request[r].stub # NoConn})
  BY DEF IInv, CallsOK, Counted, HoldersOf, AllHolders
<1>4. QED
  BY <1>1, <1>2, <1>3 DEF NothingOutstanding

(* A handler that returned has no call out and holds no stub, and the counts of
   the node's connector are those of the requests that hold one. *)
THEOREM NothingOutstandingHolds == Spec => []NothingOutstanding
<1>1. QED
  BY IInvHolds, OutstandingInIInv, PTL
=============================================================================
