------------------------------- MODULE Server -------------------------------
(***************************************************************************)
(* The aggregator as a process: main() of template.server.C with its       *)
(* configuration, signal_shutdown_handler(), the gRPC server, the address  *)
(* watcher's thread, and the threads of the REST gateway, each of which    *)
(* serves one request at a time, by a call to an entry of the own server   *)
(* (A_x, C_x) or by one to a node (N_x, NC_x).                             *)
(*                                                                         *)
(* Signals are delivered to the main thread, which stands still while the  *)
(* handler runs; the one kind of signal sent is blocked meanwhile.  Until  *)
(* the handler is installed a signal simply ends the process.              *)
(***************************************************************************)
EXTENDS CallInfo, ConnectorOps, Config

CONSTANTS
  Startups,     \* what the process can be started with
  NameOf,       \* the name of an option on the command line
  Schemas,      \* options that end as those that show a schema do
  MethodOptions, \* options that begin with --node or --entry
  Valid,        \* the names of the valid options
  RestThreads,  \* the threads of the gateway
  Clients,      \* gRPC clients that call the entry directly
  StubSets,     \* the sets of stubs the node's connector can have
  MaxSignals    \* bound: signals sent to the process

ASSUME ActorsAssumption ==
  RestThreads \intersect Clients = {} /\ IsFiniteSet(RestThreads) /\ IsFiniteSet(Clients)
ASSUME StubsAssumption ==
  \A S \in StubSets : IsFiniteSet(S) /\ \A s \in S : s # NoConn /\ s.ip = NoIp
ASSUME SignalsAssumption == MaxSignals \in Nat

VARIABLES
  startup,    \* the lines of the file, the environment, the command line, the node's
              \* endpoints, and what became of them: cfg and the node's sets
  rest,       \* rest_listening_ports is configured
  main,       \* the position of the main thread
  failed,     \* error_count is not 0
  handler,    \* "none", or "shutdown" while the handler waits in Shutdown()
  signals,    \* signals sent so far
  server,     \* the gRPC server: none, running, stopping (in Shutdown()) or stopped
  published,  \* grpc_server_ptr is set
  watcher,    \* the lookup thread: none, looking, told to stop or ended
  gateway,    \* civetweb: none, open, closing (in mg_stop()) or closed
  request,    \* REST thread -> the request it serves, or the last it served
  serving,    \* the entry methods that run in the server
  connector   \* the connector of the node
vars == <<startup, rest, main, failed, handler, signals, server, published, watcher, gateway,
          request, serving, connector>>
processVars == <<startup, rest, main, failed, handler, signals, server, published, watcher, gateway>>

NoRequest ==
  [pc |-> "replied", kind |-> "entry", deadline |-> FALSE, late |-> FALSE, flaw |-> "none",
   call |-> "none", seen |-> FALSE, status |-> "ok", stub |-> NoConn, code |-> 0]

Init ==
  /\ startup \in Startups /\ rest = FALSE
  /\ main = "configure" /\ failed = FALSE /\ handler = "none" /\ signals = 0
  /\ server = "none" /\ published = FALSE /\ watcher = "none" /\ gateway = "none"
  /\ request = [r \in RestThreads |-> NoRequest] /\ serving = {}
  /\ connector \in {NewConnector(S) : S \in StubSets}

-----------------------------------------------------------------------------
(* The main thread. *)

At(pos) == main = pos /\ handler = "none"

(* read_cfg(), parse_args() and node_cfg::read_from_cfg().  A certificate that
   a node or a secure port needs may be missing. *)
Configure ==
  LET c    == Configured(startup.lines, startup.environ, startup.argv, NameOf, Schemas,
                         MethodOptions, Valid)
      node == ParseEndpointList(startup.endpoint)
  IN  /\ At("configure")
      /\ startup' = [startup EXCEPT !.cfg = c.cfg, !.node = node]
      /\ rest' = (GetCfg(c.cfg, "rest_listening_ports") # <<>>)
      /\ \E certified \in BOOLEAN :
           LET ready == node.ok /\ certified
           IN  /\ main' = IF c.outcome = "run" /\ ready THEN "start" ELSE "exited"
               /\ failed' = (c.outcome = "failed" \/ (c.outcome = "run" /\ ~ready))
      /\ UNCHANGED <<handler, signals, server, published, watcher, gateway, request, serving,
                     connector>>

(* Of the configuration only what the rest of the process looks at is kept. *)
Forgotten ==
  [lines |-> <<>>, environ |-> <<>>, argv |-> <<>>, elements |-> <<>>, endpoint |-> <<>>,
   cfg |-> <<>>, node |-> Nothing]

(* The handlers are installed, ares_library_init() may fail, and the thread
   that looks addresses up is started. *)
StartWatcher ==
  /\ At("start")
  /\ startup' = Forgotten
  /\ \/ main' = "watching" /\ watcher' = "looking" /\ UNCHANGED failed
     \/ main' = "exited" /\ failed' = TRUE /\ UNCHANGED watcher
  /\ UNCHANGED <<rest, handler, signals, server, published, gateway, request, serving, connector>>

(* BuildAndStart(): a certificate that cannot be read does not keep the server
   from starting, a port that cannot be bound does. *)
BuildAndStart ==
  /\ At("watching")
  /\ \E started, certified \in BOOLEAN :
       /\ server' = IF started THEN "running" ELSE "none"
       /\ failed' = ~(started /\ certified)
  /\ main' = "built"
  /\ UNCHANGED <<startup, rest, handler, signals, published, watcher, gateway, request, serving, connector>>

(* Whether BuildAndStart() returned a server. *)
IsThere(s) == s # "none"

(* The result is stored in grpc_server_ptr. *)
Publish ==
  /\ At("built")
  /\ published' = IsThere(server)
  /\ main' = IF failed THEN "abort" ELSE "gateway"
  /\ UNCHANGED <<startup, rest, failed, handler, signals, server, watcher, gateway, request, serving, connector>>

(* start_civetweb(), when REST ports are configured. *)
StartGateway ==
  /\ At("gateway")
  /\ \/ ~rest /\ main' = "wait" /\ UNCHANGED <<failed, gateway>>
     \/ rest /\ main' = "wait" /\ gateway' = "open" /\ UNCHANGED failed
     \/ rest /\ main' = "abort" /\ failed' = TRUE /\ UNCHANGED gateway
  /\ UNCHANGED <<startup, rest, handler, signals, server, published, watcher, request, serving, connector>>

ShuttingDown(s) == IF s = "running" THEN "stopping" ELSE s

(* Start-up failed: Shutdown() is called here, when there is a server. *)
Abort ==
  /\ At("abort")
  /\ server' = IF published THEN ShuttingDown(server) ELSE server
  /\ main' = "draining"
  /\ UNCHANGED <<startup, rest, failed, handler, signals, published, watcher, gateway, request, serving, connector>>

AbortDone ==
  /\ At("draining") /\ server \in {"none", "stopped"}
  /\ main' = "stop"
  /\ UNCHANGED <<startup, rest, failed, handler, signals, server, published, watcher, gateway, request, serving,
                 connector>>

(* Wait() returns; stop_civetweb() asks the gateway to stop. *)
Wait ==
  /\ At("wait") /\ server = "stopped"
  /\ gateway' = IF gateway = "open" THEN "closing" ELSE gateway
  /\ main' = "stopgateway"
  /\ UNCHANGED <<startup, rest, failed, handler, signals, server, published, watcher, request, serving, connector>>

(* A bug the checks must notice: mg_stop() is not waited for. *)
NotJoined == TRUE

(* mg_stop() joins the threads of the gateway. *)
GatewayJoined == gateway = "none" \/ \A r \in RestThreads : request[r].pc = "replied"

StopGateway ==
  /\ At("stopgateway") /\ GatewayJoined
  /\ gateway' = IF gateway = "closing" THEN "closed" ELSE gateway
  /\ main' = "stop"
  /\ UNCHANGED <<startup, rest, failed, handler, signals, server, published, watcher, request, serving, connector>>

(* A bug the checks must notice: stop_looking is set only with a gateway. *)
ToldWithGateway(w) == IF w = "looking" /\ gateway = "closed" THEN "told" ELSE w

(* What setting stop_looking does to the watcher. *)
Told(w) == IF w = "looking" THEN "told" ELSE w

StopWatcher ==
  /\ At("stop")
  /\ watcher' = Told(watcher)
  /\ main' = "join"
  /\ UNCHANGED <<startup, rest, failed, handler, signals, server, published, gateway, request, serving, connector>>

(* cares_thread.join(), the server is destroyed and main() returns. *)
Exit ==
  /\ At("join") /\ watcher = "ended"
  /\ main' = "exited" /\ server' = "none" /\ published' = FALSE
  /\ UNCHANGED <<startup, rest, failed, handler, signals, watcher, gateway, request, serving, connector>>

Main == StartWatcher \/ BuildAndStart \/ Publish \/ StartGateway \/ Abort \/ AbortDone \/ Wait
          \/ StopGateway \/ StopWatcher \/ Exit

-----------------------------------------------------------------------------
(* What happens around it. *)

(* signal_shutdown_handler(): without a pointer nothing is shut down, and the
   signal is lost. *)
Signal ==
  /\ main \notin {"configure", "start", "exited"} /\ handler = "none" /\ signals < MaxSignals
  /\ signals' = signals + 1
  /\ handler' = IF published THEN "shutdown" ELSE "none"
  /\ server' = IF published THEN ShuttingDown(server) ELSE server
  /\ UNCHANGED <<startup, rest, main, failed, published, watcher, gateway, request, serving, connector>>

HandlerReturns ==
  /\ handler = "shutdown" /\ server = "stopped"
  /\ handler' = "none"
  /\ UNCHANGED <<startup, rest, main, failed, signals, server, published, watcher, gateway, request, serving,
                 connector>>

(* Shutdown() ends when no entry method runs any more. *)
Drained ==
  /\ server = "stopping" /\ serving = {}
  /\ server' = "stopped"
  /\ UNCHANGED <<startup, rest, main, failed, handler, signals, published, watcher, gateway, request, serving,
                 connector>>

(* The watcher leaves its loop (AddressStore: WatcherStops). *)
WatcherEnds ==
  /\ watcher = "told"
  /\ watcher' = "ended"
  /\ UNCHANGED <<startup, rest, main, failed, handler, signals, server, published, gateway, request, serving,
                 connector>>

(* A call served: on whose behalf, whether the caller still waits for it, and
   whether its call_info has a deadline. *)
Served(c, attached, deadline) == [caller |-> c, attached |-> attached, deadline |-> deadline]

(* A client calls the entry, with a deadline or without. *)
DirectCall(c) ==
  /\ server = "running" /\ \A s \in serving : s.caller # c
  /\ \E d \in BOOLEAN : serving' = serving \union {Served(c, TRUE, GrpcDeadline(d, TRUE))}
  /\ UNCHANGED <<processVars, request, connector>>

(* The entry method returns (EntryMethod: EveryRequestReturns), and if a REST
   thread waits for it the call ends. *)
EntryReturns(c) == \E s \in serving :
  /\ s.caller = c
  /\ serving' = serving \ {s}
  /\ IF s.attached /\ c \in RestThreads
       THEN \E o \in Answers : request' = [request EXCEPT ![c].call = o]
       ELSE UNCHANGED request
  /\ UNCHANGED <<processVars, connector>>

-----------------------------------------------------------------------------
(* A thread of the gateway. *)

Become(r, q) == request' = [request EXCEPT ![r] = q]
IsOut(q) == q.call \in {"sent", "served"}

(* A request arrives.  Bound: not while the server still runs the method of a
   call this thread gave up. *)
Accept(r) ==
  /\ gateway = "open" /\ request[r].pc = "replied" /\ \A s \in serving : s.caller # r
  /\ \E kind \in {"entry", "node"}, header \in TimeoutHeaders :
       Become(r, [NoRequest EXCEPT !.pc = "accepted", !.kind = kind,
                                   !.deadline = RestDeadline(header)])
  /\ UNCHANGED <<processVars, serving, connector>>

(* Replied to without a call. *)
Refuse(r) ==
  /\ request[r].pc = "accepted"
  /\ \E flaw \in Flaws :
       /\ flaw = "hook" => request[r].kind = "entry"
       /\ Become(r, [NoRequest EXCEPT !.flaw = flaw, !.code = RefusalCode(flaw)])
  /\ UNCHANGED <<processVars, serving, connector>>

(* StartCall() and Finish(); a connector without stubs lends its dead_end. *)
StartCall(r) ==
  LET q == [request[r] EXCEPT !.pc = "waiting", !.call = "sent"]
  IN  /\ request[r].pc = "accepted"
      /\ IF q.kind = "node" /\ StubsOf(connector) # {}
           THEN \E s \in LeastActive(connector) :
                  Become(r, [q EXCEPT !.stub = s]) /\ connector' = Allocate(connector, s)
           ELSE Become(r, q) /\ UNCHANGED connector
      /\ UNCHANGED <<processVars, serving>>

(* gRPC: the call reaches the own server, or finds it gone. *)
Reach(r) ==
  /\ request[r].kind = "entry" /\ request[r].call = "sent"
  /\ IF server = "running"
       THEN /\ serving' = serving \union
                            {Served(r, TRUE, GrpcDeadline(request[r].deadline, TRUE))}
            /\ request' = [request EXCEPT ![r].call = "served"]
       ELSE /\ request' = [request EXCEPT ![r].call = "unavailable"]
            /\ UNCHANGED serving
  /\ UNCHANGED <<processVars, connector>>

(* gRPC: a node answers; dead_end connects to nothing. *)
NodeAnswers(r) ==
  /\ request[r].kind = "node" /\ request[r].call = "sent"
  /\ \E o \in IF request[r].stub = NoConn THEN {"unavailable"} ELSE Answers :
       request' = [request EXCEPT ![r].call = o]
  /\ UNCHANGED <<processVars, serving, connector>>

(* The deadline passes. *)
Late(r) ==
  /\ request[r].pc = "waiting" /\ request[r].deadline /\ ~request[r].late
  /\ request' = [request EXCEPT ![r].late = TRUE]
  /\ UNCHANGED <<processVars, serving, connector>>

(* gRPC: a call out past its deadline ends; the server may still work on it. *)
DeadlineEnds(r) ==
  /\ request[r].late /\ IsOut(request[r])
  /\ request' = [request EXCEPT ![r].call = "deadline_exceeded"]
  /\ serving' = {IF s.caller = r THEN [s EXCEPT !.attached = FALSE] ELSE s : s \in serving}
  /\ UNCHANGED <<processVars, connector>>

(* A bug the checks must notice: only a success wakes the thread up. *)
WokenByOk(q) == q.call = "ok"

(* AsyncNext() has an event for the thread. *)
Woken(q) == q.call \in Outcomes

(* AsyncNext() returns GOT_EVENT, and with it the status. *)
GotEvent(r) ==
  /\ request[r].pc = "waiting" /\ Woken(request[r])
  /\ Become(r, [request[r] EXCEPT !.pc = "closing", !.seen = TRUE, !.status = request[r].call])
  /\ UNCHANGED <<processVars, serving, connector>>

(* AsyncNext() returns TIMEOUT and the deadline has passed. *)
GiveUp(r) ==
  /\ request[r].pc = "waiting" /\ IsOut(request[r]) /\ request[r].late
  /\ Become(r, [request[r] EXCEPT !.pc = "closing", !.status = "cancelled"])
  /\ UNCHANGED <<processVars, serving, connector>>

(* A bug the checks must notice: closeq() does not wait for the call. *)
NotWaited(q) == TRUE

(* closeq() can return: the call is not out. *)
QueueEmpty(q) == ~IsOut(q)

(* A bug the checks must notice: the status is not taken from the queue. *)
OwnStatus(q) == q.status

(* L_status after closeq(): an event drained there stores its status. *)
DrainedStatus(q) == IF q.seen THEN q.status ELSE q.call

(* A bug the checks must notice: finished() is called for successes only. *)
GivesBackOk(q) == q.stub # NoConn /\ DrainedStatus(q) = "ok"

(* finished() has a stub to give back. *)
GivesBack(q) == q.stub # NoConn

(* closeq(), finished() and the reply, unless the hook for after the call of an
   entry makes another one. *)
Reply(r) ==
  LET q == request[r]
  IN  /\ q.pc = "closing" /\ QueueEmpty(q)
      /\ connector' = IF GivesBack(q)
                        THEN Finish(connector, q.stub,
                                    Drops(q.stub, DrainedStatus(q) = "unavailable", TRUE))
                        ELSE connector
      /\ \E flaw \in {"none", "after"} :
           /\ flaw = "after" => q.kind = "entry"
           /\ Become(r, [NoRequest EXCEPT !.call = q.call, !.flaw = flaw,
                                          !.code = IF flaw = "none" THEN HttpCode(DrainedStatus(q))
                                                   ELSE RefusalCode(flaw)])
      /\ UNCHANGED <<processVars, serving>>

Rest(r) == Refuse(r) \/ StartCall(r) \/ GotEvent(r) \/ GiveUp(r) \/ Reply(r)
Transport(r) == Reach(r) \/ DeadlineEnds(r)

Next ==
  \/ Configure \/ Main \/ Signal \/ HandlerReturns \/ Drained \/ WatcherEnds
  \/ \E c \in Clients : DirectCall(c)
  \/ \E c \in RestThreads \union Clients : EntryReturns(c)
  \/ \E r \in RestThreads : Accept(r) \/ NodeAnswers(r) \/ Late(r) \/ Rest(r) \/ Transport(r)

Spec == Init /\ [][Next]_vars

(* The threads are scheduled (the main thread once it is configured), the
   watcher leaves its loop, entry methods return, time passes.  That nodes
   answer, or that signals come, is not assumed. *)
Fairness ==
  /\ WF_vars(Main) /\ WF_vars(HandlerReturns) /\ WF_vars(Drained) /\ WF_vars(WatcherEnds)
  /\ \A c \in RestThreads \union Clients : WF_vars(EntryReturns(c))
  /\ \A r \in RestThreads : WF_vars(Rest(r)) /\ WF_vars(Transport(r)) /\ WF_vars(Late(r))

FairSpec == Spec /\ Fairness

-----------------------------------------------------------------------------
(* The types, and that there is a pointer only while there is a server. *)
TypeOK ==
  /\ main \in {"configure", "start", "watching", "built", "gateway", "abort", "draining", "wait", "stopgateway",
               "stop", "join", "exited"}
  /\ failed \in BOOLEAN /\ handler \in {"none", "shutdown"} /\ signals \in 0 .. MaxSignals
  /\ server \in {"none", "running", "stopping", "stopped"}
  /\ published \in BOOLEAN /\ (published => server # "none")
  /\ watcher \in {"none", "looking", "told", "ended"}
  /\ gateway \in {"none", "open", "closing", "closed"}
  /\ request \in [RestThreads ->
       [pc : {"accepted", "waiting", "closing", "replied"}, kind : {"entry", "node"},
        deadline : BOOLEAN, late : BOOLEAN, flaw : Flaws \union {"none", "after"},
        call : {"none", "sent", "served"} \union Outcomes, seen : BOOLEAN, status : Statuses,
        stub : StubsOf(connector) \union {NoConn}, code : {0, 200, 400, 403, 404, 408, 422, 500, 503}]]
  /\ serving \subseteq [caller : RestThreads \union Clients, attached : BOOLEAN, deadline : BOOLEAN]
  /\ connector \in [active : [StubsOf(connector) -> Int], total_active : Int]

(* The value of every option is the last one of the command line, or else of
   the environment, or else of the file. *)
ConfigPrecedence ==
  LET last(settings, n) ==
        LET vs == SelectSeq(settings, LAMBDA p : p[1] = n)
        IN  IF vs = <<>> THEN <<>> ELSE vs[Len(vs)][2]
      args  == ParseArgs(startup.argv, <<>>, NameOf, Schemas, MethodOptions, Valid).cfg
      given == [i \in 1 .. Len(args) \div 2 |-> <<args[2 * i - 1], args[2 * i]>>]
      first(s, t) == IF s # <<>> THEN s ELSE t
  IN  main = "start" => \A n \in Valid :
        GetCfg(startup.cfg, n) =
          first(last(given, n), first(last(startup.environ, n), last(Options(startup.lines), n)))

(* Every element of a list of endpoints ends up in the set of its kind, but for
   a last element of a single character, which is lost; and the addresses of a
   looked up HOST:PORT are stored under the name a connector asks for. *)
EndpointsParsed ==
  LET es == startup.elements
      n  == Len(es)
      kept == IF n > 0 /\ Len(es[n]) = 1 THEN SubSeq(es, 1, n - 1) ELSE es
      of(k) == {kept[i] : i \in {j \in DOMAIN kept : kept[j][1] = k}}
      lookedUp == of("(") \union {Tail(e) : e \in of("@")}
  IN  main = "start" =>
        /\ startup.node.dendpoints = lookedUp
        /\ startup.node.fendpoints = {kept[i] : i \in DOMAIN kept} \ (of("(") \union of("@"))
        /\ \A ep \in lookedUp :
             Cardinality(Colons(ep)) = 1 => ConnectorKey(ep) = NameFromEndpoint(ep)

(* When main() returns nothing is left that uses what it destroys: no entry
   method runs, no thread of the gateway is in a handler and no other can come,
   and the watcher, which refers to main()'s list of names, has ended. *)
OrderlyStop ==
  main = "exited" =>
    /\ serving = {} /\ server = "none" /\ ~published
    /\ gateway \in {"none", "closed"} /\ \A r \in RestThreads : request[r].pc = "replied"
    /\ watcher \in {"none", "ended"}

(* The gateway replies with the outcome of the call, and not with its own
   CANCELLED, which it sets when it gives up waiting at the deadline: 200 only
   when the call succeeded, 503 and 408 only for a missing server and a missed
   deadline.  A refused request has made no call, and where a hook replies after
   the call, with any code, the call has ended. *)
RepliesTruthful == \A r \in RestThreads :
  LET q == request[r]
  IN  q.pc = "replied" /\ q.code # 0 =>
        /\ q.flaw \in Flaws => q.call = "none"
        /\ q.flaw = "after" => q.call \in Outcomes
        /\ q.flaw = "none" =>
             /\ (q.code = 200) <=> (q.call = "ok")
             /\ (q.code = 503) <=> (q.call = "unavailable")
             /\ (q.code = 408) <=> (q.call = "deadline_exceeded")

(* A handler that returned has no call out, which would store its answer and its
   status in the handler's locals, and has given its stub back however it ended:
   the node's connector counts exactly the requests that hold one. *)
NothingOutstanding ==
  LET holders(s) == {r \in RestThreads : request[r].stub = s}
  IN  /\ TypeOK
      /\ \A r \in RestThreads : request[r].pc = "replied" => ~IsOut(request[r])
      /\ \A s \in StubsOf(connector) : connector.active[s] = Cardinality(holders(s))
      /\ connector.total_active = Cardinality({r \in RestThreads : request[r].stub # NoConn})

(* A call to a node that nothing limits: the request's timeout header is not
   positive. *)
Unlimited == \E r \in RestThreads :
  request[r].kind = "node" /\ ~request[r].deadline /\ request[r].call = "sent"

(* A signal that finds the server stops the process, unless a request waits for
   a node without a deadline: mg_stop() then never returns. *)
SignalStops == (handler = "shutdown") ~> (main = "exited" \/ []Unlimited)

(* Every REST request gets its reply, unless it waits for a node without a
   deadline. *)
EveryRequestReplies == \A r \in RestThreads :
  (request[r].pc = "accepted") ~>
    (request[r].pc = "replied" \/ (request[r].kind = "node" /\ ~request[r].deadline))
=============================================================================
