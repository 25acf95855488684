# A specification of flow-compiler

flow-compiler (`src/flowc`) compiles a *flow* - a description of gRPC entries and of the
nodes they call - into an aggregator: a C++ gRPC server that runs the nodes of an entry in
stages and gathers their answers, a REST gateway in front of it, and a command line client.
The program has two lives, and so has this project: the compiler (a sequential program over
a syntax tree) and the aggregator it writes (a threaded server). Most of what is hard to
test is in the second, in `template.server.C` and in the code `gc-server.C` generates: the
modules of the aggregator interleave its threads, the network and signals. Those of the
compiler follow one run of flowc from its options to its files, over all flows and requests
of a bounded shape; what is nondeterministic there is the file system and the programs it calls.

## Inventory

| Component | Source | State | Operations | Interacts with |
|---|---|---|---|---|
| Node connectors | `template.server.C` 1073-1184 | `stubs`, calls per stub, `total_active`, under a mutex | `count`, `stub`, `finished`, `release` | shared by all requests; made by `X_get_connector()`, drops addresses in the store |
| Address watcher and store | 838-1056, 1234-1249 | `address_store`, versions, `deleted_ips`, `stop_looking`; per node `X_nversion`, `X_conp` | `keep_looking`, `update_addresses`, `remove_address`, `get_latest_addresses`, `X_get_connector` | one thread writes, all requests read |
| Generated entry methods | `gc-server.C` 780-1330, `template.server.C` 804-808, 1250-1293 | per request: stage, calls, completion queue, connections held | error checks, nodes, calls, send, wait, abort, close, release | connectors, gRPC |
| gRPC wrapper, `call_info` | `template.server.C` 640-740 | flags, deadline | read metadata, decide deadlines | entry methods, gateway |
| REST gateway | 1380-2000 | per thread: the request, its call and queue, a stub | check, call, wait, give up, `closeq`, reply | the own server, connectors of the nodes |
| Start-up, shutdown | 2370-2725 | server, `grpc_server_ptr`, watcher thread, signal handlers | `BuildAndStart`, `Wait`, `Shutdown`, `join` | watcher, gateway |
| Server configuration | 200-640, 995-1030 | `cfg`, a vector of names and values | read file, environment, command line; parse endpoint lists | connectors, watcher, start-up |
| Generated client | `template.client.C` | slots, window, output queues | `process_file`, `output` | the aggregator |
| Flow graph | `flow-compiler.C` 608-735, `flow-ast.H` 580-640 | nodes reached, matrix, stages | reach, sweep, find circles | its stages drive the generator |
| Names, types, dimensions, code | `flow-compiler.C`, `gc-server.C`, `grpc-helpers.C`, `flow-pgcc.C` | the tree's attributes, `fdps`, `icode` | resolve, check, emit instructions, write C++ | flow graph, generators |
| Syntax tree, parser | `flow-ast.*`, `flow-parser.*`, `flow-pgcc.C` | the tree | tokenize, parse, iterate | compiler |
| Template expander | `vex.*`, `veximpl.C` | variables, loops around | match blocks, count, expand | all generators |
| Generators | `gc-*.C`, `gvars.C`, `tree-accessors.C`, `print-*.C` | columns of variables, ports | read blocks, fill columns, expand | compiler, expander |
| Driver | `flowc.C` | targets, `error_count`, files | closure of targets, steps of `process()` | everything, protoc, make |
| Deployment scripts | `template.driver.sh`, `rr-*.sh` | containers | deploys | docker, kubectl |
| Utilities | `filu.C`, `stru1.H`, ... | none | strings, files | everything |

### What is hard, and what makes it right

* **Connectors**: any number of threads take and give back stubs in any order, with an error
  flag that penalizes a stub. Right: counts equal the calls that hold a stub; the load is even.
* **Address watcher**: a thread updates lists while requests compare versions with it; lookups
  fail; dropped addresses are reported back. Right: a request is served with the current lists
  of all names of its node, without looking at the lists when nothing changed.
* **Entry methods**: the calls of all nodes of a stage share one completion queue and end in any
  order; each answer may release the next call; a failure, a cancellation or the deadline aborts
  the stage while calls are under way, and meanwhile the connector of the node is replaced.
  Right: connections return to the connector they came from, once; nothing is under way after
  the method returned, since calls write to its stack; the client gets the outcome of the calls.
* **Client**: answers in any order, lines that make no call, errors that stop it. Right: output
  in the order of the input, nothing lost, no call forgotten.
* **Flow graph**: alternates with conditions, whose references count for the alternates behind
  them, and circles. Right: a node's stage is after the stages of all it needs, all that is
  needed is there, and a circle is refused.
* **REST gateway**: a request that is given up at its deadline may be answered all the same; a
  call is out on a queue in the handler's frame; a header may take the deadline away. Right: the
  code tells what became of the call, nothing is out when the handler returns, stubs are returned.
* **Start-up and shutdown**: a signal at any position of `main()`, failures half way, threads that
  use what `main()` destroys. Right: nothing uses it any more when `main()` returns, and a signal
  that finds a server ends the process.
* **Configuration**: three sources in one vector read by twos from its end; endpoint lists split
  by index arithmetic, under names that are computed again elsewhere.
* **Names in a flow**: short, qualified and package names over several files, ids given and
  chosen, enumerations. Right: a name means the one thing it is the name of, or is refused.
* **The order of the code**: alternates in several stages, error checks before the first stage
  that finds what they mention final. Right: the first alternate that holds runs.
* **Loops, expressions, assignments**: loops of nodes and of repeated fields numbered by position,
  parentheses from a table of priorities, conversions by pairs of types. Right: no index passes
  the end of its vector, and C++ reads what the flow says.
* **Templates and their variables**: blocks end at labels, one index picks a node's values from
  columns that are filled row by row. Right: every container is started with its own port,
  addresses, mounts and limits.
* **Targets**: what is asked for depends on what is not. Right: make finds what it needs.

The file `PROJECT.json` lists every hazard with its line and the properties about it.

## Modules

```
the aggregator                                          the compiler
ConnectorOps <--- Connector <--- MCConnector            FlowGraph <--- MCFlowGraph, FlowGraphProofs
     ^  ^            ^--- ConnectorProofs                   ^
     |  +-- EntryMethod <--- MCEntryMethod              Compiler     uses Declarations, Assignments
     |         |  refines ScatterGather                     ^  ^--- GeneratedCode <--- MCCompiler
     |         +--- EntryMethodProofs                       |         uses Loops, Expressions
     |                   ^--- EntryMethodTheorems       Driver <--- CompilerProofs
     +----- Server <--- MCServer, ServerProofs              ^  uses ProtoNames, Deployment
            uses CallInfo, Config                           |       (which uses Blocks, Templates)
AddressStore <--- MCAddressStore, AddressStoreProofs    GeneratedFiles <--- MCDriver
     |  refines AddressDirectory                            uses GeneratedCode, TemplateExpansion,
Client <--- ClientProofs                                         MessageFields
```

MCDriver extends MCCompiler, and that MCFlowGraph: the one run `flow_graph` of the compiler takes
the flows of all three through `Driver`, whose steps include those of `Compiler`, whose steps
include those of `FlowGraph`. `FlowGraph`, `Compiler` and `Driver` are free of recursive operators, so that
they can be proved about. What the compiler computes by recursion over values, templates and messages
are parameters of them - `ValueDimension`, `Expanded`, `MessageErrors` - which the run gives the
definitions of `Loops`, `TemplateExpansion` and `MessageFields`: the proofs hold whatever these
compute. The properties of these definitions themselves are in `GeneratedCode` and `GeneratedFiles`.

* **ConnectorOps** has the methods of `connector` as operators on a value `[active,
  total_active]`; a stub is a record of the endpoint, the address and the copy. `LeastActive` is
  the set of stubs that can come first in the sorted index, as `std::sort` does not order equal counts.
* **Connector** lets callers use one connector. Every method holds the mutex to its end and is
  one step. `drops` is a history variable.
* **AddressDirectory** is the abstract promise: one directory of lists; who asks for a
  connector gets one built from the lists as they are.
* **AddressStore** is namespace `casd` and `X_get_connector()`. `watcher` is the position of
  `keep_looking()`: `LookUp` is a round of lookups (c-ares and plug-ins both end in `updates`),
  `UpdateAddresses` applies the answers under the store's mutex, `GetConnector` is
  `X_get_connector()` with `get_latest_addresses()`. An entry that is not in the map has version 0.
* **ScatterGather** is the abstract promise of an entry method: calls are made stage by stage;
  a stage is left when all its calls succeeded; a request returns when none is out, with an
  error only if a call failed with it, the request was cancelled or expired, or the method has
  a reason of its own (`no_address`, `refused`).
* **EntryMethod** is the generated method with `X_prep()`, `X_call()` and `closeq()`, for calls
  made one by one and overlapped. `method[e]` holds the locals of request `e`; `connectors[n]`
  all the connectors node `n` has had, so that a request keeps the one it took. One step is one
  connector method with the local work around it. Tags are positions in `status`, the ranges
  `begin`/`end` are BX and EX, and `NodeOf` finds the node of a tag as the generated `if` chain
  does. Filling in a node's input or the reply may end the method, where an enum does not have the
  value (`Filled`). `Complete`, `Cancel` and `Expire` are gRPC's.
* **Client** is `process_file()` with `output_queue`. What is written is only told apart by kind.
* **FlowGraph** is `build_flow_graph()` with `get_all_nodes()` and `get_referenced_node_types()`.
  Nodes are numbers in the order of the source; the flow is given by the first node of each
  label, what has a condition, and what conditions and bodies refer to. The loop over the stack
  in `Reach` takes any node: the set it ends with is the same. The properties define what a node
  needs (`Needs`) anew from the flow, not by the operators of the algorithm.

* **CallInfo** is what the constructors of `call_info` decide about deadlines, the checks of a REST
  request in their order, the hooks before and after the call of an entry, and the HTTP code of a gRPC status.
* **Config** has `read_cfg()`, `parse_args()`, `get_cfg()`, `parse_endpoint_list()` and
  `name_from_endpoint()` as operators on lines, words and characters that are told apart no more
  than the code does. `Schemas` are the options that end as one that shows a schema does, `MethodOptions`
  those that are taken for one when `argv[1]` ends like that.
* **Server** is the process. `main` is the position of the main thread, one step per call that
  can fail or wait; `Signal` runs the handler on that thread, which waits in `Shutdown()`.
  `request[r]` is what a thread of the gateway serves: accepted, waiting on its queue, closing it,
  replied. `Reach`, `NodeAnswers` and `DeadlineEnds` are gRPC's. The watcher, the entry methods
  and the connector are what AddressStore, EntryMethod and Connector show of them: a loop that
  ends when it is told, a call that returns, the operators of ConnectorOps.
* **Declarations** is `fixup_node_ids()` and the types of `fixup_proto_refs()`; **Loops** the dimensions,
  the references a node loops over, and the loop instructions with the indices `cpp_var()` writes
  for them; **Expressions** the instructions of `encode_expression()` and the stack of texts
  `gc_server_method()` makes of them - with `Reading`, what C++ reads in such a text, as the
  reference; **Assignments** the conversions of `populate_message()` for all pairs of types.
* **Compiler** is `compile()`: CheckNodeIds and AssignNodeId are the passes of `fixup_node_ids()`,
  FixupProtoRefs what rejects types and names, BuildFlowGraph the steps of FlowGraph,
  then UpdateDimensions. EmitCheck, EmitNode and EndStage are the loop of `compile_flow_graph()`, which writes
  the checks of a stage before its nodes and nodes without a call before the others; EmitReply ends it.
* **GeneratedCode** is Compiler with the loops and expressions of its code, and what is right of these.
* **ProtoNames** is `flow-pgcc.C` and what looks names up in it: a dotted name is a sequence.
  **MessageFields** is `compile_fldm()`, which goes down the fields of a message.
* **Templates** has the tokens a template is a sequence of, **TemplateExpansion** is vex: `EndOf` is
  `match_macro()`, `Expand` is `vex_r()`. `Rendering` says what the tree a template was written from is
  meant to become.
* **Blocks** is `tree-accessors.C`: elements with a key, a type and a value; errors are counted.
* **Deployment** is `gc-conf.C` and `gvars.C`: columns as functions from names to sequences, the ports,
  environments, mounts and groups, and the templates reduced to what they say of a node. The
  operators that begin with `Meant` say the same from the declarations, without columns. Where the code has an
  image tagged for another node, `PossibleTags` says which are possible.
* **Driver** is `main()` and `process()` of flowc: AddDependents is a turn of the loop that completes the targets,
  `step` is what is next in `Steps`, `files` what was written. A file may fail to be written and make may
  fail; copies may fail unnoticed (`lost`). `Referenced`, the end of a loop over references, is the
  least set that holds all that is referenced from it. **GeneratedFiles** is Driver with the
  expander, and what is right of that.

Operators that begin with "A bug the checks must notice" are variants of the definition that
follows. They are used nowhere; put in the place of that definition each breaks a property.

## Checks

| Run | Module | What it shows | Bounds |
|---|---|---|---|
| `connector` | MCConnector | types, `Accounting`, `EvenShare` | 4 callers, 1 fixed and 2 looked up stubs, each dropped up to twice |
| `connector_dropped` | MCConnector | *violated*: a dropped stub is not handed out while there is another | same |
| `address_store` | MCAddressStore | `VersionsOrdered`, `CacheCoherent`, the refinement of AddressDirectory, `WatcherStops` | 2 nodes sharing one of 2 names, 2 addresses, 2 iterations |
| `address_dropped` | MCAddressStore | *violated*: an address that is dropped is in no list when it is forgotten | same |
| `one_request` | MCEntryMethod | `HeldWhileOut` (with the types), the refinement of ScatterGather, `EveryRequestReturns` under fairness | stages of 2 nodes and 1, up to 2 calls each |
| `two_requests` | MCEntryMethod | `WindowRespected`, `PoolAccounting`, `NothingLeft` | 2 requests, 1 node, 2 calls each, 2 connectors |
| `node_maxcc` | MCEntryMethod | *violated*: maxcc is the number of concurrent calls to a node | 2 requests, 1 call |
| `server` | MCServer | `ConfigPrecedence`, `EndpointsParsed`, `OrderlyStop`, `RepliesTruthful`, `NothingOutstanding` (with the types), `SignalStops`, `EveryRequestReplies` | 2 gateway threads, 1 direct client, 1 signal, a node with one stub or none, see below |
| `flow_graph` | MCDriver | FlowGraph: `StagesOrdered`, `StagesTight`, `StagesComplete`, `CirclesReported`; Compiler: `FirstAlternateRuns`, `ErrorChecksPlaced`, `IndicesInLoops`, `ExpressionsKept`, `AssignmentsConvert`; Driver: `ArtefactsComplete`, `NamesResolve`, `TemplatesExpand`, `NodesDeployed` | flows of 4 nodes, see below |
| `error_checks` | MCDriver | *violated*: every error check about the input and nodes of the entry is in its code | same |
| `client` | Client | `SlotsAgree` (with the types), `InOrder`, `NothingLost`, `Ends` | up to 4 lines, up to 3 calls at a time, all options |
| `client_headers` | Client | *violated*: headers of all answered calls reach the headers file | same |

Why the bounds are enough:

* *connector*: with 3 stubs, 4 callers exceed an even share of one, so stubs are shared; two
  drops of one stub distinguish "counted once" from "summed up".
* *address_store*: with two iterations a list is made in one and changed, kept or failed in
  the other, while each node is before, between or behind them; the shared name makes a node
  newer in one name and older in the other. The bound `MaxIterations` stops lookups, not the watcher.
* *one_request*: two nodes in a stage are the least for which tags must be told apart, two
  calls on one stub the least for a call to wait for another; the second stage starts with the
  vectors of the first emptied. Nodes may have no address at all. Connectors are not replaced here.
* *two_requests*: one node suffices as connectors are per node; a second connector makes a
  request hold one that was replaced. The requests are symmetric.
* *server*: two threads share the one stub of a node, so that a lost or doubled return shows in its
  count; one signal meets every position of `main()` and every state of the requests. Start-ups vary
  one part at a time: files of up to three lines with continuations and unknown options, command
  lines of up to three words, lists of up to three endpoints of each form and separator.
* *flow_graph*, graphs: three nodes of which two are alternates, in all combinations of conditions and
  of references to one or two labels; four nodes each referring to one node or the input, so
  that circles of length 1 to 4 occur on and off the path from the entry; and three alternates of
  one label over up to three stages, called and not. Five error checks mention the input,
  a label or two, and what is never available.
* *flow_graph*, programs: ids given to three nodes of a label, actions of all kinds and types; messages of one or two
  fields, in which values of dimension 0 to 2 with reducing functions meet, at a first node of dimension
  0 or 1, in a node and in the reply; operators over operators; all pairs of field types. These are
  varied for one flow each: nothing in the code relates them to the shape of the graph.
* *flow_graph*, requests: all pairs of targets; two files with packages equal, nested or missing,
  imported in either order, and eight forms of a method's name; two entries; paths,
  what entries return; labels and messages for fields; pages of one kind of block with a body of two and a
  block in it, over variables of size 0, 1 and 3, where loops with and without names of variables refer
  to their index, to those of loops in them, and have loops that name variables or none in them; two nodes and
  a container with a dozen blocks of settings, and mounts with and without names.
* *client*: four lines with three slots fill the window, leave a gap of two in the queue and
  have the first line answered last.

Deadlock is checked for `connector`, `connector_dropped` and `address_store`. The others stop
when their requests or their work are done, the process has exited or flowc has returned.

Some properties hold only where the code is right, and say where it is not: `IndicesInLoops` leaves out
what is not `Aligned` and sizes of what is no vector, `ExpressionsKept` is an
equivalence with the three kinds of expressions that are changed, `EndpointsParsed` says which element is
lost, `ErrorChecksPlaced` is about the checks that are written and says which must be (`error_checks` shows
the others), `TemplatesExpand` leaves out loops that name no variable and have an index in them,
and `NodesDeployed` allows tags of other nodes where a node without an image comes before one
with an image, and says nothing of the scales of groups if one without an image is at the local host.
`NamesResolve` is about packages that are told apart and files that are imported once.

### Fairness

* The watcher thread is scheduled, and `sleep()` and lookups return (`WF_vars(Watcher)`).
* Server threads are scheduled (`WF_vars(Thread(e))`), and a call that was sent ends
  (`WF_vars(Complete(e))`): `X_prep()` and `X_call()` set a deadline on every call. Cancellation
  and expiry are not fair: nothing depends on them.
* In the server the main thread and those of the gateway are scheduled, `Shutdown()` ends when no
  entry method runs, entry methods return (`EveryRequestReturns`), the watcher leaves its loop
  (`WatcherStops`), and time passes. No fairness for nodes: they may never answer, so that a
  request to a node without a deadline is left out of `SignalStops` and `EveryRequestReplies`. The
  main thread may stay before its configuration; signals may never come.
* The client is a loop (`WF_vars(Main)`); its calls end with an answer, the loss of the
  connection or the deadline (`WF_vars(Complete(x))`; with `--timeout 0` the deadline is the server's).

### Where code and comments differ

* `finished()` subtracts 100000 from the count of a dropped stub, and `stub()` takes the lowest
  count: the comment says "Mark with a very high count so it won't be allocated anymore"
  (`connector_dropped`). Besides, what is given to `remove_address()` only keeps an address from
  being added again: it stays in the list, and a later connector has it again (`address_dropped`).
* `maxcc` is a number of stubs per connector (one, once any name of the node has been resolved)
  and the window is kept by each request; the help says "Maximum number of concurrent requests
  that can be send to" the node (`node_maxcc`).
* A blank line or an ignored JSON error of the client is entered in the output queue only: with
  a headers file of its own, the headers of all later calls are never written (`client_headers`).
* Error checks are written at the beginning of stages only, and what they refer to is looked up field by
  field: one that waits for the last stage, mentions a message or reduces a list is in no code. The syntax says
  that they "are evaluated as soon as the dependencies are satisfied" (`error_checks`).

Noticed while reading, and not the subject of a run. They are modelled as the code has them, or in
what is left out; the properties named leave them out.

* The timeout of an entry is passed to `call_info` and not used (`template.server.C` 734): a gRPC client that
  sets no deadline is served without one; `flowc.help` 67 says "If processing of any method exeeds this timeout
  the method will reply with DEADLINE_EXCEEDED".
* `#` drops the last character of the name of its argument (`flow-compiler.C` 1074), which is an index only if
  the argument itself is repeated or a whole result: of a single field in a repeated message the size is read with
  one index too many. `flow-parser.y` 201 says "size of repeated field" (`IndicesInLoops`).
* A loop of a template that names no variables counts its own index, and those of loops in it, among the macros
  it refers to, with one value each (`veximpl.C` 430), so that it may go round once only; 104 says that the loop
  variable "can be referenced in the template and yields the current index" (`TemplatesExpand`).
* The driver script names the image that gets the tag of a node by `IM_NODE_NAME` (`template.driver.sh` 19), a
  column in which nodes without an image have no row (`gvars.C` 282-285): after such a node a tag goes to the image of
  another, or of none. The usage says of --tag "Force the image name or tag for node NODE_NAME" (`NodesDeployed`).
* The arguments of `starts_with()` are swapped in `gvars.C` 223, so that a group is not scaled for a
  node at localhost; 219 says "grab scale from nodes with image or endpoint with localhost" (`NodesDeployed`).
* Client: blank lines are reflected without their line end (`template.client.C` 139); headers are
  shown only with `--show-headers`, also when a headers file is given (404).
* Server: `parse_args()` looks at `argv[1]` for `-proto`, `-input` and `-output` whichever
  argument it is at, so that after such an option all that begin with `--node` or `--entry` are taken for
  one and `--entry-timeout`, say, is no option any more; an endpoint from a command needs a `:port`; a signal before the server is
  published is lost.
* Graph: the search for circular references does not run for graphs of up to three nodes, which
  are refused with the general message. Of two alternates without a condition only the last is in
  `get_all_nodes()`, but the first is compiled as well. An alternate without an action is compiled, and
  what only its condition mentions is not counted as referenced (`flow-compiler.C` 2000 tests `a` for `c`).
* Compiler: dimensions of error messages are compared before there are any (2068-2072); a text for a numeric field is reported
  and not counted (1473); an entry's return type is compared by its end, without a dot (1894); right
  operands of equal priority lose their parentheses, and `?:` becomes text that is no C++.
* Proto files: a file that was first seen as an import is not looked at again, so that its own
  imports are missing; no code is generated for imports of imports.
* Settings: the limit of calls of a node is read from "replicas"; `gvars.C` 48 writes the address of a member
  function; volumes are listed once per node that mounts them; an automatic port of the
  compose file may be one that was declared; what goes wrong in `genc_k8s_conf()` is not returned,
  nor counted is a mount without a path; the name of an image with a slash is lost (`flowc.C` 349-351);
  the name of the volume "htdocs" is compared with generated names only, not with those given (445).
* Templates: of nested blocks with one label the outer one ends where the inner does; the
  errors of `vex::expand()` are looked at by no generator.
* Driver: with `--dockerfile` alone there is no `docs` directory, which the image rule copies.

## Proofs

Checked by TLAPS, for all values of the constants that satisfy the assumptions named in the modules:

| Module | Theorem | States |
|---|---|---|
| ConnectorProofs | `TypeCorrect` | `Spec => []TypeOK` |
| | `AccountingHolds` | counts are those of the calls holding a stub, less penalties |
| | `EvenShareHolds` | without drops, no stub has more than its even share of the callers, rounded up |
| AddressStoreProofs | `TypeCorrect` | `Spec => []TypeOK` |
| | `VersionsOrderedHolds` | no version runs ahead of the last change, nor that of the iteration |
| | `CacheCoherentHolds` | a cache at least as new as an entry holds its list |
| | `ImplementsDirectoryHolds` | AddressStore implements AddressDirectory |
| EntryMethodProofs | `IInvHolds` | the inductive invariant of the entry methods |
| EntryMethodTheorems | `TypeCorrect` | `Spec => []TypeOK` |
| | `HeldWhileOutHolds` | in a stage a call holds a stub while it is out or its end is on the queue |
| | `WindowRespectedHolds` | no more calls of a request to a node are out than its connector has stubs |
| | `NothingLeftHolds` | a request that returned has no call out, no event and no stub |
| | `PoolAccountingHolds` | every connector counts the calls of all requests that hold its stubs, less penalties |
| | `ScatterGatherHolds` | EntryMethod implements ScatterGather |
| ServerProofs | `IInvHolds` | the inductive invariant of the aggregator as a process |
| | `OrderlyStopHolds` | when main() returns nothing is left that uses what it destroys |
| | `RepliesTruthfulHolds` | the code of a reply says what became of the call |
| | `NothingOutstandingHolds` | a handler that returned has no call out, and stubs are counted exactly |
| ClientProofs | `IInvHolds` | the inductive invariant of the client |
| | `SlotsAgreeHolds` | slots, calls and `active_calls` agree; a line to be sent finds a slot |
| | `InOrderHolds` | output and headers are in the order of the input |
| | `NothingLostHolds` | every line is in one place, and is written at the end |
| FlowGraphProofs | `TypeCorrect` | `Spec => []TypeOK`, with a column in the matrix for every reference |
| | `StagesOrderedHolds` | a stage needs only the input and earlier stages; no node is in two |
| | `StagesTightHolds` | a node needs one of the stage before its own |
| | `StagesCompleteHolds` | a finished graph holds exactly what the entry needs |
| | `CirclesReportedHolds` | the graph fails exactly when there is a circle, and blames nodes on one |
| CompilerProofs | `FirstAlternateRunsHolds` | of a label's alternates the first that holds runs, its name is no other node's, and types agree |
| | `ErrorChecksPlacedHolds` | an error check that is written is written once, in the first stage that finds what it mentions final, and all those are that mention single values and have such a stage |
| | `AssignmentsConvertHolds` | what is accepted for a field is converted to its type, but for two kinds |
| | `DriverCompiles` | `DriverSpec => CompileSpec`: flowc is the compiler and steps around it |
| | `DriverInvHolds` | the inductive invariant of flowc |
| | `ArtefactsCompleteHolds` | make finds what it needs, success means all that was asked for, the server knows the nodes it calls |
| | `FlowcKeepsThem` | the properties of FlowGraph and of the code, for flowc as a whole |

*Connector.* `TypeOK` and `Accounting` are inductive. The sets of holders change by one element
in each step (`StubHolders`, `FinishedHolders`), and the library's facts on the cardinality of
finite sets do the rest. `EvenShare` is inductive together with them: when a stub `s` is handed
out its count is minimal, so every stub has at least as many holders as `s`, and the callers
together are at least that many times the stubs, plus the one that asks (`ManyHolders`: pairing
every stub with the numbers up to that count injects into the busy callers).

*AddressStore.* `VersionsOrdered` is proved from a strengthening, `VersionsInv`, that also says where
the watcher is. `CacheCoherent` needs it: an entry restamped by `UpdateAddresses` gets the current
iteration, which is later than any version a cache may have. For the refinement, `Listing` changes
only in `UpdateAddresses` (a step of the directory, `UpdateImplements`); a connector that is asked
for has, by `CacheCoherent` and `GetConnectorCurrent`, exactly the current lists; every other step stutters.

*EntryMethod.* The constants are any requests (a finite set), stages without a repeated node, numbers
of calls, sets of stubs, and a penalty greater than 0 (the code takes off 100000; `PoolAccounting`
is modulo the penalty, which means nothing for 0). `TypeOK` is far from inductive. The invariant `IInv` says
of the connectors that their stubs are among those declared (`PoolsOK`), and of each request what
holds at each position of its thread (`MethodInv`):

* `Numbered`: the calls of the nodes prepared so far have the tags 1 to `Len(status)` without gap
  or overlap. So `NodeOf`, which compares a tag with the ends of the nodes one by one, finds the node
  of the call (`NodeOfCall`, `NumberedCall`): this is why an event releases the right stub.
* `LoopInv`: of call `i` of a node, `sent` says whether it was sent, and `ConN` whether it is out or
  its end is still queued; while it waits, `recv` is the number of ends taken off the queue.
* `EventInv`: between taking an event and sending the next call one connection is free, so the
  next call never exceeds the window; `SendInv` and `WindowOf` say the same while a stage begins.
* `PrepareInv`, `CallInv`, `CalledInv` are the positions of calls made one by one, `DrainInv` and
  `ReleaseInv` those after an abort or the last answer: all calls ended before anything is given up.

`MethodInv` is an operator of a local state and of the table of stubs (`StubTable`), not of the
variables. Connectors only get longer and never change their stubs, so a step of one thread is a fact
about two records, and for the other threads it is enough that tables grow (`GrownInv`). There
is a lemma for each action, and one level down for each conjunct it can disturb. That a set of
tags has a least one (`Least`, the next call to send) follows from the library's well-founded orders.

`PoolAccounting` is inductive given `IInv`: in each step the set of calls that hold a stub of a connector
changes by one pair of a request and a call, or not at all (`OneMoreCounted`, `OneLessCounted`);
an error with accumulated addresses adds the penalty, which the remainder hides (`WithinPenalty`).
For `ScatterGather` every thread is mapped to its stage, its calls and its result; each action is
a step of the promise or stutters (`PreparePromised` to `InterruptedPromised`), with `IInv` for what
the promise asks: that all calls of a stage succeeded when it is left, and that an
error that is returned is that of a call (`AbortInv`).

*Server.* The constants are any finite sets of gateway threads and clients, any fixed stubs (with no
address, so that none is dropped) and any number of signals. The invariant relates the position of `main`
to the server, the pointer the handler uses, the watcher and the gateway (`ProcessOK`, one part for each
stretch of `main()`); says that entries run only in a server and handlers only in a gateway (`Housed`);
what each request may rely on at its position, in particular that once its end has been `seen` the status is
that of the call (`RequestOK`); and that a call being served belongs to a request whose call it is
(`ServingOK`). `RepliesTruthful` holds as a reply is written only when the end was seen: also a thread
that gave up waits for it in `closeq()`. `OrderlyStop` follows from `Exited`, `Housed` and the stretches before.

*Client.* `QueueOK` says of an `output_queue` that what is written is a prefix in order and that what waits
does not begin at the next line; `OutputFacts`, about `output()`, shows that it keeps it, whatever line comes next. `LinesPlaced`
is a partition: the lines that were read are queued or written, with a call under way, or in hand. The
assertion on the slot holds because fewer than `concurrent_calls` slots are in use when a line is sent. At the end
nothing is under way and nothing in hand, so all lines were given to the queue, and the one that waits
with the least number could have been written. Errors and calls together are no more than lines
(the last conjunct), which bounds `error_count`.

*FlowGraph.* `RowIsNeeds` shows that a row of the matrix marks what a node needs as the properties
define it. `TypeOK` needs `Looked`: what a node that was looked at refers to, and its alternates,
have been looked at or will be. `StagesOrdered` needs `SolvedInv`: `solved` is what the stages
hold. `StagesTight` needs that what is not solved yet needs something that was not there before the last stage.
`StagesComplete` needs that everything looked at is in every closed set with the entry
(`NeededInv`); conversely the stages with the entry are such a set. `CirclesReported`: when no node is solvable,
each of those left needs another, and the one from which the fewest nodes are reached is on a
circle (`CircleExists`, by the order of finite sets, in place of an induction); the loop does
not end for its bound first, as every stage but the last has a node and the entry is in none (`FilledStage`);
when it ends with the entry, the stages up to a node are a closed set without it; and
the matrix, however often paths were made longer, only has pairs of a node and one it reaches (`PathsInv`).

*Compiler.* The constants are any nodes, flows and programs that agree with each other (`ProgramsAssumption`:
what the parser leaves - a node's label is the first node that has it, ids are numbers, a node without
an action mentions nothing). Every step is one of FlowGraph or leaves it alone (`GraphStep`), so its theorems and
invariants hold. `CompileInv` has three parts. `ProgramInv`: the graph is done before dimensions are
looked at, and nothing is written before that. `NamesInv`: ids given to nodes of a label differ, and once types
are checked every node of a label with several has one; it is inductive as one of as many numbers
as there are nodes is free (`FreeId`, by the pigeonhole principle). `CodeInv`: what was written so far -
each node's code tests exactly the alternates before it that were not written when it was
(`NodesInv`), `fava` is what is final in this stage, a written check is in the first stage that
could have it, and one that is not could be in none so far (`ChecksInv`). `FirstAlternateRuns` then needs that the
stages hold all alternates of a node they hold (`CompiledFacts`, from the completeness of the graph):
the code of the first alternate that holds tests only alternates before it (`FirstCodeRuns`), and any other code
of the label that would run either comes later or tests it (`FirstRuns`, `LastRuns`).
`AssignmentsConvert` is a fact about all pairs of types (`FieldAlwaysConverts`, `LiteralAlwaysConverts`).

*Driver.* Requests are any whose options are among `Options` (`RequestsAssumption`). `DriverInv` says at
every step of `process()`, by its place in `Steps`, that what each wanted step before it makes
was written or lost (`LeftBefore`), that nothing went on after an error, and that the targets are closed under what
they depend on once the loop of `main()` is over. A step that ends well goes on with the next that
is wanted (`NextWanted`), so nothing between was left out. `ArtefactsComplete` follows
for make from the places of the steps (`MakeFindsFiles`) and for each option from its dependents (`PromisesKept`).
Its last part compares two traversals of the flow: `Referenced` and the stages. Given any set with what is
referenced from it, the nodes whose alternates are in the set are closed under what a node needs
(`GraphReferenced`), thus hold the graph; the one case that needs care is a node that is not its own
alternate, whose last alternate has no condition and so refers to everything (`AlternatesMention`).

The invariants `IInv` of EntryMethod, Server and Client, `CompileInv` and `DriverInv` were model-checked
with the constants of the runs as well.

Only model-checked:

* liveness - `WatcherStops`, `EveryRequestReturns`, `SignalStops`, `EveryRequestReplies`, `Ends` - which
  the prover does not do;
* `ConfigPrecedence` and `EndpointsParsed`, which are about what recursive functions and folds make of every
  sequence: an induction over data;
* `IndicesInLoops`, `ExpressionsKept` and `TemplatesExpand`, which are about what recursive operators (of
  Loops, Expressions, TemplateExpansion) make of every value or template: an induction over data;
* `NamesResolve` and `NodesDeployed`, which are about folds over every list of files and every block.

## Not modelled

See the components in `PROJECT.json`. In the modelled parts:

* logging and timing; the contents of messages in EntryMethod (a node's inputs are a number of calls);
  in the generated code three branches that cannot be reached (the abort for `count() == 0` at the
  end of a stage, which the preparation of calls has excluded, `NextOK` being false, and `X_prep()`
  returning no call);
* the store into `slot` by `Next()` in the client, through a pointer to a wider type, is taken to
  store the tag and nothing else: what lies behind is the build's choice;
* `call_info` reads the member `time_call` before it has a value (`template.server.C` 709): it
  only decides whether times are reported;
* REST: files, schemas, the text of replies, chunks of bodies, TLS; of a refused request only its code,
  and of a hook that it may set any. Certificates are there or missing when the server is configured;
* the `int` of a connector's count: that drops may sum up until it wraps is outside the model;
* signals before there is a server are lost in the model as in the code, and no property is about them;
* names of nodes are different if their declarations are: two names that are the same when they are
  spelled as identifiers in lower case make one C++ name, which the model does not have. A flow without a
  return is not compiled, and every flow here has one;
* the built in functions of flows, and tables of names and declarations in the generated server;
* vex: options that change letters, quotes or indentation; comments;
* settings: secrets, remote volumes, init containers, names of images; JSON schemas and descriptions;
  pseudo code and graphs are text for the reader;
* the parser (generated from a grammar), shell scripts (docker and kubectl decide what they
  do), and the helpers for strings, files and terminals.

## Plan

The text the generated client and the built in functions add, if a property asks for it.
