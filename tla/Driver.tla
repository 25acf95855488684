------------------------------- MODULE Driver -------------------------------
(***************************************************************************)
(* flowc itself: main() and flow_compiler::process() of flowc.C, with the   *)
(* compiler, what is set for the templates, and the files that are written. *)
(*                                                                         *)
(* A request is what flowc is asked to do with a flow: the options on the   *)
(* command line, the proto files there are, what the blocks of the nodes    *)
(* say, and the state of the file system that is looked at.                 *)
(***************************************************************************)
EXTENDS Compiler, Deployment, ProtoNames

CONSTANTS
  Requests(_),               \* what is asked of flowc with a flow
  MessageErrors(_, _, _, _)  \* the errors of a message that is written out

(* The options with an argument of all_targets, and what each depends on. *)
Options ==
  { "dockerfile", "client", "server", "grpc-files", "build-client", "python-client", "build-server",
    "build-image", "makefile", "driver", "ssl-certificates", "protobuf-files", "www-files" }
AllTargets ==
  [t \in Options |->
     CASE t = "dockerfile"   -> {"makefile", "ssl-certificates"}
       [] t = "client"       -> {"grpc-files", "makefile", "dockerfile", "docs"}
       [] t = "server"       -> {"grpc-files", "makefile", "dockerfile", "www-files", "ssl-certificates", "docs"}
       [] t = "grpc-files"   -> {"protobuf-files"}
       [] t = "build-client" -> {"client"}
       [] t = "build-server" -> {"server"}
       [] t = "build-image"  -> {"server", "client", "docs"}
       [] OTHER              -> {}]

ASSUME RequestsAssumption ==
  \A f \in Flows : \A r \in Requests(f) : r.options \subseteq Options

VARIABLES
  request,
  step,         \* what process() does next
  targets,      \* what was asked for and what it depends on
  failed,       \* there was an error
  fdps,         \* the proto files that are imported
  layout,       \* nodes and containers, with names and groups
  global,       \* the columns of global_vars
  files,        \* what was written
  lost,         \* copies that failed, which is not looked at
  generated     \* the text of what was generated from templates

driver_vars == <<request, step, targets, failed, fdps, layout, global, files, lost, generated>>
whole_vars  == <<all_vars, driver_vars>>

WithDependents(ts) == ts \union UNION {AllTargets[t] : t \in ts \cap Options}

DriverInit ==
  /\ CompileInit
  /\ request \in Requests(flow)
  /\ step = "targets"
  /\ targets = WithDependents(request.options) /\ failed = FALSE
  /\ fdps = <<>> /\ layout = <<>> /\ global = <<>>
  /\ files = {} /\ lost = {} /\ generated = <<>>

-----------------------------------------------------------------------------
(* A bug the checks must notice: dependents of dependents are forgotten. *)
NoneIsMissing(ts) == TRUE

(* main() adds what the targets depend on until nothing new is added. *)
NothingMissing(ts) == WithDependents(ts) = ts

AddDependents ==
  /\ step = "targets" /\ ~NothingMissing(targets)
  /\ targets' = WithDependents(targets)
  /\ UNCHANGED <<all_vars, request, step, failed, fdps, layout, global, files, lost, generated>>

(* Files that are made for an image only go to a directory that is removed. *)
UseTempdir == request.options = {"build-image"}

(* The files, by kind and name. *)
ProtoDocs   == {<<"docs", f>> : f \in ToSet(fdps)}
PbFiles     == {<<"pb", f>> : f \in ToSet(fdps)}
GrpcFiles   == {<<"grpc", f>> : f \in {g \in ToSet(fdps) : request.protos[g].methods # <<>>}}
Certificates == IF request.certificates = "same" THEN {<<"pem", "default">>}
                ELSE {<<"pem", "grpc">>, <<"pem", "rest">>}
Dockerfiles == {<<"dockerfile", "full">>, <<"dockerfile", "slim">>}
Extra       == IF request.extra THEN {<<"header", "extra">>} ELSE {}

-----------------------------------------------------------------------------
(* The steps of process() that are left out if not asked for. *)
Steps == << "protobuf-files", "grpc-files", "variables", "print-proto", "server", "client",
            "ssl-certificates", "makefile", "dockerfile", "build-image", "build",
            "python-client", "driver", "www-files" >>
Wanted(s) ==
  CASE s = "variables"   -> TRUE
    [] s = "print-proto" -> request.prints # <<>>
    [] s = "build"       -> {"build-server", "build-client"} \cap targets # {}
    [] s = "www-files"   -> s \in targets /\ request.rest # "no"
    [] OTHER             -> s \in targets
After(s) ==
  LET done == {k \in DOMAIN Steps : Steps[k] = s}
      next == {k \in DOMAIN Steps : k > Max(done \union {0}) /\ Wanted(Steps[k])}
  IN  IF next = {} THEN "return" ELSE Steps[Min(next)]

(* A step is over; after an error nothing else is done. *)
Done(s, ok) ==
  /\ failed' = (failed \/ ~ok)
  /\ step' = IF failed' THEN "return" ELSE After(s)

(* Any of the files may fail to be written; the others are. *)
Write(s, wanted, unknown) ==
  \E written \in SUBSET wanted :
    /\ files' = files \union written
    /\ Done(s, written = wanted /\ ~unknown)

Unchanged(vs) == UNCHANGED <<all_vars, request, targets, vs>>

(* The copies of the sources: nobody sees whether they were made. *)
Copies ==
  (IF "docs" \in targets THEN {<<"docs", "main">>} ELSE {})
    \union (IF "makefile" \in targets THEN Extra ELSE {})
Start ==
  /\ step = "targets" /\ NothingMissing(targets)
  /\ IF ~request.accessible
     THEN step' = "return" /\ failed' = TRUE /\ UNCHANGED <<files, lost>>
     ELSE /\ \E copied \in SUBSET Copies : files' = copied /\ lost' = Copies \ copied
          /\ step' = "parse" /\ UNCHANGED failed
  /\ Unchanged(<<fdps, layout, global, generated>>)

(* parse(), and the imports: those on the command line before those of the flow,
   if it could be parsed. *)
Parse ==
  /\ step = "parse"
  /\ LET given == Imported(request.protos, <<>>, request.imports)
         all   == Imported(request.protos, given.fdps,
                           IF request.parses /\ given.errors = 0 THEN request.flow_imports ELSE <<>>)
         ok    == request.parses /\ given.errors = 0 /\ all.errors = 0
     IN  fdps' = all.fdps /\ failed' = ~ok /\ step' = IF ok THEN "compile" ELSE "names"
  /\ Unchanged(<<layout, global, files, lost, generated>>)

(* What the flow refers to: methods of entries and of nodes that call one. *)
EntryReferences ==
  [k \in DOMAIN request.entries |->
     [is |-> "entry", name |-> request.entries[k].name, returns |-> request.entries[k].returns]]
NodeReferences ==
  [k \in DOMAIN Ascending(Calls(source.nodes)) |->
     [is |-> "method", name |-> request.methods[Ascending(Calls(source.nodes))[k]]]]
MessageReferences == [k \in DOMAIN request.messages |-> [is |-> "message", name |-> request.messages[k]]]
ProtoReferences == EntryReferences \o NodeReferences \o MessageReferences

(* fixup_proto_refs() and compile_expressions() reject what is not in the proto
   files.  The fields are those of the message the entry returns. *)
FieldErrors == MessageErrors(request.types, request.labels, request.reply.message, request.reply.fields)
ProtosRejected == ReferencesRejected(request.protos, fdps, ProtoReferences) \/ FieldErrors > 0

(* compile() *)
Compile ==
  /\ step = "compile"
  /\ CompileNext
  /\ phase = "names" /\ Unnamed(source.nodes, ids) = {} =>
       (phase' = "rejected" <=> ProtosRejected \/ TypesRejected(source.nodes))
  /\ UNCHANGED driver_vars

-----------------------------------------------------------------------------
(* The nodes of the source, with their ids, and the containers. *)
NodeLabel(n) == "n" \o ToString(Label(n))
NodeName(n)  == NodeLabel(n) \o IF ids[n] = 0 THEN "" ELSE "." \o ToString(ids[n])
Declaration(n) ==
  [name |-> NodeName(n), type |-> NodeLabel(n), group |-> "",
   kind |-> IF n \in Calls(source.nodes) THEN "client" ELSE "copy",
   block |-> request.blocks[n], mounts |-> request.mounts[n]]
GivenNodes ==
  FoldLeft(LAMBDA ns, n : Append(ns, Declaration(n)), <<>>, Ascending(Nodes)) \o request.containers

(* Names of mounts and groups, and what the options decide. *)
GroupErrors(nodes) ==
  MapThenSumSet(LAMBDA n : BlockValues(nodes[n].block, "group", {"string", "integer"}).errors, DOMAIN nodes)
NameAndSet ==
  /\ \/ step = "names"
     \/ step = "compile" /\ phase \in {"compiled", "rejected"}
  /\ LET refused == failed \/ phase # "compiled"
         nodes   == IF refused THEN <<>> ELSE Named(GivenNodes)
         ok      == /\ ~refused /\ GroupErrors(nodes) = 0
                    /\ \A n \in DOMAIN nodes : NvErrors(nodes[n].block, "environment", PlainValues) = 0
                    /\ request.runtime /\ request.base_port # request.rest_port
     IN  /\ layout' = nodes
         /\ global' = DefVars(request.defines, nodes)
         /\ Done("names", ok)
  /\ Unchanged(<<fdps, files, lost, generated>>)

-----------------------------------------------------------------------------
(* protoc is called for one file after the other. *)
GenProtobuf ==
  /\ step = "protobuf-files" /\ Write(step, PbFiles, FALSE)
  /\ Unchanged(<<fdps, layout, global, lost, generated>>)
GenGrpc ==
  /\ step = "grpc-files" /\ Write(step, GrpcFiles, FALSE)
  /\ Unchanged(<<fdps, layout, global, lost, generated>>)

(* The labels that entries and error checks mention, and the nodes that are
   referenced from there on: by actions, and by the conditions of nodes that
   have an action.  The condition that is not there is the whole tree. *)
RootLabels == flow.refs[Entry] \union {r.label : r \in UNION Range(source.checks)}
AllLabels  == RootLabels \union UNION {flow.refs[n] \union flow.condition[n] : n \in Nodes}
LabelsIn(n) ==
  IF source.nodes[n].action = "none" THEN {}
  ELSE flow.refs[n] \union IF flow.conditional[n] THEN flow.condition[n] ELSE AllLabels
AddReferenced(R) == R \union UNION {Alternates(l) : l \in RootLabels \union UNION {LabelsIn(n) : n \in R}}
Referenced == {n \in Nodes : \A R \in SUBSET Nodes : AddReferenced(R) \subseteq R => n \in R}

MethodOf(n) == CheckMethod(request.protos, fdps, request.methods[n])[1].method
Entries ==
  [k \in DOMAIN request.entries |->
     LET m == CheckMethod(request.protos, fdps, request.entries[k].name)[1].method
     IN  [service |-> m.service, method |-> m.name, block |-> request.entries[k].block]]

(* The columns of the proto files, of the nodes that are deployed, and of the
   entries and the nodes the server calls. *)
ProtoVars ==
  [PROTO_FILE |-> fdps, PB_GENERATED_C |-> fdps,
   GRPC_GENERATED_C |-> SelectSeq(fdps, LAMBDA f : <<"grpc", f>> \in GrpcFiles)]
NodeListVars ==
  LET listed == Ascending(Deployed(layout))
  IN  [XCLI_NODE_NAME |-> [k \in DOMAIN listed |-> layout[listed[k]].name],
       NODE_NAME      |-> [k \in DOMAIN listed |-> layout[listed[k]].name],
       NODE_GROUP     |-> [k \in DOMAIN listed |-> layout[listed[k]].group]]
RestPath(e) ==
  LET paths == BlockValues(e.block, "path", {"string"}).values
  IN  IF paths = <<>> THEN {e.method} ELSE {e.method \o "=" \o ValueIn(paths[k]) : k \in DOMAIN paths}
RestVars == [REST_ENTRY |-> SetToSeq(UNION {RestPath(Entries[k]) : k \in DOMAIN Entries})]
AllVars ==
  LET methods == {MethodOf(n).name : n \in Referenced \cap Calling(layout)} \union {Entries[k].method : k \in DOMAIN Entries}
  IN  ProtoVars @@ NodeListVars @@ RestVars @@ EntryVars(Entries, methods, request.entry_timeout)
        @@ CliNodeVars(layout, Referenced, request.node_timeout, request.maxcc)

SetVariables ==
  /\ step = "variables"
  /\ global' = AllVars @@ global
  /\ LET copies == IF "docs" \in targets THEN ProtoDocs ELSE {}
     IN  \E copied \in SUBSET copies :
           files' = files \union copied /\ lost' = lost \union (copies \ copied)
  /\ Done(step, /\ \A k \in DOMAIN Entries : BlockValues(Entries[k].block, "path", {"string"}).errors = 0
                /\ \A n \in Deployed(layout) : BlockValues(layout[n].block, "port", {"integer", "float"}).errors = 0
                /\ ~EntriesRejected(Entries)
                /\ \A n \in Referenced \cap Calling(layout) : CliErrors(layout[n]) = 0)
  /\ Unchanged(<<fdps, layout, generated>>)

(* A name that is neither an entry's, nor that of nodes that call one method. *)
CannotPrint(p) ==
  /\ p \notin {".", "-"}
  /\ \A k \in DOMAIN request.entries : Last(request.entries[k].name) # p
  /\ Cardinality({MethodOf(n) : n \in {m \in Calling(layout) : p \in {layout[m].name, layout[m].type}}}) # 1
PrintProto ==
  /\ step = "print-proto"
  /\ Done(step, \A k \in DOMAIN request.prints : ~CannotPrint(request.prints[k]))
  /\ Unchanged(<<fdps, layout, global, files, lost, generated>>)

-----------------------------------------------------------------------------
(* What is expanded from a template, and written. *)
Generate(wanted, text) == generated' = (step :> text) @@ generated /\ Write(step, wanted, FALSE)

GenServer ==
  /\ step = "server" /\ Generate({<<"source", "server">>}, Expanded(ServerTree, <<global>>))
  /\ Unchanged(<<fdps, layout, global, lost>>)
GenClient ==
  /\ step = "client"
  /\ generated' = (step :> Expanded(ClientTree, <<global>>)) @@ generated
  /\ Write(step, {<<"source", "client">>}, request.entries = <<>> /\ Referenced \cap Calling(layout) = {})
  /\ Unchanged(<<fdps, layout, global, lost>>)
WriteCertificates ==
  /\ step = "ssl-certificates" /\ Write(step, Certificates, FALSE)
  /\ Unchanged(<<fdps, layout, global, lost, generated>>)
GenMakefile ==
  /\ step = "makefile" /\ Write(step, {<<"makefile", "">>}, FALSE)
  /\ Unchanged(<<fdps, layout, global, lost, generated>>)
GenDockerfile ==
  /\ step = "dockerfile" /\ Write(step, Dockerfiles, FALSE)
  /\ Unchanged(<<fdps, layout, global, lost, generated>>)

(* What the rules of the makefile need. *)
ServerNeeds == {<<"makefile", "">>, <<"source", "server">>} \union PbFiles \union GrpcFiles \union Extra
ClientNeeds == {<<"makefile", "">>, <<"source", "client">>} \union PbFiles \union GrpcFiles
ImageNeeds  == {<<"makefile", "">>, <<"docs", "main">>} \union ProtoDocs \union Dockerfiles \union Extra \union Certificates
BuildNeeds  == (IF "build-server" \in targets THEN ServerNeeds ELSE {})
                 \union (IF "build-client" \in targets THEN ClientNeeds ELSE {})
Built       == {<<"binary", t>> : t \in targets \cap {"build-server", "build-client"}}

(* make: it fails if anything is missing, or for reasons of its own. *)
Make(needs, made) ==
  \E ok \in {b \in BOOLEAN : b => needs \subseteq files} :
    /\ files' = IF ok THEN files \union made ELSE files
    /\ Done(step, ok)
BuildImage ==
  /\ step = "build-image" /\ Make(ImageNeeds, {<<"image", "">>})
  /\ Unchanged(<<fdps, layout, global, lost, generated>>)
Build ==
  /\ step = "build" /\ Make(BuildNeeds, Built)
  /\ Unchanged(<<fdps, layout, global, lost, generated>>)

GenPython ==
  /\ step = "python-client" /\ Write(step, {<<"source", "python">>}, FALSE)
  /\ Unchanged(<<fdps, layout, global, lost, generated>>)
GenDriver ==
  /\ step = "driver"
  /\ LET d == DeploymentDriver(layout, request.base_port, global)
     IN  generated' = (step :> d) @@ generated /\ Write(step, {<<"driver", "">>}, d.errors > 0)
  /\ Unchanged(<<fdps, layout, global, lost>>)
GenWww ==
  /\ step = "www-files" /\ Generate({<<"www", "index">>}, Expanded(request.page, <<global>>))
  /\ Unchanged(<<fdps, layout, global, lost>>)

(* main() removes the directory, whatever became of it; an image stays. *)
Return ==
  /\ step = "return"
  /\ step' = "end"
  /\ \/ ~UseTempdir /\ UNCHANGED <<files, failed>>
     \/ UseTempdir /\ files' = files \cap {<<"image", "">>} /\ UNCHANGED failed
     \/ UseTempdir /\ UNCHANGED files /\ failed' = TRUE
  /\ Unchanged(<<fdps, layout, global, lost, generated>>)

DriverNext ==
  \/ AddDependents \/ Start \/ Parse \/ Compile \/ NameAndSet
  \/ GenProtobuf \/ GenGrpc \/ SetVariables \/ PrintProto \/ GenServer \/ GenClient
  \/ WriteCertificates \/ GenMakefile \/ GenDockerfile \/ BuildImage \/ Build
  \/ GenPython \/ GenDriver \/ GenWww \/ Return

DriverSpec == DriverInit /\ [][DriverNext]_whole_vars

-----------------------------------------------------------------------------
(* Properties. *)

(* What has to be there after an option, for the user or make to go on. *)
Promised(option) ==
  CASE option = "server"         -> ServerNeeds \union ImageNeeds \union IF request.rest = "no" THEN {} ELSE {<<"www", "index">>}
    [] option = "client"         -> ClientNeeds \union ImageNeeds
    [] option = "build-server"   -> ServerNeeds \union {<<"binary", option>>}
    [] option = "build-client"   -> ClientNeeds \union {<<"binary", option>>}
    [] option = "build-image"    -> {<<"image", "">>}
    [] option = "dockerfile"     -> Dockerfiles \union Certificates \union {<<"makefile", "">>}
    [] option = "grpc-files"     -> PbFiles \union GrpcFiles
    [] option = "protobuf-files" -> PbFiles
    [] option = "makefile"       -> {<<"makefile", "">>}
    [] option = "ssl-certificates" -> Certificates
    [] option = "python-client"  -> {<<"source", "python">>}
    [] option = "driver"         -> {<<"driver", "">>}
    [] option = "www-files"      -> IF request.rest = "no" THEN {} ELSE {<<"www", "index">>}

(* make finds all its rules need, but for copies that were lost; flowc succeeds
   only with everything asked for; and the server knows all nodes its code calls,
   if those in the graph have actions and no two of a label no condition. *)
ArtefactsComplete ==
  /\ step = "build-image" => ImageNeeds \subseteq files \union lost
  /\ step = "build" => BuildNeeds \subseteq files \union lost
  /\ step = "end" /\ ~failed => \A o \in request.options : Promised(o) \subseteq files \union lost
  /\ step = "variables" /\ (\A n \in GraphNodes : source.nodes[n].action # "none") =>
       {c.node : c \in {d \in Code("node") : d.node \in Alternates(d.node)}} \cap Calls(source.nodes)
         \subseteq Referenced

(* A name in a flow is the one thing it is the name of, or refused, if packages
   are told apart and no file is imported twice.  What is assigned to a field that
   is accepted is there. *)
NamesResolve ==
  step = "compile" /\ phase = "declarations" =>
    LET protos == request.protos
        names  == request.imports \o request.flow_imports
        right(found) == Cardinality(found) = 1 /\ \A c \in found : "method" \in DOMAIN c => ~c.method.stream
    IN  /\ PackagesDiffer(protos) /\ ImportsOnce(protos, names) =>
             \A k \in DOMAIN ProtoReferences :
               LET found == Candidates(protos, names, ProtoReferences[k])
               IN  ToSet(Lookup(protos, fdps, ProtoReferences[k])) = IF right(found) THEN found ELSE {}
        /\ FieldErrors = 0 =>
             \A k \in DOMAIN request.reply.fields :
               LET f == request.reply.fields[k]
               IN  f.is = "path" => PathExists(request.types, f.of, f.value)


(* The table of the server has the entries, and for each node that it may call
   what the flow says of that node. *)
ServerAsMeant ==
  generated["server"] =
    FlattenSeq([k \in DOMAIN Entries |->
      <<Text("entry"), Text(Entries[k].method),
        Text(ToString(GetBlckTimeout(Entries[k].block, request.entry_timeout)))>>])
    \o Lines(Referenced \cap Calling(layout), LAMBDA n :
         <<Text("node"), Text(layout[n].name),
           Text(ToString(GetBlckTimeout(layout[n].block, request.node_timeout))),
           Text(Setting(layout, n, "endpoint")), Text(Metadata(layout[n])[1]),
           Text(ToString(CallsAtATime(layout[n], request.maxcc)))>>)

(* The compose file, the pods and the script start every container with the
   ports, addresses, mounts and limits of its node, and so does the server.  What
   the script says of tags is right if the nodes without an image come last, and of
   groups if none has a node without an image at the local host. *)
NodesDeployed ==
  /\ step \in {"www-files", "return"} /\ "driver" \in DOMAIN generated /\ ~failed =>
       DeploymentAsMeant(GivenNodes, layout, request.base_port, generated["driver"])
  /\ step = "ssl-certificates" /\ "server" \in DOMAIN generated => ServerAsMeant
=============================================================================
