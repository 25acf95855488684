----------------------------- MODULE Deployment -----------------------------
(***************************************************************************)
(* gc-conf.C and gvars.C: the settings of the nodes, and from them the      *)
(* files that start the containers - docker compose, kubernetes and the    *)
(* script around them - and the table of nodes of the generated server.    *)
(*                                                                         *)
(* What is known of a node is put into columns: a variable holds one value  *)
(* per node, and a template picks the values of a node from all columns at  *)
(* the same index.                                                         *)
(*                                                                         *)
(* Nodes are a sequence: the name, with the id; the type, which is the name *)
(* without it; the group; the kind, "client" for one that calls a method, "copy" or    *)
(* "container"; what it says, and its mounts.  The value of an element of   *)
(* an environment is a template.                                           *)
(***************************************************************************)
EXTENDS Blocks, Templates, FiniteSets, FiniteSetsExt

CONSTANT Expanded(_, _)   \* the text of a template, with dictionaries

(* get_unna(): a name that is new, of a root, with a hint or else a number. *)
FreshName(known, root, hint) ==
  CASE root \notin known                  -> root
    [] root \in known /\ root \o ToString(hint) \notin known -> root \o ToString(hint)
    [] OTHER -> root \o ToString(Min({c \in 1 .. Cardinality(known) + 1 :
                                        root \o ToString(c) \notin known}))

Mounts(nodes) ==
  FlattenSeq([n \in DOMAIN nodes |-> [i \in DOMAIN nodes[n].mounts |-> <<n, i>>]])
MountName(nodes, m) == nodes[m[1]].mounts[m[2]].name

(* Mounts without a name get a new one, which is no other mount's: the hint is
   the position of the mount. *)
NameMount(s, m) ==
  LET name == FreshName(s.known \union s.mounts, "vo", 100 * m[1] + m[2])
  IN  IF MountName(s.nodes, m) # "" THEN s
      ELSE [nodes  |-> [s.nodes EXCEPT ![m[1]].mounts[m[2]].name = name],
            known  |-> s.known \union {name},
            mounts |-> s.mounts \union {name}]
NameMounts(nodes) ==
  FoldLeft(NameMount,
           [nodes |-> nodes, known |-> {},
            mounts |-> {MountName(nodes, m) : m \in ToSet(Mounts(nodes))} \ {""}],
           Mounts(nodes))

(* The groups: those given, and one with a new name for the nodes of the main pod. *)
GivenGroup(node) == GetBlockName(node.block, "group", "")
MainGroup(nodes) ==
  FreshName({GivenGroup(nodes[n]) : n \in DOMAIN nodes}, "main", 1)
NameGroup(node, main) == [node EXCEPT !.group = IF GivenGroup(node) # "" THEN GivenGroup(node) ELSE main]
NameGroups(nodes) ==
  FoldLeft(LAMBDA done, node : Append(done, NameGroup(node, MainGroup(nodes))), <<>>, nodes)
Calling(nodes)  == {n \in DOMAIN nodes : nodes[n].kind = "client"}
Deployed(nodes) == {n \in DOMAIN nodes : nodes[n].kind \in {"client", "container"}}
Ascending(S)    == SelectSeq([n \in 1 .. Max(S \union {0}) |-> n], LAMBDA n : n \in S)
(* What is written of one node after the other. *)
Lines(S, line(_)) == FlattenSeq([k \in DOMAIN Ascending(S) |-> line(Ascending(S)[k])])
(* The order of the groups is that of their names; here it is that of their nodes. *)
Groups(nodes) ==
  LET first == {n \in Deployed(nodes) : \A m \in Deployed(nodes) :
                  m < n => nodes[m].group # nodes[n].group}
  IN  [k \in DOMAIN Ascending(first) |-> nodes[Ascending(first)[k]].group]
InGroup(nodes, g) == {n \in Deployed(nodes) : nodes[n].group = g}
Named(given) == NameGroups(NameMounts(given).nodes)

Setting(nodes, n, key) == GetBlockS(nodes[n].block, key, "")
Count(nodes, n, key)   == GetBlockI(nodes[n].block, key, 0)
HasImage(nodes, n)     == Setting(nodes, n, "image") # ""

-----------------------------------------------------------------------------
(* get_mount_info(): read-only unless it says otherwise.  A path that is missing
   is reported and no error. *)
ReadOnly  == {"ro", "read-only", "readonly"}
ReadWrite == {"rw", "read-write", "readwrite"}
MountInfo(mount) ==
  LET access == GetBlockS(mount.block, "access", "ro")
  IN  [name |-> mount.name, path |-> GetBlockS(mount.block, "path", ""),
       local |-> GetBlockS(mount.block, "local", ""),
       access |-> IF access \in ReadOnly THEN "ro" ELSE "rw",
       errors |-> IF access \in ReadOnly \union ReadWrite THEN 0 ELSE 1]
MountInfos(node) == [i \in DOMAIN node.mounts |-> MountInfo(node.mounts[i])]

(* append(): a row below the columns there are. *)
AddRow(columns, row) ==
  FoldSet(LAMBDA c, d : (c :> (IF c \in DOMAIN d THEN d[c] ELSE <<>>) \o row[c]) @@ d,
          columns, DOMAIN row)
Columns(rows) == FoldLeft(AddRow, <<>>, rows)
Prefixed(prefix, row) == FoldSet(LAMBDA c, d : ((prefix \o c) :> row[c]) @@ d, <<>>, DOMAIN row)

Commented(b) == <<IF b THEN "" ELSE "#">>
Limits == {"MIN", "MAX"}
LimitKey == [MIN |-> [CPUS |-> "min_cpu", GPUS |-> "min_gpu"],
             MAX |-> [CPUS |-> "max_cpu", GPUS |-> "max_gpu"]]
LimitRow(nodes, n, l) ==
  LET cpus == Count(nodes, n, LimitKey[l].CPUS)  gpus == Count(nodes, n, LimitKey[l].GPUS)
  IN  ("NODE_" \o l \o "_CPUS"      :> <<ToString(Max({0, cpus}))>>) @@
      ("NODE_" \o l \o "_GPUS"      :> <<ToString(Max({0, gpus}))>>) @@
      ("NODE_HAVE_" \o l \o "_CPUS" :> Commented(cpus > 0)) @@
      ("NODE_HAVE_" \o l \o "_GPUS" :> Commented(gpus > 0)) @@
      ("NODE_HAVE_" \o l            :> Commented(cpus > 0 \/ gpus > 0))

(* A node without an image has an empty entry in this column. *)
ImageColumn(nodes, n) == <<Setting(nodes, n, "image")>>

(* node_info(): the row of a node.  It is empty in the last of these columns if
   the node has no image, and as long as it has mounts in those of volumes. *)
NodeInfo(nodes, n) ==
  [NODE_NAME |-> <<nodes[n].name>>, NODE_GROUP |-> <<nodes[n].group>>,
   NODE_ENDPOINT |-> <<Setting(nodes, n, "endpoint")>>,
   NODE_IMAGE |-> ImageColumn(nodes, n),
   NODE_GRPC |-> <<IF n \in Calling(nodes) THEN "method" ELSE "">>,
   NODE_RUNTIME |-> <<Setting(nodes, n, "runtime")>>,
   NODE_SCALE |-> <<ToString(Max({1, Count(nodes, n, "scale")}))>>,
   VOLUME_NAME |-> [i \in DOMAIN nodes[n].mounts |-> nodes[n].mounts[i].name],
   IM_NODE_NAME |-> IF HasImage(nodes, n) THEN <<nodes[n].name>> ELSE <<>>]
  @@ LimitRow(nodes, n, "MIN") @@ LimitRow(nodes, n, "MAX")

-----------------------------------------------------------------------------
(* get_environment(): where the nodes are that have a port, as a node sees it.
   Those of its group are on the same host when groups are pods.  One of several
   alternates also is what the label refers to, for itself. *)
Local(nodes, n, m, pods) == m = n \/ (pods /\ GivenGroup(nodes[n]) = GivenGroup(nodes[m]))
Host(nodes, n, m, pods)  == IF Local(nodes, n, m, pods) THEN "localhost" ELSE "host of " \o nodes[m].name
Located(name, host, port) ==
  (name :> <<host \o ":" \o port>>) @@ (name \o ".host" :> <<host>>) @@ (name \o ".port" :> <<port>>)
Locations(nodes, n, ports, pods) ==
  LET own(m) == IF m = n THEN {nodes[m].name, nodes[m].type} ELSE {nodes[m].name}
      locate(found, m) ==
        FoldSet(LAMBDA name, f : Located(name, Host(nodes, n, m, pods), ports[m]) @@ f, found, own(m))
  IN  FoldLeft(locate, <<>>, Ascending(DOMAIN ports))

PlainValues == {"string", "integer", "float"}
EnvironmentPairs(block) ==
  LET pairs == NvPairs(block, "environment", PlainValues)
  IN  SetToSeq({[key |-> k, value |-> pairs[k]] : k \in DOMAIN pairs})

(* A value can be a file that is fetched first; it is known by a number. *)
File(f) == <<[is |-> "file", file |-> f]>>
FileNumber(f, global) == CHOOSE k \in DOMAIN global["EFR_FILENAME"] : global["EFR_FILENAME"][k] = f
ValueText(value, locations, global) ==
  IF value[1].is = "file" THEN <<Text("$flowc_tmp_FILE" \o global["EFR_ID"][FileNumber(value[1].file, global)])>>
  ELSE Expanded(value, <<locations>>)
Environment(nodes, n, ports, pods, global) ==
  ToString([k \in DOMAIN EnvironmentPairs(nodes[n].block) |->
     LET e == EnvironmentPairs(nodes[n].block)[k]
     IN  <<e.key, ValueText(e.value, Locations(nodes, n, ports, pods), global)>>])

(* set_def_vars(): the variables that are referenced, and the files the nodes need,
   each once. *)
Defines(defines) ==
  LET used == SelectSeq(defines, LAMBDA d : d.refcount > 0)
  IN  [DEFN |-> [k \in DOMAIN used |-> used[k].name], DEFV |-> [k \in DOMAIN used |-> used[k].value]]
Files(nodes) ==
  LET values == FlattenSeq([n \in DOMAIN nodes |-> EnvironmentPairs(nodes[n].block)])
      files  == SelectSeq(values, LAMBDA e : e.value[1].is = "file")
      once   == FoldLeft(LAMBDA seen, e : IF \E k \in DOMAIN seen : seen[k] = e.value[1].file
                                           THEN seen ELSE Append(seen, e.value[1].file), <<>>, files)
  IN  [EFR_FILENAME |-> once, EFR_ID |-> [k \in DOMAIN once |-> ToString(k)]]
DefVars(defines, nodes) == Defines(defines) @@ Files(nodes)

-----------------------------------------------------------------------------
(* The templates: what they say of each node. *)
ForEach(label, column, body) == Block(LoopOf(label, column), body)
When(label, terms, body)     == Block(If(label, terms), body)
Column(name)                 == Ref(<<name>>)

AddressTree ==
  << ForEach("N", "NODE_NAME", <<When("E", << <<"NODE_ENDPOINT">> >>,
       <<Text("at endpoint"), Column("NODE_NAME"), Column("NODE_ENDPOINT")>>)>>),
     ForEach("N", "NODE_NAME", <<When("E", << <<"NODE_IMAGE", "NODE_GRPC">> >>,
       <<Text("at port"), Column("NODE_NAME"), Column("NODE_PORT")>>)>>) >>
DockerTree ==
  AddressTree \o
  << ForEach("N", "NODE_NAME", <<When("I", << <<"NODE_IMAGE">> >>,
       << Text("service"), Column("NODE_NAME"), Column("NODE_PORT"), Column("IMAGE_PORT"),
          When("V", << <<"NODE_RW_VOLUME_COUNT">> >>, <<Text("shared")>>),
          When("R", << <<"NODE_RUNTIME">> >>, <<Column("NODE_RUNTIME")>>),
          RefOr(<<"NODE_ENVIRONMENT">>, ""), RefOr(<<"NODE_MOUNTS">>, ""),
          Column("NODE_HAVE_MAX"), Column("NODE_HAVE_MAX_CPUS"), Column("NODE_MAX_CPUS") >>)>>),
     When("V", << <<"VOLUME_NAME">> >>,
       <<Text("volumes"), ForEach("W", "VOLUME_NAME", <<Column("VOLUME_NAME")>>)>>) >>
ContainersTree ==
  << ForEach("N", "G_NODE_NAME", <<When("I", << <<"G_NODE_IMAGE">> >>,
       << Text("container"), Column("G_NODE_NAME"), Column("G_NODE_ENVIRONMENT"),
          Column("G_NODE_MOUNTS"), Column("G_NODE_HAVE_MIN"), Column("G_NODE_MIN_GPUS") >>)>>) >>
GroupTree ==
  <<Text("group"), RefOr(<<"G_NODE_GROUP">>, "")>> \o ContainersTree \o
  << ForEach("N", "G_NODE_NAME", <<When("I", << <<"G_NODE_IMAGE">> >>,
       <<Text("port"), Column("G_NODE_NAME"), Column("G_NODE_PORT")>>)>>) >>
ScriptTree ==
  << ForEach("O", "NODE_NAME", <<When("I", << <<"NODE_IMAGE">> >>,
       << Text("scale"), Column("NODE_NAME"), Column("NODE_SCALE"), Column("NODE_IMAGE"),
          Text("tag"), Column("IM_NODE_NAME"), Column("NODE_NAME") >>)>>),
     ForEach("G", "GROUP", <<Text("replicas"), Column("GROUP"), Column("GROUP_SCALE")>>) >>

-----------------------------------------------------------------------------
(* genc_dcs_conf(): a node has the port it says, or one by its position. *)
DockerPort(nodes, n, base) ==
  LET position == Cardinality({m \in Deployed(nodes) : m <= n})
  IN  IF Count(nodes, n, "port") # 0 THEN Count(nodes, n, "port") ELSE base + position
DockerPorts(nodes, base) ==
  [n \in Deployed(nodes) |-> ToString(DockerPort(nodes, n, base))]

MountLines(node) ==
  ToString([i \in DOMAIN MountInfos(node) |->
     <<MountInfos(node)[i].name, MountInfos(node)[i].path, MountInfos(node)[i].access>>])
Writable(node) == {i \in DOMAIN MountInfos(node) : MountInfos(node)[i].access = "rw"}
CountOrNone(n) == IF n = 0 THEN "" ELSE ToString(n)

DockerRow(nodes, n, ports, global) ==
  [NODE_PORT |-> <<ports[n]>>, IMAGE_PORT |-> <<ports[n]>>,
   NODE_ENVIRONMENT |-> <<Environment(nodes, n, ports, FALSE, global)>>,
   NODE_RW_VOLUME_COUNT |-> <<CountOrNone(Cardinality(Writable(nodes[n])))>>,
   NODE_MOUNTS |-> <<MountLines(nodes[n])>>] @@ NodeInfo(nodes, n)
DockerVars(nodes, base, global) ==
  LET ports == DockerPorts(nodes, base)
  IN  Columns(Lines(Deployed(nodes), LAMBDA n : <<DockerRow(nodes, n, ports, global)>>))

-----------------------------------------------------------------------------
(* A bug the checks must notice: a port that is taken is given again. *)
BlindPorts(nodes, base) ==
  LET declared == {n \in Deployed(nodes) : Count(nodes, n, "port") # 0}
      imaged   == {n \in Deployed(nodes) \ declared : HasImage(nodes, n)}
  IN  [n \in declared \union imaged |->
         IF n \in declared THEN ToString(Count(nodes, n, "port"))
         ELSE ToString(base + Cardinality({m \in imaged : m <= n}))]

(* The ports of genc_k8s_conf(): those declared first, then for nodes with an
   image the next that no node has. *)
GivePort(base, s, n) ==
  LET c == Min({k \in s.c + 1 .. s.c + Cardinality(DOMAIN s.ports) + 1 :
                  \A m \in DOMAIN s.ports : s.ports[m] # ToString(base + k)})
  IN  [ports |-> (n :> ToString(base + c)) @@ s.ports, c |-> c]
K8sPorts(nodes, base) ==
  LET declared == {n \in Deployed(nodes) : Count(nodes, n, "port") # 0}
      imaged   == {n \in Deployed(nodes) \ declared : HasImage(nodes, n)}
  IN  FoldLeft(LAMBDA s, n : GivePort(base, s, n),
               [ports |-> [n \in declared |-> ToString(Count(nodes, n, "port"))], c |-> 0],
               Ascending(imaged)).ports

(* A node without a port gets an empty one when its own row is made. *)
PortsSeen(nodes, ports, n) ==
  LET before == {m \in Deployed(nodes) : \E i, j \in DOMAIN Groups(nodes) :
                   /\ nodes[m].group = Groups(nodes)[i] /\ nodes[n].group = Groups(nodes)[j]
                   /\ i < j \/ (i = j /\ m < n)}
  IN  ports @@ [m \in before |-> ""]
K8sRow(nodes, n, ports, global) ==
  LET seen == PortsSeen(nodes, ports, n)
      port == <<IF n \in DOMAIN ports THEN ports[n] ELSE "">>
  IN  [NODE_ENVIRONMENT |-> <<Environment(nodes, n, seen, TRUE, global)>>,
       NODE_PORT |-> port, IMAGE_PORT |-> port] @@ NodeInfo(nodes, n)
K8sRows(nodes, group, ports, global) ==
  Lines(InGroup(nodes, group), LAMBDA n : <<K8sRow(nodes, n, ports, global)>>)
GroupRows(nodes, group, ports, global) ==
  Lines(InGroup(nodes, group), LAMBDA n :
    <<Prefixed("G_", [NODE_MOUNTS |-> <<MountLines(nodes[n])>>] @@ K8sRow(nodes, n, ports, global))>>)

(* genc_k8s_conf(): the main pod with all addresses, then one for each other
   group.  What went wrong is not reported. *)
K8sConf(nodes, base, global) ==
  LET ports  == K8sPorts(nodes, base)
      groups == Groups(nodes)
      all    == Columns(FlattenSeq([k \in DOMAIN groups |-> K8sRows(nodes, groups[k], ports, global)]))
      others == SelectSeq(groups, LAMBDA g : g # MainGroup(nodes))
      vars(g) == <<Columns(GroupRows(nodes, g, ports, global)), all, global>>
  IN  Expanded(AddressTree \o ContainersTree, vars(MainGroup(nodes)))
        \o FlattenSeq([k \in DOMAIN others |-> Expanded(GroupTree, vars(others[k]))])

(* group_info(): the groups besides the main pod, with the largest scale of their
   nodes that are started - or that say to be at "l" or another beginning of
   "localhost:", as the two texts that are compared are swapped. *)
BeginningsOfLocalhost == {"", "l", "localhost", "localhost:"}
GroupScale(nodes, g) ==
  LET started == {n \in InGroup(nodes, g) :
                    HasImage(nodes, n) \/ Setting(nodes, n, "endpoint") \in BeginningsOfLocalhost}
  IN  Max({1} \union {Count(nodes, n, "scale") : n \in started})
GroupInfo(nodes) ==
  LET others == SelectSeq(Groups(nodes), LAMBDA g : g # MainGroup(nodes))
  IN  [GROUP |-> others,
       GROUP_SCALE |-> [k \in DOMAIN others |-> ToString(GroupScale(nodes, others[k]))]]

(* genc_deployment_driver(): the three files in one, and the errors on the way. *)
Read ==
  {[key |-> k, types |-> {"string"}] : k \in {"endpoint", "image", "runtime"}} \union
  {[key |-> k, types |-> {"integer", "float"}] : k \in {"port", "scale", "min_cpu", "max_cpu", "min_gpu", "max_gpu"}}
NodeErrors(node) ==
  MapThenSumSet(LAMBDA r : BlockValues(node.block, r.key, r.types).errors, Read)
    + MapThenSumSet(LAMBDA i : MountInfo(node.mounts[i]).errors, DOMAIN node.mounts)

DeploymentDriver(nodes, base, global) ==
  LET vars  == GroupInfo(nodes) @@ DockerVars(nodes, base, global)
  IN  [docker     |-> Expanded(DockerTree, <<vars, global>>),
       kubernetes |-> K8sConf(nodes, base, global),
       script     |-> Expanded(ScriptTree, <<vars, global>>),
       errors     |-> MapThenSumSet(LAMBDA n : NodeErrors(nodes[n]), Deployed(nodes))]

-----------------------------------------------------------------------------
Metadata(node) ==
  LET headers == NvPairs(node.block, "headers", PlainValues)
  IN  <<IF DOMAIN headers = {} THEN "" ELSE ToString(headers)>>

(* set_cli_node_vars(): the nodes that are referenced, and more of those that call
   a method.  The limit of calls at a time is read from "replicas". *)
CallsAtATime(node, maxcc) ==
  IF GetBlockI(node.block, "replicas", maxcc) > 0 THEN GetBlockI(node.block, "replicas", maxcc) ELSE maxcc
CliErrors(node) ==
  NvErrors(node.block, "headers", PlainValues) + BlockValues(node.block, "endpoint", {"string"}).errors
    + BlockValues(node.block, "replicas", {"integer", "float"}).errors
CliRow(nodes, n, timeout, maxcc) ==
  [A_NODE_NAME |-> <<nodes[n].name>>] @@
  IF n \notin Calling(nodes) THEN <<>>
  ELSE [CLI_NODE_METADATA |-> Metadata(nodes[n]),
        CLI_NODE_NAME |-> <<nodes[n].name>>,
        CLI_NODE_TIMEOUT |-> <<ToString(GetBlckTimeout(nodes[n].block, timeout))>>,
        CLI_NODE_ENDPOINT |-> <<Setting(nodes, n, "endpoint")>>,
        CLI_NODE_GROUP |-> <<nodes[n].group>>,
        CLI_NODE_MAX_CONCURRENT_CALLS |-> <<ToString(CallsAtATime(nodes[n], maxcc))>>]
CliNodeVars(nodes, referenced, timeout, maxcc) ==
  Columns(Lines(referenced, LAMBDA n : <<CliRow(nodes, n, timeout, maxcc)>>))
    @@ [CLI_NODE_COUNT |-> <<ToString(Cardinality(referenced \cap Calling(nodes)))>>]

(* set_entry_vars(): the entries, which have to be of one service, and all methods:
   those of entries first. *)
EntriesRejected(entries) == \E i, j \in DOMAIN entries : entries[i].service # entries[j].service
EntryVars(entries, methods, timeout) ==
  LET own    == {entries[k].method : k \in DOMAIN entries}
      others == SetToSeq(methods \ own)
      all    == SetToSeq(own) \o others
  IN  [ENTRY_NAME |-> [k \in DOMAIN entries |-> entries[k].method],
       ENTRY_TIMEOUT |-> [k \in DOMAIN entries |-> ToString(GetBlckTimeout(entries[k].block, timeout))],
       MDP_NAME |-> all,
       MDP_IS_ENTRY |-> [k \in DOMAIN all |-> IF k <= Cardinality(own) THEN "1" ELSE "0"]]

ServerTree ==
  << ForEach("E", "ENTRY_NAME", <<Text("entry"), Column("ENTRY_NAME"), RefOr(<<"ENTRY_TIMEOUT">>, "")>>),
     ForEach("I", "CLI_NODE_NAME",
       << Text("node"), Column("CLI_NODE_NAME"), RefOr(<<"CLI_NODE_TIMEOUT">>, ""),
          RefOr(<<"CLI_NODE_ENDPOINT">>, ""), Column("CLI_NODE_METADATA"),
          Column("CLI_NODE_MAX_CONCURRENT_CALLS") >>) >>
ClientTree ==
  << ForEach("M", "MDP_NAME", <<Text("method"), Column("MDP_NAME"), Column("MDP_IS_ENTRY")>>) >>

-----------------------------------------------------------------------------
(* What is meant, from the declarations alone. *)
WithImage(nodes) == {n \in Deployed(nodes) : HasImage(nodes, n)}

(* The node a reference in an environment is to: one of those with a port, or by
   its label the node itself. *)
ReferredTo(nodes, n, ports, name) ==
  {m \in DOMAIN ports : nodes[m].name = name \/ (m = n /\ nodes[m].type = name)}
MeantText(nodes, n, ports, together, token, global) ==
  LET to   == ReferredTo(nodes, n, ports, token.names[1])
      m    == CHOOSE k \in to : TRUE
      host == IF m = n \/ (together /\ nodes[m].group = nodes[n].group)
              THEN "localhost" ELSE "host of " \o nodes[m].name
  IN  CASE token.is = "ref" /\ to # {} -> <<Text(host \o ":" \o ports[m])>>
        [] token.is = "file" ->
             <<Text("$flowc_tmp_FILE" \o ToString(CHOOSE k \in DOMAIN global : global[k] = token.file))>>
        [] OTHER -> <<token>>
MeantEnvironment(nodes, n, ports, together, files) ==
  ToString([k \in DOMAIN EnvironmentPairs(nodes[n].block) |->
     LET e == EnvironmentPairs(nodes[n].block)[k]
     IN  <<e.key, MeantText(nodes, n, ports, together, e.value[1], files)>>])

Listed(order, S, line(_)) ==
  FlattenSeq([k \in DOMAIN order |-> IF order[k] \in S THEN line(order[k]) ELSE <<>>])
ByGroup(nodes) ==
  FlattenSeq([k \in DOMAIN Groups(nodes) |-> Ascending(InGroup(nodes, Groups(nodes)[k]))])
MeantAddresses(nodes, order, ports) ==
  Listed(order, {n \in Deployed(nodes) : Setting(nodes, n, "endpoint") # ""}, LAMBDA n :
          <<Text("at endpoint"), Text(nodes[n].name), Text(Setting(nodes, n, "endpoint"))>>)
  \o Listed(order, WithImage(nodes) \cap Calling(nodes), LAMBDA n :
          <<Text("at port"), Text(nodes[n].name), Text(ports[n])>>)

(* Every container is started with its own ports, environment, mounts and limits. *)
MeantService(nodes, n, ports, files) ==
  <<Text("service"), Text(nodes[n].name), Text(ports[n]), Text(ports[n])>>
    \o (IF \E i \in DOMAIN nodes[n].mounts :
              GetBlockS(nodes[n].mounts[i].block, "access", "ro") \notin ReadOnly
        THEN <<Text("shared")>> ELSE <<>>)
    \o (IF Setting(nodes, n, "runtime") # "" THEN <<Text(Setting(nodes, n, "runtime"))>> ELSE <<>>)
    \o <<Text(MeantEnvironment(nodes, n, ports, FALSE, files)), Text(MountLines(nodes[n])),
         Text(IF Count(nodes, n, "max_cpu") > 0 \/ Count(nodes, n, "max_gpu") > 0 THEN "" ELSE "#"),
         Text(IF Count(nodes, n, "max_cpu") > 0 THEN "" ELSE "#"),
         Text(ToString(Count(nodes, n, "max_cpu")))>>
MeantDocker(nodes, ports, files) ==
  MeantAddresses(nodes, Ascending(Deployed(nodes)), ports)
  \o Lines(WithImage(nodes), LAMBDA n : MeantService(nodes, n, ports, files))
  \o LET names == Lines(Deployed(nodes), LAMBDA n :
                    [i \in DOMAIN nodes[n].mounts |-> Text(nodes[n].mounts[i].name)])
     IN  IF names = <<>> THEN <<>> ELSE <<Text("volumes")>> \o names

(* Every group is a pod with the containers of its nodes. *)
MeantContainers(nodes, group, ports, files) ==
  Lines(WithImage(nodes) \cap InGroup(nodes, group), LAMBDA n :
    <<Text("container"), Text(nodes[n].name), Text(MeantEnvironment(nodes, n, ports, TRUE, files)),
      Text(MountLines(nodes[n])),
      Text(IF Count(nodes, n, "min_cpu") > 0 \/ Count(nodes, n, "min_gpu") > 0 THEN "" ELSE "#"),
      Text(ToString(Count(nodes, n, "min_gpu")))>>)
MeantPod(nodes, group, ports, files) ==
  <<Text("group")>> \o [k \in 1 .. 1 |-> Text(group)] \o MeantContainers(nodes, group, ports, files)
  \o Lines(WithImage(nodes) \cap InGroup(nodes, group), LAMBDA n :
       <<Text("port"), Text(nodes[n].name), Text(ports[n])>>)
(* A node that is started counts for the scale of its group: one with an image, or
   without an endpoint or at the local host. *)
LocalEndpoints == {"localhost:" \o ToString(port) : port \in 1 .. 65535}
AtLocalhost(nodes, n) == Setting(nodes, n, "endpoint") \in LocalEndpoints
Started(nodes, g) ==
  {n \in InGroup(nodes, g) :
     HasImage(nodes, n) \/ Setting(nodes, n, "endpoint") = "" \/ AtLocalhost(nodes, n)}
MeantScales(nodes) ==
  LET others == SelectSeq(Groups(nodes), LAMBDA g : g # MainGroup(nodes))
  IN  FlattenSeq([k \in DOMAIN others |->
        <<Text("replicas"), Text(others[k]),
          Text(ToString(Max({1} \union {Count(nodes, n, "scale") : n \in Started(nodes, others[k])})))>>])

(* The images, with the node whose image a tag that is given for each is put on. *)
MeantImages(nodes, tagged) ==
  Lines(WithImage(nodes), LAMBDA n :
    <<Text("scale"), Text(nodes[n].name), Text(ToString(Max({1, Count(nodes, n, "scale")}))),
      Text(Setting(nodes, n, "image")), Text("tag"), Text(tagged[n]), Text(nodes[n].name)>>)
OwnTags(nodes) == [n \in WithImage(nodes) |-> nodes[n].name]

(* The column of tags has no entry for a node without an image: it is in step with
   the others if such nodes come last, or a single value stands for all. *)
TagsInStep(nodes) ==
  \/ Cardinality(WithImage(nodes)) = 1
  \/ \A n \in WithImage(nodes), m \in Deployed(nodes) \ WithImage(nodes) : n < m
PossibleTags(nodes) ==
  IF TagsInStep(nodes) THEN {OwnTags(nodes)}
  ELSE [WithImage(nodes) -> {""} \union {nodes[n].name : n \in WithImage(nodes)}]

(* A group is not scaled for a node without an image that is at the local host. *)
NoneAtLocalhost(nodes) ==
  \A n \in Deployed(nodes) :
    nodes[n].group # MainGroup(nodes) /\ AtLocalhost(nodes, n) => HasImage(nodes, n)

(* No two containers of a pod, or with an address of their own, share a port they
   did not ask for, and no mount has got the name of another. *)
PortsDiffer(nodes, ports) ==
  \A n, m \in DOMAIN ports : n # m /\ ports[n] = ports[m] =>
    Count(nodes, n, "port") # 0 /\ Count(nodes, m, "port") # 0
MountsDiffer(given, nodes) ==
  \A m, k \in ToSet(Mounts(nodes)) : m # k /\ MountName(nodes, m) = MountName(nodes, k) =>
    MountName(given, m) # "" /\ MountName(given, k) # ""

(* A reference to a node that is started elsewhere and has no port has no value. *)
PortsKnown(nodes, ports) ==
  \A n \in DOMAIN nodes : \A k \in DOMAIN EnvironmentPairs(nodes[n].block) :
    LET token == EnvironmentPairs(nodes[n].block)[k].value[1]
    IN  token.is = "ref" => \A m \in Deployed(nodes) \ DOMAIN ports :
          token.names[1] \notin {nodes[m].name, nodes[m].type}

DeploymentAsMeant(given, nodes, base, d) ==
  LET ports  == K8sPorts(nodes, base)
      files  == Files(nodes).EFR_FILENAME
      main   == MainGroup(nodes)
      others == SelectSeq(Groups(nodes), LAMBDA g : g # main)
  IN  /\ d.docker = MeantDocker(nodes, DockerPorts(nodes, base), files)
      /\ PortsKnown(nodes, ports) =>
           d.kubernetes = MeantAddresses(nodes, ByGroup(nodes), ports) \o MeantContainers(nodes, main, ports, files)
              \o FlattenSeq([k \in DOMAIN others |-> MeantPod(nodes, others[k], ports, files)])
      /\ \E tagged \in PossibleTags(nodes) :
           LET images == MeantImages(nodes, tagged)
           IN  /\ IsPrefix(images, d.script)
               /\ NoneAtLocalhost(nodes) => d.script = images \o MeantScales(nodes)
      /\ PortsDiffer(nodes, ports) /\ MountsDiffer(given, nodes)
=============================================================================
