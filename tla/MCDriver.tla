------------------------------ MODULE MCDriver ------------------------------
(* The programs of MCCompiler, with flowc doing no more than compile them; and
   one flow with all that flowc can be asked to do with it. *)
EXTENDS GeneratedFiles, MCCompiler

OneFlow ==
  [first |-> <<1, 1, 3, 4>>, conditional |-> <<TRUE, FALSE, FALSE, FALSE>>,
   condition |-> <<{Input}, {}, {}, {}>>, refs |-> <<{Input}, {Input}, {1}, {}, {1, 3}>>]
MCDriverFlows == MCCompilerFlows \union {OneFlow}
MCDriverPrograms(f) == IF f = OneFlow THEN {GraphProgram(f, {1, 3}, <<>>)} ELSE MCPrograms(f)

Method(service, name) ==
  [service |-> service, name |-> name, stream |-> FALSE, input |-> "A", output |-> <<"p", "A">>]
ProtoFile(package, stem, imports, methods) ==
  [package |-> package, stem |-> <<stem>>, imports |-> imports, methods |-> methods, messages |-> <<"A">>]
OneProto == "f" :> ProtoFile(<<"p">>, "f", <<>>, <<Method("S", "E"), Method("S", "M")>>)

Default ==
  [options |-> {}, accessible |-> TRUE, parses |-> TRUE, runtime |-> TRUE,
   base_port |-> 8000, rest_port |-> -1, rest |-> "yes", extra |-> FALSE, certificates |-> "same",
   protos |-> OneProto, imports |-> <<>>, flow_imports |-> <<"f">>,
   entries |-> <<[name |-> <<"E">>, returns |-> <<>>, block |-> <<>>]>>, methods |-> [n \in MCNodes |-> <<"M">>],
   messages |-> <<>>, types |-> <<>>, labels |-> {}, reply |-> [message |-> "A", fields |-> <<>>],
   blocks |-> [n \in MCNodes |-> <<>>], mounts |-> [n \in MCNodes |-> <<>>], containers |-> <<>>,
   defines |-> <<>>, entry_timeout |-> 600, node_timeout |-> 180, maxcc |-> 16,
   prints |-> <<>>, page |-> <<>>]

-----------------------------------------------------------------------------
(* One or two options, with and without proto files that import others. *)
TwoProtos == OneProto @@ ("g" :> ProtoFile(<<>>, "g", <<>>, <<>>))
Importing == [TwoProtos EXCEPT !["f"].imports = <<"g">>]
TargetRequests ==
  {[Default EXCEPT !.options = {o, p}, !.extra = (o = p),
                   !.certificates = IF o = p THEN "both" ELSE "same",
                   !.rest = IF p = "client" THEN "no" ELSE "yes"] :
     o, p \in Options}
  \union {[Default EXCEPT !.options = {o}, !.protos = Importing] : o \in Options}
FailingRequests ==
  {[Default EXCEPT !.accessible = FALSE], [Default EXCEPT !.parses = FALSE],
   [Default EXCEPT !.runtime = FALSE], [Default EXCEPT !.rest_port = 8000],
   [Default EXCEPT !.imports = <<"x">>], [Default EXCEPT !.flow_imports = <<"f", "x">>]}
PrintRequests == {[Default EXCEPT !.prints = <<p, q>>] : p, q \in {".", "E", "n1.1", "n1.2", "n3", "x"}}

-----------------------------------------------------------------------------
(* Two files, and the names of a method. *)
Packages == {<< <<>>, <<>> >>, << <<"p">>, <<"p">> >>, << <<"p">>, <<"p", "x">> >>, << <<"p">>, <<>> >>,
             << <<"p", "x">>, <<"p">> >>, << <<"g">>, <<>> >>}
NameRequests ==
  {[Default EXCEPT
      !.protos = ("f" :> ProtoFile(ps[1], "f", i, <<Method("S", "E"), Method("S", "M")>>))
                   @@ ("g" :> ProtoFile(ps[2], "g", <<>>, ms)),
      !.imports = names[1], !.flow_imports = names[2], !.methods[1] = name,
      !.entries[1].name = Package([package |-> ps[1], stem |-> <<"f">>]) \o <<"E">>,
      !.methods[3] = name] :
     ps \in Packages, i \in {<<>>, <<"g">>},
     ms \in {<<Method("T", "M")>>, <<Method("S", "M"), Method("T", "M")>>,
             <<[Method("S", "M") EXCEPT !.stream = TRUE]>>},
     names \in {<< <<>>, <<"f">> >>, << <<>>, <<"f", "g">> >>, << <<"g">>, <<"f">> >>},
     name \in {<<"M">>, <<"S", "M">>, <<"T", "M">>, <<"p", "M">>, <<"p", "S", "M">>, <<"g", "S", "M">>,
               <<"p", "x", "T", "M">>, <<"f", "M">>}}
MessageRequests ==
  {[Default EXCEPT !.protos = [Importing EXCEPT !["g"].messages = ms], !.messages = <<name>>] :
     ms \in {<<>>, <<"A">>, <<"A", "B">>},
     name \in {<<"A">>, <<"B">>, <<"p", "A">>, <<"g", "A">>, <<"g", "B">>, <<"p", "B">>}}
TwoEntries ==
  {[Default EXCEPT !.protos["f"].methods = <<Method("S", "E"), m>>,
      !.entries = <<[name |-> <<"E">>, returns |-> <<>>, block |-> b],
                    [name |-> name, returns |-> <<"A">>, block |-> b]>>] :
     m \in {Method("S", "M"), Method("T", "M"), [Method("S", "M") EXCEPT !.input = "B"]},
     name \in {<<"M">>, <<"p", "S", "E">>},
     b \in {<<>>, <<Element("path", "string", "/a"), Element("path", "string", "/b")>>,
            <<Element("path", "integer", 1)>>, <<Element("timeout", "integer", 5)>>}}

ReturnRequests ==
  {[Default EXCEPT !.entries[1].returns = t] : t \in {<<"A">>, <<"p", "A">>, <<"B">>, <<"x", "p", "A">>}}

(* What is assigned to the fields of a message. *)
MessageTypes == [A |-> [b |-> "B", n |-> "int", c |-> "colour"], B |-> [n |-> "int", a |-> "A"]]
EnumLabels == {[enum |-> "colour", full |-> <<"p", "RED">>], [enum |-> "colour", full |-> <<"p", "BLUE">>],
           [enum |-> "shade", full |-> <<"q", "RED">>], [enum |-> "shade", full |-> <<"q", "DARK">>]}
Assigned(f, is, of, v) == <<[field |-> f, is |-> is, of |-> of, value |-> v]>>
Assignments3(f) ==
  {Assigned(f, "path", t, p) : t \in {"A", "B"},
      p \in {<<>>, <<"b">>, <<"n">>, <<"b", "a">>, <<"n", "a">>, <<"b", "n">>, <<"a", "b", "n">>}}
  \union {Assigned(f, "label", "", l) : l \in {<<"RED">>, <<"q", "RED">>, <<"DARK">>, <<"x", "RED">>}}
  \union {Assigned(f, "literal", "", <<>>)}
FieldRequests ==
  {[Default EXCEPT !.types = MessageTypes, !.labels = EnumLabels, !.reply.fields = fs] :
     fs \in UNION {Assignments3(f) : f \in {"b", "n", "c", "x"}}
        \union {Assigned(g, "message", "", fs) : g \in {"b", "n"}, fs \in Assignments3("a")}}

-----------------------------------------------------------------------------
(* What the blocks of two nodes and a container say. *)
Txt(k, v) == Element(k, "string", v)
Num(k, v) == Element(k, "integer", v)
Env(pairs) == Element("environment", "block", pairs)
Image == Txt("image", "img")
Says ==
  << <<Image>>, <<Image, Num("port", 8003), Num("scale", 3)>>, <<Txt("endpoint", "far:9000")>>,
     <<Txt("endpoint", "localhost:9"), Num("port", 8001), Num("scale", 4), Num("timeout", 7)>>,
     <<Image, Txt("group", "g"), Num("max_cpu", 2), Num("min_gpu", 1), Txt("runtime", "r")>>,
     <<Image, Txt("group", "main"), Env(<<Txt("X", <<Ref(<<"n1.1">>)>>), Txt("F", File("f"))>>)>>,
     <<Txt("group", "g"), Num("scale", 2), Num("scale", 5), Env(<<Txt("Y", <<Ref(<<"n3">>)>>)>>)>>,
     <<Image, Txt("group", "g"), Txt("endpoint", "x:1"),
       Env(<<Txt("Y", <<Ref(<<"n3">>)>>), Txt("Z", <<Ref(<<"c">>)>>), Txt("Z", File("g")), Txt("W", <<Ref(<<"n1">>)>>)>>)>>,
     <<Image, Txt("group", "main"), Env(<<Txt("Y", <<Ref(<<"n3">>)>>), Txt("Z", File("f"))>>)>>,
     <<Num("replicas", 3), Element("headers", "block", <<Txt("h", "v")>>)>>,
     <<Num("endpoint", 3), Num("headers", 1)>>, <<Env(<<Env(<<>>)>>)>>,
     <<Txt("endpoint", "localhost:9"), Txt("group", "g"), Num("scale", 4)>> >>
Mount(name, block) == [name |-> name, block |-> block]
MountsSaid ==
  << <<>>, <<Mount("", <<Txt("path", "p")>>)>>,
     <<Mount("vo", <<Txt("access", "rw"), Txt("path", "q")>>), Mount("", <<Txt("access", "readonly")>>)>>,
     <<Mount("x", <<>>), Mount("vo101", <<>>), Mount("", <<>>)>> >>
ContainerWith(s) ==
  [name |-> "c", type |-> "c", kind |-> "container", group |-> "", block |-> Says[s], mounts |-> MountsSaid[2]]

Layout(l) ==
  [Default EXCEPT !.blocks[1] = Says[l.n1], !.blocks[3] = Says[l.n3], !.containers = <<ContainerWith(l.c)>>,
                  !.mounts[1] = MountsSaid[l.m1], !.mounts[3] = MountsSaid[l.m3]]
LayoutRequests ==
  {[Layout(l) EXCEPT !.options = {"driver"}] :
     l \in [n1 : {1, 5, 8}, n3 : 1 .. 10 \union {13}, c : {3, 6, 7, 8}, m1 : {1}, m3 : {1}]
        \union [n1 : {5}, n3 : {3}, c : {7}, m1 : 1 .. 4, m3 : 1 .. 4]}
ServerRequests ==
  {[Layout(l) EXCEPT !.options = {"server"}] :
     l \in [n1 : {1, 4, 10}, n3 : {3, 4, 10, 11, 12}, c : {1}, m1 : {1}, m3 : {1}]}

-----------------------------------------------------------------------------
(* Pages of one kind of block with all small bodies, and variables for them. *)
Leaves ==
  << Text("t"), Ref(<<"DEFV">>), Ref(<<"PROTO_FILE">>), Ref(<<"Z", "PROTO_FILE">>),
     RefOr(<<"Z">>, "d"), Ref(<<"Z">>), Ref(<<"N">>) >>
LoopsNamed ==
  {Loop("N", c, n, g, s) : c \in {"first", "most", "least"}, n \in {<<"DEFV">>, <<"PROTO_FILE", "DEFV">>},
                           g \in {<<>>, <<2>>}, s \in {1, 2}}
LoopsUnnamed == {Loop("N", c, <<>>, <<>>, s) : c \in {"first", "most", "least"}, s \in {1, 2}}
Ifs == {If("I", terms) : terms \in {<< <<"DEFV">> >>, << <<"DEFV", "PROTO_FILE">> >>, << <<"DEFV">>, <<"PROTO_FILE">> >>}}
Inner == {<<Block([m EXCEPT !.label = "J"], <<Leaves[2]>>)>> : m \in Ifs}
  \union {<<Block(LoopOf("M", "PROTO_FILE"), <<a, Ref(<<"M">>)>>)>> : a \in {Leaves[2], Leaves[7]}}
InnerUncounted ==
  {<<Block(m, <<a>>)>> : m \in {Loop("M", "first", <<>>, <<>>, 1), LoopOf("M", "PROTO_FILE")},
                         a \in {Leaves[2], Leaves[3], Leaves[4]}}
PageOf(m, number, more) == FlattenSeq([k \in 1 .. number |-> <<Block(m, <<Leaves[k]>> \o more), Leaves[3]>>])
Pages ==
  {PageOf(m, 7, more) : m \in LoopsNamed, more \in {<<>>, <<Leaves[1]>>, <<Leaves[2]>>} \union Inner}
  \union {PageOf(m, 6, more) : m \in LoopsUnnamed,
             more \in {<<>>, <<Leaves[1]>>, <<Leaves[2]>>} \union Inner \union InnerUncounted}
  \union {<<Block(m, <<Leaves[7]>> \o more)>> : m \in LoopsUnnamed,
             more \in {<<Leaves[2]>>, <<Leaves[3]>>} \union InnerUncounted}
  \union {PageOf(m, 6, more) : m \in Ifs, more \in Inner}

DefineAll(values) == [k \in DOMAIN values |-> [name |-> "D", value |-> values[k], refcount |-> 1]]
PageRequests ==
  {[Default EXCEPT !.options = {"www-files"}, !.page = page, !.defines = DefineAll(v[1]), !.protos = v[2]] :
     page \in Pages, v \in {<< <<>>, OneProto>>, << <<"no">>, Importing>>,
                           << <<"a", "no", "b">>, OneProto>>, << <<"a", "no", "b">>, Importing>>}}

MCRequests(f) ==
  IF f # OneFlow THEN {Default}
  ELSE TargetRequests \union FailingRequests \union PrintRequests \union NameRequests \union MessageRequests
         \union TwoEntries \union ReturnRequests \union FieldRequests \union LayoutRequests \union ServerRequests \union PageRequests
=============================================================================
