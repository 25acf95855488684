----------------------------- MODULE ProtoNames -----------------------------
(***************************************************************************)
(* What the names in a flow stand for: flow-pgcc.C keeps the proto files    *)
(* that are imported and looks up methods and messages in them, and         *)
(* flow-compiler.C the fields and the labels of enumerations.               *)
(*                                                                         *)
(* A dotted name is a sequence.  The files there are, are a function from   *)
(* the name of a file to its package, the stem of its name, the files it    *)
(* imports - all of which exist -, its methods, its messages and the labels *)
(* of its enumerations.                                                     *)
(***************************************************************************)
EXTENDS Integers, Sequences, FiniteSets, SequencesExt, FiniteSetsExt

(* get_package(): without one it is the name of the file. *)
Package(file) == IF file.package = <<>> THEN file.stem ELSE file.package

(* compile_proto(): a file and the files it imports itself, once each.  A file
   that is there already is not looked at again. *)
CompileProto(protos, s, f) ==
  CASE f \notin DOMAIN protos -> [s EXCEPT !.errors = @ + 1]
    [] f \in DOMAIN protos /\ f \in ToSet(s.fdps) -> s
    [] OTHER -> [s EXCEPT !.fdps = FoldLeft(LAMBDA fs, g : IF g \in ToSet(fs) THEN fs ELSE Append(fs, g),
                                           Append(@, f), protos[f].imports)]
Imported(protos, fdps, names) ==
  FoldLeft(LAMBDA s, f : CompileProto(protos, s, f), [fdps |-> fdps, errors |-> 0], names)

-----------------------------------------------------------------------------
(* A bug the checks must notice: a method is not found by its package. *)
UnqualifiedNames(file, m) == {<<m.name>>, <<m.service, m.name>>}
(* [package.][service.]method *)
MethodNames(file, m) ==
  {<<m.name>>, <<m.service, m.name>>, Package(file) \o <<m.name>>, Package(file) \o <<m.service, m.name>>}

MessageNames(file, name) == {<<name>>, Package(file) \o <<name>>}

(* find_service_method(): the last one a name is of, and the full names of all. *)
FindServiceMethod(protos, fdps, name) ==
  LET found(f) == SelectSeq(protos[f].methods, LAMBDA m : name \in MethodNames(protos[f], m))
      all == FlattenSeq([k \in DOMAIN fdps |-> [j \in DOMAIN found(fdps[k]) |->
                           [file |-> fdps[k], method |-> found(fdps[k])[j]]]])
  IN  [all |-> all,
       full |-> {Package(protos[all[k].file]) \o <<all[k].method.service, all[k].method.name>> : k \in DOMAIN all}]

(* find_message() *)
FindMessage(protos, fdps, name) ==
  LET found(f) == SelectSeq(protos[f].messages, LAMBDA m : name \in MessageNames(protos[f], m))
      all == FlattenSeq([k \in DOMAIN fdps |-> [j \in DOMAIN found(fdps[k]) |->
                           [file |-> fdps[k], message |-> found(fdps[k])[j]]]])
  IN  [all |-> all, full |-> {Package(protos[all[k].file]) \o <<all[k].message>> : k \in DOMAIN all}]

(* check_method() and check_message(): one full name, and no stream. *)
Unique(found) == IF Cardinality(found.full) = 1 THEN <<Last(found.all)>> ELSE <<>>
CheckMethod(protos, fdps, name) ==
  SelectSeq(Unique(FindServiceMethod(protos, fdps, name)), LAMBDA m : ~m.method.stream)
CheckMessage(protos, fdps, name) == Unique(FindMessage(protos, fdps, name))

(* A dotted name that is the other or the end of it. *)
EndsWith(full, label) == Len(label) <= Len(full) /\ SubSeq(full, Len(full) - Len(label) + 1, Len(full)) = label

(* fixup_proto_refs(): every name has to be found, no method is the entry of two,
   entries have the same input, and an entry that says what it returns says what
   its method does.  (That a flow has a return is what it is compiled with.) *)
Lookup(protos, fdps, reference) ==
  IF reference.is = "message" THEN CheckMessage(protos, fdps, reference.name)
  ELSE CheckMethod(protos, fdps, reference.name)
ReferencesRejected(protos, fdps, references) ==
  LET results == [k \in DOMAIN references |-> Lookup(protos, fdps, references[k])]
      entries == {k \in DOMAIN references : references[k].is = "entry"}
  IN  \/ \E k \in DOMAIN references : results[k] = <<>>
      \/ \E j, k \in entries :
           /\ j < k
           /\ results[j] = results[k] \/ results[j][1].method.input # results[k][1].method.input
      \/ \E k \in entries : ~EndsWith(results[k][1].method.output, references[k].returns)

-----------------------------------------------------------------------------
(* compile_enum(): a label or the end of its full name, first among those of the
   type that is expected, if one is, then among all. *)
CompileEnum(labels, expected, label) ==
  LET matches == {l \in labels : EndsWith(l.full, label)}
      near    == {l \in matches : l.enum = expected}
      chosen  == IF near # {} THEN near ELSE matches
  IN  IF Cardinality({l.full : l \in chosen}) = 1 THEN chosen ELSE {}

(* compile_fldx(): a path of fields, all but the last of which are messages.  A
   message type is a function from fields to their types, which are names of
   messages or else of basic types.  An empty result is an error. *)
CompileFldx(types, message, path) ==
  FoldLeft(LAMBDA at, f : {types[t][f] : t \in {u \in at \cap DOMAIN types : f \in DOMAIN types[u]}},
           {message}, path)

-----------------------------------------------------------------------------
(* What is meant: a name stands for a thing if it is called so, with or without
   its service and its package, and nothing else that can be seen is. *)
Visible(protos, names) == ToSet(names) \union UNION {ToSet(protos[f].imports) : f \in ToSet(names)}
Called(file, m, name) ==
  \E package \in {<<>>, Package(file)}, service \in {<<>>, <<m.service>>} :
    name = package \o service \o <<m.name>>
Candidates(protos, names, reference) ==
  IF reference.is = "message"
  THEN {[file |-> f, message |-> Last(reference.name)] :
          f \in {g \in Visible(protos, names) :
                   /\ Last(reference.name) \in ToSet(protos[g].messages)
                   /\ Front(reference.name) \in {<<>>, Package(protos[g])}}}
  ELSE UNION {{[file |-> f, method |-> m] :
                 m \in {k \in ToSet(protos[f].methods) : Called(protos[f], k, reference.name)}} :
              f \in Visible(protos, names)}

(* No two files go by the same package. *)
PackagesDiffer(protos) == \A f, g \in DOMAIN protos : f # g => Package(protos[f]) # Package(protos[g])
(* No file whose own imports count is first seen as an import. *)
ImportsOnce(protos, names) ==
  \A f, g \in ToSet(names) : protos[f].imports # <<>> => f \notin ToSet(protos[g].imports)

(* A field of a message is reached by a path if messages and fields follow each
   other. *)
PathExists(types, message, path) ==
  \E at \in [1 .. Len(path) + 1 -> {message} \union UNION {Range(types[t]) : t \in DOMAIN types}] :
    /\ at[1] = message
    /\ \A k \in DOMAIN path : /\ at[k] \in DOMAIN types /\ path[k] \in DOMAIN types[at[k]]
                              /\ at[k + 1] = types[at[k]][path[k]]
=============================================================================
