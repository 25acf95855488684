---------------------------- MODULE MessageFields ----------------------------
(***************************************************************************)
(* compile_fldm() of flow-compiler.C: the fields that are assigned in a     *)
(* message, message by message.                                            *)
(***************************************************************************)
EXTENDS ProtoNames

(* compile_fldm(): the errors of a message that is written out.  A value is a
   message, a path, a label or a literal. *)
RECURSIVE CompileFldm(_, _, _, _)
CompileFldm(types, labels, message, fields) ==
  MapThenSumSet(LAMBDA k :
    LET f == fields[k]
        left == types[message][f.field]
    IN  CASE f.field \notin DOMAIN types[message] -> 1
          [] f.field \in DOMAIN types[message] /\ f.is = "message" ->
               IF left \in DOMAIN types THEN CompileFldm(types, labels, left, f.value) ELSE 1
          [] f.field \in DOMAIN types[message] /\ f.is = "path" ->
               IF CompileFldx(types, f.of, f.value) = {} THEN 1 ELSE 0
          [] f.field \in DOMAIN types[message] /\ f.is = "label" ->
               IF CompileEnum(labels, left, f.value) = {} THEN 1 ELSE 0
          [] OTHER -> IF left \in DOMAIN types THEN 1 ELSE 0,
    DOMAIN fields)
=============================================================================
