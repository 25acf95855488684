-------------------------- MODULE TemplateExpansion --------------------------
(***************************************************************************)
(* vex: the expansion of a template, token by token, and what a template   *)
(* is meant to become.                                                     *)
(***************************************************************************)
EXTENDS Templates, FiniteSets, SequencesExt, FiniteSetsExt, TLC

(* get_value(): the variables of the loops around, the innermost first, then
   those of the dictionaries.  A single value stands at every index, others are
   empty past the end. *)
Missing == [size |-> -1, value |-> ""]
At(values, i) ==
  [size |-> Len(values),
   value |-> IF Len(values) = 1 THEN values[1] ELSE IF i < Len(values) THEN values[i + 1] ELSE ""]

GetValue(name, i, env) ==
  LET around == {k \in DOMAIN env.loops : env.loops[k].label = name}
      having == {k \in DOMAIN env.dicts : name \in DOMAIN env.dicts[k]}
  IN  CASE around # {} -> [size |-> 1, value |-> env.loops[Max(around)].value]
        [] around = {} /\ having # {} -> At(env.dicts[Min(having)][name], i)
        [] OTHER -> Missing

(* eval_condition(): an index past the size is false, and so are some words. *)
Falses == {"", "no", "n", "f", "false", "off", "0"}
Holds(name, i, env) ==
  LET v == GetValue(name, i, env) IN v.size >= 0 /\ i <= v.size /\ v.value \notin Falses
EvalCondition(terms, i, env) ==
  \E k \in DOMAIN terms : \A j \in DOMAIN terms[k] : Holds(terms[k][j], i, env)

(* vref_ct: the sizes of what was referenced, the first of a name. *)
AddRef(refs, r) == IF \E k \in DOMAIN refs : refs[k].name = r.name THEN refs ELSE Append(refs, r)
AddRefs(refs, more) == FoldLeft(AddRef, refs, more)

(* count_from_refs() *)
CountFromRefs(refs, counter) ==
  LET sizes == {refs[k].size : k \in DOMAIN refs}
  IN  CASE refs = <<>>          -> -1
        [] counter = "most"     -> Max(sizes)
        [] counter = "least"    -> Min(sizes)
        [] counter = "first"    -> refs[1].size

(* vex_count(): the count of a loop that names variables, or gives a number; -1
   if it does neither. *)
VexCount(m, i, env) ==
  LET named == SelectSeq([k \in DOMAIN m.names |->
                            [name |-> m.names[k], size |-> GetValue(m.names[k], 0, env).size]],
                         LAMBDA r : r.size > 0)
      given == [k \in DOMAIN m.given |-> [name |-> "", size |-> m.given[k]]]
      count == CountFromRefs(AddRefs(<<>>, named \o given), m.counter)
  IN  IF count < 0 /\ m.names # <<>> THEN 0 ELSE count

(* vex_value(): the first of the names that has a value, the default, or the
   reference itself and an error. *)
VexValue(m, i, env) ==
  LET found == {k \in DOMAIN m.names : GetValue(m.names[k], i, env).size > 0}
      name  == m.names[Min(found)]
      value == GetValue(name, i, env)
  IN  CASE found # {} -> [out |-> <<Text(value.value)>>, refs |-> <<[name |-> name, size |-> value.size]>>,
                          errors |-> 0]
        [] found = {} /\ m.default # <<>> -> [out |-> m.default, refs |-> <<>>, errors |-> 0]
        [] OTHER -> [out |-> <<m>>, refs |-> <<>>, errors |-> 1]

-----------------------------------------------------------------------------
Nothing == [out |-> <<>>, refs |-> <<>>, errors |-> 0]
Then(r, s) ==
  [out |-> r.out \o s.out, refs |-> AddRefs(r.refs, s.refs), errors |-> r.errors + s.errors]

(* A bug the checks must notice: a block ends at the last end with its label. *)
LastEnd(t, b, e) ==
  LET ends == {k \in b + 1 .. e : t[k] = End(t[b].label)} IN IF ends = {} THEN 0 ELSE Max(ends)

(* match_macro(): the end of the block that begins at b, if there is one. *)
EndOf(t, b, e) ==
  LET ends == {k \in b + 1 .. e : t[k] = End(t[b].label)} IN IF ends = {} THEN 0 ELSE Min(ends)

Within(env, label, cx) ==
  [env EXCEPT !.loops = Append(@, [label |-> label, value |-> ToString(cx + 1)])]

RECURSIVE Expand(_, _, _, _, _)
RECURSIVE Rounds(_, _, _, _, _, _, _)

(* The rounds of a loop from cx on; those before the count are written. *)
Rounds(t, b, e, cx, count, env, done) ==
  IF cx >= count THEN done
  ELSE Rounds(t, b, e, cx + 1, count, env,
              Then(done, Expand(t, b, e, cx, Within(env, t[b - 1].label, cx))))

(* A loop without a count is rendered once to see how large the variables are
   that it refers to; an error in what is not written then still counts. *)
ExpandLoop(t, b, e, i, env) ==
  LET m      == t[b]
      count  == VexCount(m, i, env)
      cx     == m.start - 1
      once   == Expand(t, b + 1, e - 1, cx, Within(env, m.label, cx))
      sized  == CountFromRefs(once.refs, m.counter)
  IN  CASE count >= 0               -> Rounds(t, b + 1, e - 1, cx, count, env, Nothing)
        [] count < 0 /\ cx < sized  -> Rounds(t, b + 1, e - 1, cx + 1, sized, env, once)
        [] OTHER                    -> [Nothing EXCEPT !.errors = once.errors]

(* vex_r(): tokens b to e of a template at an index. *)
Expand(t, b, e, i, env) ==
  IF b > e THEN Nothing
  ELSE LET m == t[b]
           block == m.is \in {"loop", "if"} /\ EndOf(t, b, e) # 0
           end == EndOf(t, b, e)
       IN  CASE m.is = "ref" -> Then(VexValue(m, i, env), Expand(t, b + 1, e, i, env))
             [] block /\ m.is = "if" ->
                  Then(IF EvalCondition(m.terms, i, env)
                       THEN Expand(t, b + 1, end - 1, i, env) ELSE Nothing,
                       Expand(t, end + 1, e, i, env))
             [] block /\ m.is = "loop" ->
                  Then(ExpandLoop(t, b, end, i, env), Expand(t, end + 1, e, i, env))
             [] OTHER -> Then([Nothing EXCEPT !.out = <<m>>], Expand(t, b + 1, e, i, env))

Expansion(t, dicts) == Expand(t, 1, Len(t), 0, [dicts |-> dicts, loops |-> <<>>])

-----------------------------------------------------------------------------
(* What a template is meant to become, as a tree. *)
RECURSIVE Unfolded(_)
Unfolded(tree) ==
  FlattenSeq([k \in DOMAIN tree |->
    IF tree[k].is = "block"
    THEN <<tree[k].begin>> \o Unfolded(tree[k].body) \o <<End(tree[k].begin.label)>>
    ELSE <<tree[k]>>])

(* The text that is written for a template. *)
Expanding(tree, dicts) == Expansion(Unfolded(tree), dicts).out

(* The indices of a loop that goes round a number of times. *)
IndicesOf(m, times) == [j \in 1 .. Max({0, times - m.start + 1}) |-> m.start + j - 2]

RECURSIVE Referred(_, _, _)
RECURSIVE Times(_, _, _)

(* The variables with a value that what is rendered refers to, in the order of the
   text; the variables of loops are none of them, they are where the loop is. *)
Referred(tree, i, env) ==
  FlattenSeq([k \in DOMAIN tree |->
    LET p == tree[k]
    IN  CASE p.is = "ref" ->
               LET found == {j \in DOMAIN p.names : GetValue(p.names[j], i, env).size > 0}
                   name  == p.names[Min(found)]
               IN  IF found = {} \/ \E l \in Range(env.loops) : l.label = name THEN <<>> ELSE <<name>>
          [] p.is = "text" -> <<>>
          [] p.is = "block" /\ p.begin.is = "if" ->
               IF EvalCondition(p.begin.terms, i, env) THEN Referred(p.body, i, env) ELSE <<>>
          [] p.is = "block" /\ p.begin.is = "loop" ->
               LET m == p.begin
                   round(cx) == Referred(p.body, cx, Within(env, m.label, cx))
                   indices == IndicesOf(m, Times(m, p.body, env))
               IN  FlattenSeq([j \in DOMAIN indices |-> round(indices[j])])])

(* How often a loop goes round: as often as the first, largest or smallest of the
   variables it names, or its first round refers to if it names none. *)
Times(m, body, env) ==
  LET names == IF m.names = <<>> /\ m.given = <<>>
               THEN Referred(body, m.start - 1, Within(env, m.label, m.start - 1))
               ELSE SelectSeq(m.names, LAMBDA n : GetValue(n, 0, env).size > 0)
      sizes == [k \in DOMAIN names |-> GetValue(names[k], 0, env).size] \o m.given
  IN  CASE sizes = <<>>           -> 0
        [] m.counter = "most"     -> Max(ToSet(sizes))
        [] m.counter = "least"    -> Min(ToSet(sizes))
        [] OTHER                  -> sizes[1]

RECURSIVE Rendering(_, _, _)
Rendering(tree, i, env) ==
  FlattenSeq([k \in DOMAIN tree |->
    LET p == tree[k]
    IN  CASE p.is = "ref"  -> VexValue(p, i, env).out
          [] p.is = "text" -> <<p>>
          [] p.is = "block" /\ p.begin.is = "if" ->
               IF EvalCondition(p.begin.terms, i, env) THEN Rendering(p.body, i, env) ELSE <<>>
          [] p.is = "block" /\ p.begin.is = "loop" ->
               LET m == p.begin
                   round(cx) == Rendering(p.body, cx, Within(env, m.label, cx))
                   indices == IndicesOf(m, Times(m, p.body, env))
               IN  FlattenSeq([j \in DOMAIN indices |-> round(indices[j])])])

(* A loop that names no variable, and has the index of a loop in its body. *)
RECURSIVE LoopLabels(_)
LoopLabels(tree) ==
  UNION {{p.begin.label : l \in {p.begin.is} \cap {"loop"}} \union LoopLabels(p.body) :
           p \in {q \in ToSet(tree) : q.is = "block"}}
RECURSIVE Names(_)
Names(tree) ==
  UNION {IF p.is = "ref" THEN ToSet(p.names) ELSE IF p.is = "block" THEN Names(p.body) ELSE {} :
           p \in ToSet(tree)}
RECURSIVE LoopsUncounted(_)
LoopsUncounted(tree) ==
  UNION {(IF p.begin.is = "loop" /\ p.begin.names = <<>> /\ p.begin.given = <<>> THEN {p.body} ELSE {})
           \union LoopsUncounted(p.body) : p \in {q \in ToSet(tree) : q.is = "block"}}
CountsAnIndex(tree) ==
  \E body \in LoopsUncounted(tree) : Names(body) \cap LoopLabels(tree) # {}
=============================================================================
