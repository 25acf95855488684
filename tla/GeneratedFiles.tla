---------------------------- MODULE GeneratedFiles ----------------------------
(***************************************************************************)
(* What is in the files flowc writes: the code of an entry, and the pages  *)
(* that are expanded from templates.                                       *)
(***************************************************************************)
EXTENDS Driver, GeneratedCode, TemplateExpansion, MessageFields

(* A page that is written is what its template is meant to become, unless a loop
   that names no variable to go by has an index in its body: the code counts by
   the index then, which has one value. *)
TemplatesExpand ==
  step = "return" /\ "www-files" \in DOMAIN generated /\ ~CountsAnIndex(request.page) =>
    generated["www-files"] = Rendering(request.page, 0, [dicts |-> <<global>>, loops |-> <<>>])
=============================================================================
