------------------------------ MODULE CallInfo ------------------------------
(***************************************************************************)
(* What the aggregator decides about one call before it is made and after  *)
(* it has ended: the constructors of call_info in template.server.C, the   *)
(* checks a REST handler makes of its request, and the HTTP code of a gRPC *)
(* status.  Deadlines are told apart only by whether there is one.         *)
(***************************************************************************)
EXTENDS Naturals

(* The x-flow-timeout header: not there, a positive number, or anything else
   (zero, negative, not a number: strtolong() gives 0). *)
TimeoutHeaders == {"absent", "positive", "other"}

(* have_deadline of a REST request; the default is the entry's or the node's
   timeout. *)
RestDeadline(header) == header # "other"

(* The deadline of a call that reached the server: that of its context, with
   none being infinitely far.  default_timeout, the timeout configured for the
   entry, is a parameter of the constructor and not used. *)
GrpcDeadline(contextDeadline, default_timeout) == contextDeadline

(* What can be wrong with a REST request, in the order of the checks: the path
   is longer than the handler's, the body cannot be read or exceeds the limit,
   the JSON does not convert, or a hook compiled into the server for before the
   call of an entry refuses.  The one for after the call ("after") may replace
   the reply. *)
Flaws == {"path", "body", "json", "hook"}
RefusalCode(flaw) ==
  CASE flaw = "path" -> 404
    [] flaw = "body" -> 422
    [] flaw = "json" -> 400
    [] flaw \in {"hook", "after"} -> 403   \* any code: the hook sets it

(* What a server or a node answers (all other errors alike), the outcomes of a
   gRPC call, and the code they are replied with.  CANCELLED is what a handler
   sets itself. *)
Answers  == {"ok", "unavailable", "error"}
Outcomes == Answers \union {"deadline_exceeded"}
Statuses == Outcomes \union {"cancelled"}

HttpCode(status) ==
  CASE status = "ok"                -> 200
    [] status = "unavailable"       -> 503
    [] status = "deadline_exceeded" -> 408
    [] OTHER                        -> 500
=============================================================================
