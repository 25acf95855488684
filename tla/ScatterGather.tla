--------------------------- MODULE ScatterGather ----------------------------
(***************************************************************************)
(* What a generated entry method promises its client, whichever way it     *)
(* makes its calls: it works through its stages, makes the calls of a      *)
(* stage once each, moves on only when all of them succeeded, never        *)
(* returns while one of them is still out, and blames a call for an error  *)
(* only when that call failed with it.                                     *)
(***************************************************************************)
EXTENDS Naturals, Sequences

CONSTANTS
  Entries,   \* the requests being served
  Last       \* the number of stages

Failures == {"unavailable", "error"}
Ended    == Failures \union {"ok"}

VARIABLES
  stage,       \* the stage every entry is in
  calls,       \* the calls of that stage: unsent, out, or how they ended
  cancelled,   \* the client lost interest, or the deadline passed
  result       \* what the entry returned

vars == <<stage, calls, cancelled, result>>

Init ==
  /\ stage = [e \in Entries |-> 1]
  /\ calls = [e \in Entries |-> <<>>]
  /\ cancelled = [e \in Entries |-> FALSE]
  /\ result = [e \in Entries |-> "none"]

Running(e) == result[e] = "none"
Done(e)    == \A x \in DOMAIN calls[e] : calls[e][x] = "ok"
Quiet(e)   == \A x \in DOMAIN calls[e] : calls[e][x] # "out"

Cancel(e) ==
  /\ cancelled' = [cancelled EXCEPT ![e] = TRUE]
  /\ UNCHANGED <<stage, calls, result>>

(* Calls are added behind those there are. *)
Add(e) ==
  /\ Running(e)
  /\ Len(calls'[e]) > Len(calls[e])
  /\ \A x \in DOMAIN calls[e] : calls'[e][x] = calls[e][x]
  /\ \A x \in DOMAIN calls'[e] \ DOMAIN calls[e] : calls'[e][x] \in {"unsent", "out"}
  /\ \A f \in Entries \ {e} : calls'[f] = calls[f]
  /\ UNCHANGED <<stage, cancelled, result>>

Send(e) ==
  /\ Running(e)
  /\ \E x \in DOMAIN calls[e] :
       calls[e][x] = "unsent" /\ calls' = [calls EXCEPT ![e][x] = "out"]
  /\ UNCHANGED <<stage, cancelled, result>>

Answer(e) ==
  /\ \E x \in DOMAIN calls[e], s \in Ended :
       calls[e][x] = "out" /\ calls' = [calls EXCEPT ![e][x] = s]
  /\ UNCHANGED <<stage, cancelled, result>>

Advance(e) ==
  /\ Running(e) /\ Done(e) /\ stage[e] < Last
  /\ stage' = [stage EXCEPT ![e] = @ + 1]
  /\ calls' = [calls EXCEPT ![e] = <<>>]
  /\ UNCHANGED <<cancelled, result>>

(* "no_address" and "refused" are errors of the entry's own: a node has no
   address to send to, or an error check of the flow or a value no message can
   hold says so. *)
Return(e) ==
  /\ Running(e) /\ Quiet(e)
  /\ \/ Done(e) /\ stage[e] = Last /\ result' = [result EXCEPT ![e] = "ok"]
     \/ \E x \in DOMAIN calls[e] :
          calls[e][x] \in Failures /\ result' = [result EXCEPT ![e] = calls[e][x]]
     \/ cancelled[e] /\ result' = [result EXCEPT ![e] = "cancelled"]
     \/ result' \in {[result EXCEPT ![e] = r] : r \in {"no_address", "refused"}}
  /\ UNCHANGED <<stage, calls, cancelled>>

Next == \E e \in Entries :
  Cancel(e) \/ Add(e) \/ Send(e) \/ Answer(e) \/ Advance(e) \/ Return(e)

Spec == Init /\ [][Next]_vars
=============================================================================
