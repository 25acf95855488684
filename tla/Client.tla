------------------------------- MODULE Client -------------------------------
(***************************************************************************)
(* process_file() and output_queue of template.client.C: the generated     *)
(* command line client reads requests line by line, keeps up to            *)
(* concurrent_calls of them under way, and writes what came of every line  *)
(* in the order of the lines, whatever the order of the answers.           *)
(*                                                                         *)
(* A line is blank (empty or a comment), not a request ("bad"), or the     *)
(* request of a call.  What is written for a line is told apart only by    *)
(* its kind; a headers file, when there is one, is a queue of its own.     *)
(***************************************************************************)
EXTENDS Integers, Sequences, FiniteSets

CONSTANTS
  MaxStreams,   \* bound: concurrent_calls
  MaxLines      \* bound: lines of the input

ASSUME BoundsAssumption == MaxStreams \in Nat \ {0} /\ MaxLines \in Nat

VARIABLES
  input,        \* the kinds of the lines
  options,      \* concurrent_calls, ignore_json_errors, ignore_grpc_errors, use_hq
  pc,
  line_count,   \* the lines read
  have_input,
  ciq,          \* the line of every slot's call, 0 when the slot is free
  status,       \* of every slot's call: out, and how it ended once it is on cq
  active_calls,
  error_count,
  oq, hq        \* the queues of the output file and of the headers file

vars == <<input, options, pc, line_count, have_input, ciq, status,
          active_calls, error_count, oq, hq>>

Kinds == {"blank", "bad", "call"}
Slots == 1 .. options.concurrent_calls

(* A queue: what was written, one after the other, and what still has to
   wait, by line.  line_count of the code is the number of lines written. *)
EmptyQueue == [written |-> <<>>, outq |-> <<>>]

Init ==
  /\ input \in UNION {[1 .. n -> Kinds] : n \in 0 .. MaxLines}
  /\ options \in [concurrent_calls : 1 .. MaxStreams, ignore_json_errors : BOOLEAN,
                  ignore_grpc_errors : BOOLEAN, use_hq : BOOLEAN]
  /\ pc = "read" /\ line_count = 0 /\ have_input = TRUE
  /\ ciq = [x \in Slots |-> 0] /\ status = [x \in Slots |-> "none"]
  /\ active_calls = 0 /\ error_count = 0
  /\ oq = EmptyQueue /\ hq = EmptyQueue

-----------------------------------------------------------------------------
(* A bug the checks must notice: a line is written as soon as it is known. *)
OutputAtOnce(q, line, what) ==
  [q EXCEPT !.written = Append(@, [line |-> line, what |-> what])]

(* output_queue::output(): the line waits until it is the next one; then it
   is written, and so are those behind it that are waiting. *)
Output(q, line, what) ==
  LET next  == Len(q.written) + 1
      outq  == [n \in DOMAIN q.outq \union {line} |->
                  IF n = line THEN what ELSE q.outq[n]]
      lasts == {k \in DOMAIN outq : k >= next /\ next .. k \subseteq DOMAIN outq}
      ready == UNION {next .. k : k \in lasts}
  IN  IF next # line THEN [q EXCEPT !.outq = outq]
      ELSE [written |-> [n \in 1 .. Len(q.written) + Cardinality(ready) |->
                           IF n < next THEN q.written[n]
                           ELSE [line |-> n, what |-> outq[n]]],
            outq    |-> [n \in DOMAIN outq \ ready |-> outq[n]]]

(* A bug the checks must notice: a blank line is skipped. *)
SkipBlank(q, n) == q

(* A blank line is reflected. *)
Reflect(q, n) == Output(q, n, "reflected")

(* The head of the loop and the line it reads: a blank line goes to the
   output, so does the error of a line that is not a request, unless such an
   error ends the loop; the loop also ends when all is read and answered. *)
Read ==
  /\ pc = "read"
  /\ \/ /\ have_input /\ line_count < Len(input)
        /\ line_count' = line_count + 1
        /\ CASE input[line_count'] = "blank" ->
                  /\ oq' = Reflect(oq, line_count')
                  /\ UNCHANGED <<pc, error_count>>
             [] input[line_count'] = "bad" ->
                  /\ error_count' = error_count + 1
                  /\ IF options.ignore_json_errors
                     THEN oq' = Output(oq, line_count', "message") /\ UNCHANGED pc
                     ELSE pc' = "close" /\ UNCHANGED oq
             [] OTHER -> pc' = "next" /\ UNCHANGED <<oq, error_count>>
        /\ UNCHANGED have_input
     \/ /\ ~(have_input /\ line_count < Len(input))
        /\ have_input' = FALSE
        /\ pc' = IF active_calls > 0 THEN "next" ELSE "close"
        /\ UNCHANGED <<line_count, oq, error_count>>
  /\ UNCHANGED <<input, options, ciq, status, active_calls, hq>>

(* A bug the checks must notice: the last calls are not waited for. *)
WaitWhenFull == active_calls = options.concurrent_calls

(* Whether a call has to end before the loop goes on. *)
MustWait == active_calls = options.concurrent_calls \/ ~have_input

(* A line that was read is sent now. *)
Continue == pc' = IF have_input THEN "send" ELSE "read"

(* A bug the checks must notice: the slot of an answered call stays taken. *)
KeepSlot(x) == ciq

(* "free the current slot" *)
FreeSlot(x) == [ciq EXCEPT ![x] = 0]

(* cq.Next() and what is done with the call that ended: its headers, the
   answer or the error, and the slot is free - unless the error ends the
   loop. *)
Answered(x) ==
  LET failed == status[x] = "error"
  IN  /\ active_calls' = active_calls - 1
      /\ status' = [status EXCEPT ![x] = "none"]
      /\ hq' = IF options.use_hq THEN Output(hq, ciq[x], "headers") ELSE hq
      /\ error_count' = IF failed THEN error_count + 1 ELSE error_count
      /\ IF failed /\ ~options.ignore_grpc_errors
         THEN pc' = "close" /\ UNCHANGED <<oq, ciq>>
         ELSE /\ oq' = Output(oq, ciq[x], IF failed THEN "error" ELSE "answer")
              /\ ciq' = FreeSlot(x)
              /\ Continue
      /\ UNCHANGED <<input, options, line_count, have_input>>

WaitForCall ==
  /\ pc = "next"
  /\ IF MustWait
     THEN \E x \in Slots : status[x] \in {"ok", "error"} /\ Answered(x)
     ELSE /\ Continue
          /\ UNCHANGED <<input, options, line_count, have_input, ciq, status,
                         active_calls, error_count, oq, hq>>

(* The line's call is made in the first free slot. *)
Send ==
  /\ pc = "send"
  /\ \E x \in Slots :
       /\ ciq[x] = 0 /\ \A y \in 1 .. x - 1 : ciq[y] # 0
       /\ ciq' = [ciq EXCEPT ![x] = line_count]
       /\ status' = [status EXCEPT ![x] = "out"]
  /\ active_calls' = active_calls + 1
  /\ pc' = "read"
  /\ UNCHANGED <<input, options, line_count, have_input, error_count, oq, hq>>

(* cq.Shutdown() and the loop that drains the queue. *)
Close ==
  /\ pc = "close"
  /\ \A x \in Slots : status[x] # "out"
  /\ status' = [x \in Slots |-> "none"]
  /\ pc' = "done"
  /\ UNCHANGED <<input, options, line_count, have_input, ciq, active_calls,
                 error_count, oq, hq>>

(* gRPC: a call ends. *)
Complete(x) ==
  /\ x \in Slots /\ status[x] = "out"
  /\ \E s \in {"ok", "error"} : status' = [status EXCEPT ![x] = s]
  /\ UNCHANGED <<input, options, pc, line_count, have_input, ciq, active_calls,
                 error_count, oq, hq>>

Main == Read \/ WaitForCall \/ Send \/ Close

Next == Main \/ \E x \in 1 .. MaxStreams : Complete(x)

Spec == Init /\ [][Next]_vars

(* The client runs, and every call ends: the server answers, or the
   connection fails, or the deadline passes. *)
FairSpec ==
  Spec /\ WF_vars(Main) /\ \A x \in 1 .. MaxStreams : WF_vars(Complete(x))

-----------------------------------------------------------------------------
(* Properties. *)

Whats == {"reflected", "message", "answer", "error", "headers"}
Queues == [written : Seq([line : 1 .. MaxLines, what : Whats]),
           outq : UNION {[L -> Whats] : L \in SUBSET (1 .. MaxLines)}]

TypeOK ==
  /\ pc \in {"read", "next", "send", "close", "done"}
  /\ line_count \in 0 .. Len(input) /\ have_input \in BOOLEAN
  /\ ciq \in [Slots -> 0 .. line_count]
  /\ status \in [Slots -> {"none", "out", "ok", "error"}]
  /\ active_calls \in 0 .. options.concurrent_calls
  /\ error_count \in 0 .. line_count
  /\ oq \in Queues /\ hq \in Queues

Used   == {x \in Slots : ciq[x] # 0}
InHand == pc = "send" \/ (pc = "next" /\ have_input)

(* While the loop runs, active_calls counts the slots in use, these are the
   calls that have not been answered, each of a line of its own, and the slot
   that a line is about to be sent in exists: the assertion on x holds.  There
   are never more calls than the window has slots (TypeOK). *)
SlotsAgree ==
  /\ TypeOK
  /\ pc \in {"read", "next", "send"} =>
       /\ active_calls = Cardinality(Used)
       /\ \A x \in Slots : x \in Used <=> status[x] # "none"
       /\ \A x, y \in Used : ciq[x] = ciq[y] => x = y
       /\ pc = "send" => Used # Slots

(* The lines of the output are those of the input, in order and without a
   gap, and each got the answer that fits its kind. *)
InOrder ==
  /\ \A n \in DOMAIN oq.written :
       /\ oq.written[n].line = n
       /\ oq.written[n].what \in CASE input[n] = "blank" -> {"reflected"}
                                   [] input[n] = "bad"   -> {"message"}
                                   [] OTHER              -> {"answer", "error"}
  /\ \A n \in DOMAIN hq.written : hq.written[n].line = n /\ input[n] = "call"

(* Every line that was read is written, waits to be written, is under way or
   is about to be, and only one of these; and a client that is to ignore all
   errors, or meets none, has written all the lines when it ends. *)
NothingLost ==
  /\ pc \in {"read", "next", "send"} =>
       LET written == DOMAIN oq.written
           waiting == DOMAIN oq.outq
           away    == {ciq[x] : x \in Used}
           inhand  == IF InHand THEN {line_count} ELSE {}
       IN  /\ written \union waiting \union away \union inhand = 1 .. line_count
           /\ Cardinality(written) + Cardinality(waiting) + Cardinality(away)
                + Cardinality(inhand) = line_count
  /\ pc = "done" =>
       \/ error_count > 0 /\ ~(options.ignore_json_errors /\ options.ignore_grpc_errors)
       \/ Len(oq.written) = Len(input)

(* The client ends, whatever the order of the answers and the errors. *)
Ends == <>(pc = "done")

(* The help of the client: "Display headers returned with the reply", here to
   a headers file.  When all is done without an error, the headers of all the
   calls have been written. *)
HeadersWritten ==
  pc = "done" /\ options.use_hq /\ error_count = 0 =>
    \A n \in DOMAIN input : input[n] = "call" =>
      \E k \in DOMAIN hq.written : hq.written[k].line = n
=============================================================================
