---------------------------- MODULE ClientProofs ----------------------------
(***************************************************************************)
(* Proofs about the command line client for any window and any input: the  *)
(* slots of the calls agree with active_calls, the output is in the order  *)
(* of the input, and no line is lost.                                      *)
(***************************************************************************)
EXTENDS Client, FiniteSetTheorems, WellFoundedInduction, TLAPS

USE BoundsAssumption

-----------------------------------------------------------------------------
(* The inductive invariant. *)

(* What may be written for a line: to the output, and to the headers. *)
Answers == [n \in 1 .. Len(input) |->
              IF input[n] = "blank" THEN {"reflected"}
              ELSE IF input[n] = "bad" THEN {"message"} ELSE {"answer", "error"}]
Headers == [n \in 1 .. Len(input) |-> IF input[n] = "call" THEN {"headers"} ELSE {}]

(* The lines a queue has got. *)
Covered(q) == DOMAIN q.written \union DOMAIN q.outq

(* What a queue has written is in order and without a gap, and the lines that
   wait are not the next one. *)
QueueOK(q, allowed) ==
  /\ q \in Queues
  /\ \A n \in DOMAIN q.written : /\ n \in DOMAIN allowed /\ q.written[n].line = n
                                 /\ q.written[n].what \in allowed[n]
  /\ \A n \in DOMAIN q.outq : /\ n > Len(q.written) + 1
                              /\ n \in DOMAIN allowed /\ q.outq[n] \in allowed[n]

Loop == pc \in {"read", "next", "send"}
Away == {ciq[x] : x \in Used}
Hand == IF InHand THEN {line_count} ELSE {}
InHandCount == IF InHand THEN 1 ELSE 0

Typed ==
  /\ input \in Seq(Kinds) /\ Len(input) \in 0 .. MaxLines
  /\ options \in [concurrent_calls : 1 .. MaxStreams, ignore_json_errors : BOOLEAN,
                  ignore_grpc_errors : BOOLEAN, use_hq : BOOLEAN]
  /\ pc \in {"read", "next", "send", "close", "done"}
  /\ line_count \in 0 .. Len(input) /\ have_input \in BOOLEAN
  /\ ciq \in [Slots -> 0 .. line_count]
  /\ status \in [Slots -> {"none", "out", "ok", "error"}]
  /\ active_calls \in 0 .. options.concurrent_calls
  /\ error_count \in 0 .. line_count

(* The input is read to its end. *)
ReadOn == have_input \/ line_count = Len(input)

QueuesOK == QueueOK(oq, Answers) /\ QueueOK(hq, Headers)

(* The slots in use are those of the calls, each of another line. *)
SlotsUsed ==
  /\ active_calls = Cardinality(Used)
  /\ \A x \in Slots : x \in Used <=> status[x] # "none"
  /\ \A x, y \in Used : ciq[x] = ciq[y] => x = y
  /\ pc = "send" => Used # Slots /\ have_input

(* Every line that was read is in one place, and an error is one of a line
   that is neither under way nor about to be. *)
LinesPlaced ==
  /\ Covered(oq) \union Away \union Hand = 1 .. line_count
  /\ Covered(oq) \cap Away = {} /\ Covered(oq) \cap Hand = {} /\ Away \cap Hand = {}
  /\ Covered(hq) \subseteq Covered(oq)
  /\ \A n \in Away \union Hand : input[n] = "call"
  /\ error_count + active_calls + InHandCount <= line_count

(* What is so once the loop has ended. *)
AllWritten ==
  \/ error_count > 0 /\ ~(options.ignore_json_errors /\ options.ignore_grpc_errors)
  \/ Len(oq.written) = Len(input)

IInv ==
  /\ Typed /\ ReadOn /\ QueuesOK
  /\ Loop => SlotsUsed /\ LinesPlaced
  /\ ~Loop => AllWritten

-----------------------------------------------------------------------------
(* Facts about the queues. *)

(* A set of numbers with a bound has a greatest element. *)
LEMMA GreatestIn ==
  ASSUME NEW L \in Nat, NEW T \in SUBSET (0 .. L), T # {}
  PROVE  \E k \in T : \A j \in T : j <= k
<1> DEFINE above == {k .. L : k \in T}
           R     == StrictSubsetOrdering(Nat)
<1>1. \A k \in T : IsFiniteSet(k .. L) /\ k .. L \in SUBSET Nat
  BY FS_Interval
<1>2. above \subseteq FiniteSubsetsOf(Nat) /\ above # {}
  BY <1>1 DEF FiniteSubsetsOf
<1>3. IsWellFoundedOn(R, FiniteSubsetsOf(Nat))
  BY FS_StrictSubsetOrderingWellFounded
<1> HIDE DEF above, R
<1>4. \E x \in above : \A y \in above : ~ (<<y, x>> \in R)
  BY <1>2, <1>3, WFMin
<1>5. PICK k \in T : \A j \in T : ~ (<<j .. L, k .. L>> \in R)
  BY <1>4 DEF above
<1>6. \A j \in T : j <= k
  <2> SUFFICES ASSUME NEW j \in T, k < j PROVE FALSE
    OBVIOUS
  <2>1. j .. L \subseteq k .. L /\ k \in k .. L /\ k \notin j .. L
    OBVIOUS
  <2>2. <<j .. L, k .. L>> \in R
    BY <2>1, <1>1 DEF R, StrictSubsetOrdering
  <2>3. QED
    BY <1>5, <2>2
<1>7. QED
  BY <1>6

(* The sequence of the lines from 1 to a number. *)
LEMMA FunctionIsSeq ==
  ASSUME NEW S, NEW K \in Nat, NEW f \in [1 .. K -> S]
  PROVE  f \in Seq(S) /\ Len(f) = K /\ DOMAIN f = 1 .. K
  OBVIOUS

LEMMA QueueShape ==
  ASSUME NEW allowed, NEW q, QueueOK(q, allowed)
  PROVE  /\ Len(q.written) \in Nat /\ DOMAIN q.written = 1 .. Len(q.written)
         /\ q.written \in Seq([line : 1 .. MaxLines, what : Whats])
         /\ DOMAIN q.outq \in SUBSET (1 .. MaxLines) /\ q.outq \in [DOMAIN q.outq -> Whats]
  BY DEF QueueOK, Queues

(* A line that came before its turn waits. *)
LEMMA OutputWaits ==
  ASSUME NEW L \in 0 .. MaxLines, NEW allowed \in [1 .. L -> SUBSET Whats],
         NEW q, QueueOK(q, allowed), NEW line \in 1 .. L, line \notin Covered(q),
         NEW what \in allowed[line], line # Len(q.written) + 1
  PROVE  /\ QueueOK(Output(q, line, what), allowed)
         /\ Covered(Output(q, line, what)) = Covered(q) \union {line}
<1> DEFINE D    == DOMAIN q.outq \union {line}
           outq == [n \in D |-> IF n = line THEN what ELSE q.outq[n]]
           q2   == [q EXCEPT !.outq = outq]
           w    == Len(q.written)
<1>1. /\ w \in Nat /\ DOMAIN q.written = 1 .. w
      /\ q.written \in Seq([line : 1 .. MaxLines, what : Whats])
      /\ DOMAIN q.outq \in SUBSET (1 .. MaxLines) /\ q.outq \in [DOMAIN q.outq -> Whats]
  BY QueueShape
<1>2. Output(q, line, what) = q2
  BY DEF Output
<1>3. D \in SUBSET (1 .. MaxLines) /\ outq \in [D -> Whats]
  BY <1>1
<1>4. /\ q2.written = q.written /\ q2.outq = outq /\ DOMAIN outq = D
      /\ q2 \in Queues
  <2>1. q \in Queues
    BY DEF QueueOK
  <2>2. outq \in UNION {[M -> Whats] : M \in SUBSET (1 .. MaxLines)} /\ DOMAIN outq = D
    BY <1>3
  <2> HIDE DEF outq, D
  <2>3. QED
    BY <2>1, <2>2 DEF Queues
<1>5. line > w + 1
  BY <1>1 DEF Covered
<1>6. \A n \in D : n > w + 1 /\ n \in DOMAIN allowed /\ outq[n] \in allowed[n]
  BY <1>5 DEF QueueOK
<1> HIDE DEF q2, outq
<1>7. QueueOK(q2, allowed)
  BY <1>4, <1>6 DEF QueueOK
<1>8. Covered(q2) = Covered(q) \union {line}
  BY <1>4 DEF Covered
<1>9. QED
  BY <1>2, <1>7, <1>8

(* The line that is the next one is written with those behind it. *)
LEMMA OutputWrites ==
  ASSUME NEW L \in 0 .. MaxLines, NEW allowed \in [1 .. L -> SUBSET Whats],
         NEW q, QueueOK(q, allowed), NEW line \in 1 .. L, line \notin Covered(q),
         NEW what \in allowed[line], line = Len(q.written) + 1
  PROVE  /\ QueueOK(Output(q, line, what), allowed)
         /\ Covered(Output(q, line, what)) = Covered(q) \union {line}
<1> DEFINE D     == DOMAIN q.outq \union {line}
           outq  == [n \in D |-> IF n = line THEN what ELSE q.outq[n]]
           w     == Len(q.written)
           lasts == {k \in D : k >= line /\ line .. k \subseteq D}
           ready == UNION {line .. k : k \in lasts}
           R     == [line : 1 .. MaxLines, what : Whats]
<1>1. /\ w \in Nat /\ DOMAIN q.written = 1 .. w /\ q.written \in Seq(R)
      /\ DOMAIN q.outq \in SUBSET (1 .. MaxLines) /\ q.outq \in [DOMAIN q.outq -> Whats]
  BY QueueShape
<1>2. D \in SUBSET (1 .. MaxLines) /\ outq \in [D -> Whats]
  BY <1>1
<1>3. \A n \in D : n > w /\ n \in 1 .. L /\ outq[n] \in allowed[n]
  BY <1>1 DEF QueueOK
<1>4. line \in lasts /\ lasts \in SUBSET (0 .. MaxLines)
  BY <1>2
<1>5. PICK k \in lasts : \A j \in lasts : j <= k
  <2> HIDE DEF lasts
  <2>1. QED
    BY <1>4, GreatestIn
<1>6. k \in Nat /\ w < k /\ k <= L /\ line .. k \subseteq D
  <2>1. k \in D /\ line .. k \subseteq D
    BY <1>5
  <2> HIDE DEF D, outq
  <2>2. QED
    BY <1>1, <1>2, <1>3, <2>1
<1>7. ready = line .. k
  BY <1>4, <1>5, <1>6
<1>8. k + 1 \notin D
  <2> SUFFICES ASSUME k + 1 \in D PROVE FALSE
    OBVIOUS
  <2>1. line .. k + 1 \subseteq D
    BY <1>6
  <2>2. k + 1 \in lasts
    BY <1>6, <2>1
  <2>3. QED
    BY <1>5, <1>6, <2>2
<1>9. w + Cardinality(ready) = k
  <2> HIDE DEF ready
  <2>1. Cardinality(line .. k) = k - line + 1
    BY <1>6, FS_Interval
  <2>2. QED
    BY <1>1, <1>6, <1>7, <2>1
<1> DEFINE written == [n \in 1 .. w + Cardinality(ready) |->
                         IF n < line THEN q.written[n] ELSE [line |-> n, what |-> outq[n]]]
           rest    == [n \in D \ ready |-> outq[n]]
           q2      == [written |-> written, outq |-> rest]
<1>10. Output(q, line, what) = q2
  BY DEF Output
<1>11. /\ written \in [1 .. k -> R]
       /\ \A n \in 1 .. k : written[n].line = n /\ written[n].what \in allowed[n] /\ n \in 1 .. L
  <2> HIDE DEF outq, D, ready
  <2>1. ASSUME NEW n \in 1 .. k, n < line
        PROVE  /\ written[n] \in R /\ written[n].line = n
               /\ written[n].what \in allowed[n] /\ n \in 1 .. L
    <3>1. n \in 1 .. w /\ written[n] = q.written[n]
      BY <1>1, <1>6, <1>9, <2>1
    <3>2. q.written[n] \in R
      <4> HIDE DEF R
      <4>1. QED
        BY <1>1, <3>1
    <3>3. q.written[n].line = n /\ n \in 1 .. L /\ q.written[n].what \in allowed[n]
      BY <1>1, <3>1 DEF QueueOK
    <3>4. QED
      BY <3>1, <3>2, <3>3
  <2>2. ASSUME NEW n \in 1 .. k, ~(n < line)
        PROVE  /\ written[n] \in R /\ written[n].line = n
               /\ written[n].what \in allowed[n] /\ n \in 1 .. L
    <3>1. n \in line .. k /\ n \in D
      BY <1>6, <2>2
    <3>2. outq[n] \in Whats /\ outq[n] \in allowed[n] /\ n \in 1 .. L /\ n \in 1 .. MaxLines
      BY <1>2, <1>3, <3>1
    <3>3. written[n] = [line |-> n, what |-> outq[n]]
      BY <1>9, <2>2
    <3>4. QED
      BY <3>2, <3>3
  <2>3. DOMAIN written = 1 .. k
    BY <1>9
  <2>4. QED
    BY <1>9, <2>1, <2>2, <2>3
<1>12. /\ D \ ready \in SUBSET (1 .. MaxLines) /\ rest \in [D \ ready -> Whats]
       /\ \A n \in D \ ready : n > k + 1 /\ n \in 1 .. L /\ rest[n] \in allowed[n]
  <2>1. ASSUME NEW n \in D \ ready PROVE n > k + 1
    <3> HIDE DEF D, ready
    <3>1. n \in 1 .. MaxLines /\ n > w /\ n \notin line .. k /\ n # k + 1
      BY <1>2, <1>3, <1>7, <1>8, <2>1
    <3>2. QED
      BY <1>1, <1>6, <3>1
  <2> HIDE DEF D, ready, outq
  <2>2. QED
    BY <1>2, <1>3, <2>1
<1> HIDE DEF written, rest, ready, D
<1>13. written \in Seq(R) /\ Len(written) = k /\ DOMAIN written = 1 .. k
  <2> HIDE DEF R
  <2>1. QED
    BY <1>6, <1>11, FunctionIsSeq
<1>14. q2 \in Queues
  BY <1>12, <1>13 DEF Queues
<1>15. q2.written = written /\ q2.outq = rest /\ DOMAIN rest = D \ ready
  BY <1>12
<1> HIDE DEF q2
<1>16. QueueOK(q2, allowed)
  BY <1>11, <1>12, <1>13, <1>14, <1>15 DEF QueueOK
<1>17. Covered(q2) = Covered(q) \union {line}
  <2>1. Covered(q2) = 1 .. k \union (D \ line .. k)
    BY <1>7, <1>13, <1>15 DEF Covered
  <2>2. 1 .. k = 1 .. w \union line .. k
    BY <1>1, <1>6
  <2>3. QED
    BY <1>1, <1>6, <2>1, <2>2 DEF Covered, D
<1>18. QED
  BY <1>10, <1>16, <1>17

(* Whatever the line's turn, output() keeps the queue in order, and the line
   is in it. *)
LEMMA OutputFacts ==
  ASSUME NEW L \in 0 .. MaxLines, NEW allowed \in [1 .. L -> SUBSET Whats],
         NEW q, QueueOK(q, allowed), NEW line \in 1 .. L, line \notin Covered(q),
         NEW what \in allowed[line]
  PROVE  /\ QueueOK(Output(q, line, what), allowed)
         /\ Covered(Output(q, line, what)) = Covered(q) \union {line}
<1>1. CASE line = Len(q.written) + 1
  BY <1>1, OutputWrites
<1>2. CASE line # Len(q.written) + 1
  BY <1>2, OutputWaits
<1>3. QED
  BY <1>1, <1>2

-----------------------------------------------------------------------------
(* Facts about a state of the invariant. *)

LEMMA LineSets ==
  ASSUME Typed
  PROVE  /\ Len(input) \in Nat /\ Len(input) \in 0 .. MaxLines /\ DOMAIN input = 1 .. Len(input)
         /\ \A n \in 1 .. Len(input) : input[n] \in Kinds
         /\ Answers \in [1 .. Len(input) -> SUBSET Whats]
         /\ Headers \in [1 .. Len(input) -> SUBSET Whats]
<1>1. Len(input) \in Nat /\ DOMAIN input = 1 .. Len(input) /\ Len(input) \in 0 .. MaxLines
  BY DEF Typed
<1>2. \A n \in 1 .. Len(input) : input[n] \in Kinds
  BY <1>1 DEF Typed
<1>3. Answers \in [1 .. Len(input) -> SUBSET Whats] /\ Headers \in [1 .. Len(input) -> SUBSET Whats]
  BY DEF Answers, Headers, Whats
<1>4. QED
  BY <1>1, <1>2, <1>3

LEMMA SlotFacts ==
  ASSUME Typed
  PROVE  /\ IsFiniteSet(Slots) /\ Cardinality(Slots) = options.concurrent_calls
         /\ Used \subseteq Slots /\ IsFiniteSet(Used) /\ Cardinality(Used) \in Nat
         /\ Cardinality(Used) <= options.concurrent_calls
         /\ \A x \in Slots : ciq[x] \in 0 .. line_count
         /\ Away \subseteq 1 .. line_count
<1>1. options.concurrent_calls \in Nat
  BY DEF Typed
<1>2. IsFiniteSet(Slots) /\ Cardinality(Slots) = options.concurrent_calls
  <2> DEFINE c == options.concurrent_calls
  <2> HIDE DEF c
  <2>1. c \in Nat
    BY <1>1 DEF c
  <2>2. IsFiniteSet(1 .. c) /\ Cardinality(1 .. c) = c
    BY <2>1, FS_Interval
  <2>3. QED
    BY <2>2 DEF Slots, c
<1>3. Used \subseteq Slots
  BY DEF Used
<1>4. IsFiniteSet(Used) /\ Cardinality(Used) <= Cardinality(Slots)
  BY <1>2, <1>3, FS_Subset
<1>5. Cardinality(Used) \in Nat
  BY <1>4, FS_CardinalityType
<1>6. \A x \in Slots : ciq[x] \in 0 .. line_count
  BY DEF Typed
<1>7. Away \subseteq 1 .. line_count
  BY <1>6 DEF Away, Used, Typed
<1>8. QED
  BY <1>2, <1>3, <1>4, <1>5, <1>6, <1>7

(* The queues do not depend on what the other variables say of the state. *)
LEMMA AllowedKept ==
  ASSUME UNCHANGED input
  PROVE  Answers' = Answers /\ Headers' = Headers
  BY DEF Answers, Headers

(* A line that is written or waits. *)
LEMMA Queued ==
  ASSUME Typed, QueuesOK, input' = input, NEW line \in 1 .. Len(input), NEW what
  PROVE  /\ line \notin Covered(oq) /\ what \in Answers[line] /\ oq' = Output(oq, line, what)
              => QueueOK(oq, Answers)' /\ Covered(oq)' = Covered(oq) \union {line}
         /\ line \notin Covered(hq) /\ what \in Headers[line] /\ hq' = Output(hq, line, what)
              => QueueOK(hq, Headers)' /\ Covered(hq)' = Covered(hq) \union {line}
<1>1. /\ Len(input) \in 0 .. MaxLines
      /\ Answers \in [1 .. Len(input) -> SUBSET Whats]
      /\ Headers \in [1 .. Len(input) -> SUBSET Whats]
  BY LineSets
<1>2. Answers' = Answers /\ Headers' = Headers
  BY AllowedKept
<1>3. ASSUME line \notin Covered(oq), what \in Answers[line], oq' = Output(oq, line, what)
      PROVE  QueueOK(oq, Answers)' /\ Covered(oq)' = Covered(oq) \union {line}
  <2> DEFINE q2 == Output(oq, line, what)
  <2>1. QueueOK(q2, Answers) /\ Covered(q2) = Covered(oq) \union {line}
    BY <1>1, <1>3, OutputFacts DEF QueuesOK
  <2> HIDE DEF q2
  <2>2. oq' = q2
    BY <1>3 DEF q2
  <2>3. QED
    BY <1>2, <2>1, <2>2 DEF QueueOK, Covered
<1>4. ASSUME line \notin Covered(hq), what \in Headers[line], hq' = Output(hq, line, what)
      PROVE  QueueOK(hq, Headers)' /\ Covered(hq)' = Covered(hq) \union {line}
  <2> DEFINE q2 == Output(hq, line, what)
  <2>1. QueueOK(q2, Headers) /\ Covered(q2) = Covered(hq) \union {line}
    BY <1>1, <1>4, OutputFacts DEF QueuesOK
  <2> HIDE DEF q2
  <2>2. hq' = q2
    BY <1>4 DEF q2
  <2>3. QED
    BY <1>2, <2>1, <2>2 DEF QueueOK, Covered
<1>5. QED
  BY <1>3, <1>4

LEMMA QueueKept ==
  ASSUME QueuesOK, input' = input
  PROVE  /\ oq' = oq => QueueOK(oq, Answers)' /\ Covered(oq)' = Covered(oq)
         /\ hq' = hq => QueueOK(hq, Headers)' /\ Covered(hq)' = Covered(hq)
<1>1. Answers' = Answers /\ Headers' = Headers
  BY AllowedKept
<1>2. QED
  BY <1>1 DEF QueuesOK, QueueOK, Covered

(* What is kept when the slots are left alone. *)
LEMMA SlotsKept ==
  ASSUME UNCHANGED <<options, ciq>>
  PROVE  Slots' = Slots /\ Used' = Used /\ Away' = Away
  BY DEF Slots, Used, Away


LEMMA LoopFacts ==
  ASSUME IInv, Loop
  PROVE  Typed /\ ReadOn /\ QueuesOK /\ SlotsUsed /\ LinesPlaced
  BY DEF IInv

-----------------------------------------------------------------------------
(* A line is read. *)

ReadsLine ==
  /\ IInv /\ pc = "read" /\ have_input /\ line_count < Len(input)
  /\ line_count' = line_count + 1
  /\ UNCHANGED <<input, options, ciq, status, active_calls, hq, have_input>>

LEMMA LineRead ==
  ASSUME ReadsLine
  PROVE  /\ Typed /\ QueuesOK /\ SlotsUsed /\ LinesPlaced
         /\ line_count + 1 \in 1 .. Len(input) /\ line_count \in Nat
         /\ line_count + 1 \notin Covered(oq) /\ line_count + 1 \notin Away
         /\ line_count + 1 \notin Covered(hq)
         /\ Covered(oq) \union Away = 1 .. line_count /\ Hand = {} /\ InHandCount = 0
         /\ (1 .. line_count') = (1 .. line_count) \union {line_count + 1}
<1>1. Loop
  BY DEF ReadsLine, Loop
<1>2. Typed /\ ReadOn /\ QueuesOK /\ SlotsUsed /\ LinesPlaced
  BY <1>1, LoopFacts DEF ReadsLine
<1>3. line_count \in Nat /\ line_count + 1 \in 1 .. Len(input)
  BY <1>2 DEF Typed, ReadsLine
<1>4. Hand = {} /\ InHandCount = 0
  BY DEF ReadsLine, Hand, InHand, InHandCount
<1>5. Covered(oq) \union Away = 1 .. line_count /\ Covered(hq) \subseteq Covered(oq)
  BY <1>2, <1>4 DEF LinesPlaced
<1>6. line_count + 1 \notin 1 .. line_count
  BY <1>3
<1>7. line_count' = line_count + 1
  BY DEF ReadsLine
<1>8. (1 .. line_count') = (1 .. line_count) \union {line_count + 1}
  BY <1>3, <1>7
<1>9. QED
  BY <1>2, <1>3, <1>4, <1>5, <1>6, <1>8

LEMMA LineReadTyped ==
  ASSUME ReadsLine, pc' \in {"read", "next", "close"},
         error_count' = error_count \/ error_count' = error_count + 1
  PROVE  Typed' /\ ReadOn' /\ (pc' # "close" => SlotsUsed')
<1> DEFINE n == line_count + 1
           e == error_count
           l == line_count
<1>1. Typed /\ SlotsUsed /\ n \in 1 .. Len(input) /\ l \in Nat
  BY LineRead
<1>2. /\ line_count' = n /\ input' = input /\ options' = options /\ ciq' = ciq
      /\ status' = status /\ active_calls' = active_calls /\ have_input' = have_input
      /\ have_input
  BY DEF ReadsLine
<1>3. ciq \in [Slots -> 0 .. n]
  <2>1. \A x \in Slots : ciq[x] \in 0 .. n
    BY <1>1, SlotFacts
  <2>2. QED
    BY <1>1, <2>1 DEF Typed
<1>4. error_count' \in 0 .. n
  <2>1. e \in 0 .. l /\ (e' = e \/ e' = e + 1)
    BY <1>1 DEF Typed
  <2>2. QED
    BY <1>1, <2>1
<1>5. Slots' = Slots /\ Used' = Used
  BY <1>2, SlotsKept
<1>6. Typed'
  BY <1>1, <1>2, <1>3, <1>4, <1>5 DEF Typed
<1>7. pc' # "close" => SlotsUsed'
  BY <1>1, <1>2, <1>5 DEF SlotsUsed
<1>8. QED
  BY <1>2, <1>6, <1>7 DEF ReadOn

(* A line that is written at once. *)
LEMMA LineWritten ==
  ASSUME ReadsLine, NEW what \in Answers[line_count + 1],
         pc' = "read", oq' = Output(oq, line_count + 1, what),
         error_count' = error_count \/ error_count' = error_count + 1
  PROVE  IInv'
<1> DEFINE n == line_count + 1
<1>1. Typed' /\ ReadOn' /\ SlotsUsed'
  BY LineReadTyped
<1>2. /\ Typed /\ QueuesOK /\ LinesPlaced /\ n \in 1 .. Len(input) /\ line_count \in Nat
      /\ n \notin Covered(oq) /\ n \notin Away
      /\ Covered(oq) \union Away = 1 .. line_count /\ InHandCount = 0
      /\ (1 .. line_count') = (1 .. line_count) \union {n}
  BY LineRead
<1>3. input' = input /\ hq' = hq /\ ciq' = ciq /\ options' = options /\ line_count' = n
  BY DEF ReadsLine
<1>4. QueueOK(oq, Answers)' /\ Covered(oq)' = Covered(oq) \union {n}
  BY <1>2, <1>3, Queued
<1>5. QueueOK(hq, Headers)' /\ Covered(hq)' = Covered(hq)
  BY <1>2, <1>3, QueueKept
<1>6. Away' = Away
  BY <1>3, SlotsKept
<1>7. Hand' = {} /\ InHandCount' = 0 /\ Loop'
  BY DEF Hand, InHand, InHandCount, Loop
<1> HIDE DEF n
<1>8. /\ Covered(oq)' \union Away' \union Hand' = 1 .. line_count'
      /\ Covered(oq)' \cap Away' = {} /\ Covered(hq)' \subseteq Covered(oq)'
      /\ \A k \in Away' \union Hand' : input'[k] = "call"
  BY <1>2, <1>3, <1>4, <1>5, <1>6, <1>7 DEF LinesPlaced
<1>9. error_count' + active_calls' + InHandCount' <= line_count'
  <2> DEFINE e == error_count
             a == active_calls
             l == line_count
             h == InHandCount
  <2>1. e \in Nat /\ a \in Nat /\ l \in Nat /\ e + a + 0 <= l
    BY <1>2 DEF LinesPlaced, Typed
  <2>2. a' = a /\ l' = l + 1 /\ (e' = e \/ e' = e + 1) /\ h' = 0
    BY <1>7 DEF ReadsLine
  <2> HIDE DEF e, a, l, h
  <2>3. e' + a' + h' <= l'
    BY <2>1, <2>2
  <2>4. QED
    BY <2>3 DEF e, a, l, h
<1>10. LinesPlaced'
  BY <1>7, <1>8, <1>9 DEF LinesPlaced
<1>11. QED
  BY <1>1, <1>4, <1>5, <1>7, <1>10 DEF IInv, QueuesOK

(* A line that is not a request ends the loop. *)
LEMMA LineRefused ==
  ASSUME ReadsLine, pc' = "close", oq' = oq, error_count' = error_count + 1,
         ~options.ignore_json_errors
  PROVE  IInv'
<1>1. Typed' /\ ReadOn'
  BY LineReadTyped
<1>2. Typed /\ QueuesOK /\ input' = input /\ hq' = hq /\ options' = options
  BY LineRead DEF ReadsLine
<1>3. QueuesOK'
  BY <1>2, QueueKept DEF QueuesOK
<1>4. AllWritten'
  <2>1. error_count \in Nat
    BY <1>2 DEF Typed
  <2>2. error_count' > 0
    BY <2>1
  <2>3. QED
    BY <1>2, <2>2 DEF AllWritten
<1>5. ~Loop'
  BY DEF Loop
<1>6. QED
  BY <1>1, <1>3, <1>4, <1>5 DEF IInv

(* The request of a call. *)
LEMMA LineToSend ==
  ASSUME ReadsLine, pc' = "next", oq' = oq, error_count' = error_count,
         input[line_count + 1] = "call"
  PROVE  IInv'
<1> DEFINE n == line_count + 1
<1>1. Typed' /\ ReadOn' /\ SlotsUsed'
  BY LineReadTyped
<1>2. /\ Typed /\ QueuesOK /\ LinesPlaced /\ n \in 1 .. Len(input) /\ line_count \in Nat
      /\ n \notin Covered(oq) /\ n \notin Away
      /\ Covered(oq) \union Away = 1 .. line_count
      /\ (1 .. line_count') = (1 .. line_count) \union {n}
  BY LineRead
<1>3. /\ input' = input /\ hq' = hq /\ ciq' = ciq /\ options' = options /\ line_count' = n
      /\ have_input'
  BY DEF ReadsLine
<1>4. /\ QueueOK(oq, Answers)' /\ Covered(oq)' = Covered(oq)
      /\ QueueOK(hq, Headers)' /\ Covered(hq)' = Covered(hq)
  BY <1>2, <1>3, QueueKept
<1>5. Away' = Away
  BY <1>3, SlotsKept
<1>6. Hand' = {n} /\ InHandCount' = 1 /\ Loop'
  BY <1>3 DEF Hand, InHand, InHandCount, Loop
<1>7. input'[n] = "call"
  BY <1>3
<1> HIDE DEF n
<1>8. /\ Covered(oq)' \union Away' \union Hand' = 1 .. line_count'
      /\ Covered(oq)' \cap Away' = {} /\ Covered(oq)' \cap Hand' = {} /\ Away' \cap Hand' = {}
      /\ Covered(hq)' \subseteq Covered(oq)'
      /\ \A k \in Away' \union Hand' : input'[k] = "call"
  BY <1>2, <1>3, <1>4, <1>5, <1>6, <1>7 DEF LinesPlaced
<1>9. error_count' + active_calls' + InHandCount' <= line_count'
  <2> DEFINE e == error_count
             a == active_calls
             l == line_count
             h == InHandCount
  <2>1. e \in Nat /\ a \in Nat /\ l \in Nat /\ e + a + 0 <= l
    BY <1>2, LineRead DEF LinesPlaced, Typed
  <2>2. a' = a /\ l' = l + 1 /\ e' = e /\ h' = 1
    BY <1>6 DEF ReadsLine
  <2> HIDE DEF e, a, l, h
  <2>3. e' + a' + h' <= l'
    BY <2>1, <2>2
  <2>4. QED
    BY <2>3 DEF e, a, l, h
<1>10. LinesPlaced'
  BY <1>6, <1>8, <1>9 DEF LinesPlaced
<1>11. QED
  BY <1>1, <1>4, <1>6, <1>10 DEF IInv, QueuesOK

(* All is read: the calls under way are waited for, or the loop ends. *)
LEMMA InputEnds ==
  ASSUME IInv, pc = "read", ~(have_input /\ line_count < Len(input)), have_input' = FALSE,
         pc' = IF active_calls > 0 THEN "next" ELSE "close",
         UNCHANGED <<line_count, oq, error_count, input, options, ciq, status, active_calls, hq>>
  PROVE  IInv'
<1>1. Loop /\ InHand = FALSE
  BY DEF Loop, InHand
<1>2. Typed /\ ReadOn /\ QueuesOK /\ SlotsUsed /\ LinesPlaced
  BY <1>1, LoopFacts
<1>3. line_count = Len(input)
  BY <1>2 DEF ReadOn, Typed
<1>4. Slots' = Slots /\ Used' = Used /\ Away' = Away
  BY SlotsKept
<1>5. Typed' /\ ReadOn'
  BY <1>2, <1>3, <1>4 DEF Typed, ReadOn
<1>6. /\ QueueOK(oq, Answers)' /\ Covered(oq)' = Covered(oq)
      /\ QueueOK(hq, Headers)' /\ Covered(hq)' = Covered(hq)
  BY <1>2, QueueKept
<1>7. CASE active_calls > 0
  <2>1. pc' = "next" /\ Loop' /\ InHand' = FALSE
    BY <1>7 DEF Loop, InHand
  <2>2. Hand' = Hand /\ InHandCount' = InHandCount
    BY <1>1, <2>1 DEF Hand, InHandCount
  <2>3. SlotsUsed'
    BY <1>2, <1>4, <2>1 DEF SlotsUsed
  <2>4. LinesPlaced'
    BY <1>2, <1>4, <1>6, <2>2 DEF LinesPlaced
  <2>5. QED
    BY <1>5, <1>6, <2>1, <2>3, <2>4 DEF IInv, QueuesOK
<1>8. CASE ~(active_calls > 0)
  <2>1. pc' = "close" /\ ~Loop'
    BY <1>8 DEF Loop
  <2>2. Cardinality(Used) = 0
    BY <1>2, <1>8 DEF SlotsUsed, Typed
  <2>3. Used = {}
    BY <1>2, <2>2, SlotFacts, FS_EmptySet
  <2>4. Covered(oq) = 1 .. Len(input)
    BY <1>1, <1>2, <1>3, <2>3 DEF LinesPlaced, Away, Hand
  <2>5. Len(oq.written) = Len(input)
    <3> DEFINE w == Len(oq.written)
               l == Len(input)
    <3>1. w \in Nat /\ l \in Nat /\ DOMAIN oq.written = 1 .. w
      BY <1>2, QueueShape, LineSets DEF QueuesOK
    <3>2. \A n \in DOMAIN oq.outq : n > w + 1
      BY <1>2 DEF QueuesOK, QueueOK
    <3>3. (1 .. w) \union DOMAIN oq.outq = 1 .. l
      BY <2>4, <3>1 DEF Covered
    <3> HIDE DEF w, l
    <3>4. w + 1 \notin 1 .. l
      <4>1. w + 1 \notin 1 .. w /\ w + 1 \notin DOMAIN oq.outq
        BY <3>1, <3>2
      <4>2. QED
        BY <3>3, <4>1
    <3>5. w > 0 => w \in 1 .. l
      <4>1. w > 0 => w \in 1 .. w
        BY <3>1
      <4>2. QED
        BY <3>3, <4>1
    <3>6. w = l
      BY <3>1, <3>4, <3>5
    <3>7. QED
      BY <3>6 DEF w, l
  <2>6. AllWritten'
    BY <2>5 DEF AllWritten
  <2>7. QED
    BY <1>5, <1>6, <2>1, <2>6 DEF IInv, QueuesOK
<1>9. QED
  BY <1>7, <1>8

LEMMA ReadStep == IInv /\ Read => IInv'
<1> SUFFICES ASSUME IInv, Read PROVE IInv'
  OBVIOUS
<1> DEFINE n == line_count + 1
<1>1. UNCHANGED <<input, options, ciq, status, active_calls, hq>> /\ pc = "read"
  BY DEF Read
<1>2. CASE have_input /\ line_count < Len(input)
  <2>1. ReadsLine /\ line_count' = n
    BY <1>1, <1>2 DEF Read, ReadsLine
  <2>2. n \in 1 .. Len(input) /\ Typed
    BY <2>1, LineRead
  <2>3. input[n] \in Kinds
    BY <2>2, LineSets
  <2>4. CASE input[n] = "blank"
    <3>1. oq' = Output(oq, n, "reflected") /\ pc' = "read" /\ error_count' = error_count
      BY <1>1, <1>2, <2>1, <2>4 DEF Read, Reflect
    <3>2. "reflected" \in Answers[n]
      BY <2>2, <2>4 DEF Answers
    <3>3. QED
      BY <2>1, <3>1, <3>2, LineWritten
  <2>5. CASE input[n] = "bad"
    <3>1. /\ error_count' = error_count + 1
          /\ IF options.ignore_json_errors
             THEN oq' = Output(oq, n, "message") /\ pc' = pc
             ELSE pc' = "close" /\ oq' = oq
      BY <1>2, <2>1, <2>5 DEF Read
    <3>2. "message" \in Answers[n]
      BY <2>2, <2>5 DEF Answers
    <3>3. QED
      BY <1>1, <2>1, <3>1, <3>2, LineWritten, LineRefused
  <2>6. CASE input[n] = "call"
    <3>1. pc' = "next" /\ oq' = oq /\ error_count' = error_count
      BY <1>2, <2>1, <2>6 DEF Read
    <3>2. QED
      BY <2>1, <2>6, <3>1, LineToSend
  <2>7. QED
    BY <2>3, <2>4, <2>5, <2>6 DEF Kinds
<1>3. CASE ~(have_input /\ line_count < Len(input))
  <2>1. /\ have_input' = FALSE /\ pc' = IF active_calls > 0 THEN "next" ELSE "close"
        /\ UNCHANGED <<line_count, oq, error_count>>
    BY <1>3 DEF Read
  <2>2. QED
    BY <1>1, <1>3, <2>1, InputEnds
<1>4. QED
  BY <1>2, <1>3


-----------------------------------------------------------------------------
(* A call ends and is answered. *)

LEMMA ContinueHand ==
  ASSUME Typed, pc = "next", Continue, UNCHANGED <<have_input, line_count>>
  PROVE  /\ Loop' /\ pc' # "close" /\ pc' \in {"read", "send"}
         /\ Hand' = Hand /\ InHandCount' = InHandCount
         /\ pc' = "send" => have_input /\ have_input'
<1>1. have_input \in BOOLEAN
  BY DEF Typed
<1>2. InHand' = InHand
  BY <1>1 DEF Continue, InHand
<1>3. QED
  BY <1>2 DEF Continue, Loop, Hand, InHandCount

CallEnds(x) == IInv /\ pc = "next" /\ x \in Slots /\ status[x] \in {"ok", "error"} /\ Answered(x)

LEMMA AnswerFacts ==
  ASSUME NEW x, CallEnds(x)
  PROVE  /\ Typed /\ ReadOn /\ QueuesOK /\ SlotsUsed /\ LinesPlaced /\ x \in Used
         /\ ciq[x] \in 1 .. line_count /\ ciq[x] \in 1 .. Len(input) /\ input[ciq[x]] = "call"
         /\ ciq[x] \in Away /\ ciq[x] \notin Covered(oq) /\ ciq[x] \notin Covered(hq)
         /\ active_calls \in Nat \ {0}
         /\ UNCHANGED <<input, options, line_count, have_input>>
         /\ active_calls' = active_calls - 1 /\ status' = [status EXCEPT ![x] = "none"]
<1>1. Loop
  BY DEF CallEnds, Loop
<1>2. Typed /\ ReadOn /\ QueuesOK /\ SlotsUsed /\ LinesPlaced
  BY <1>1, LoopFacts DEF CallEnds
<1>3. x \in Slots /\ status[x] # "none"
  BY DEF CallEnds
<1>4. x \in Used
  BY <1>2, <1>3 DEF SlotsUsed
<1>5. ciq[x] \in Away
  BY <1>4 DEF Away
<1>6. ciq[x] \in 1 .. line_count
  BY <1>2, <1>5, SlotFacts
<1>7. line_count \in 0 .. Len(input) /\ Len(input) \in Nat
  BY <1>2 DEF Typed
<1>8. ciq[x] \notin Covered(oq) /\ ciq[x] \notin Covered(hq) /\ input[ciq[x]] = "call"
  BY <1>2, <1>5 DEF LinesPlaced
<1>9. active_calls \in Nat \ {0}
  <2>1. active_calls = Cardinality(Used) /\ IsFiniteSet(Used) /\ active_calls \in Nat
    BY <1>2, SlotFacts DEF SlotsUsed
  <2>2. active_calls # 0
    BY <1>4, <2>1, FS_EmptySet
  <2>3. QED
    BY <2>1, <2>2
<1>10. /\ UNCHANGED <<input, options, line_count, have_input>>
       /\ active_calls' = active_calls - 1 /\ status' = [status EXCEPT ![x] = "none"]
  BY DEF CallEnds, Answered
<1>11. ciq[x] \in 1 .. Len(input)
  BY <1>6, <1>7
<1>12. QED
  BY <1>2, <1>4, <1>5, <1>6, <1>8, <1>9, <1>10, <1>11

LEMMA HeadersQueued ==
  ASSUME NEW x, CallEnds(x)
  PROVE  QueueOK(hq, Headers)' /\ Covered(hq)' \subseteq Covered(hq) \union {ciq[x]}
<1> DEFINE l == ciq[x]
<1>1. /\ Typed /\ QueuesOK /\ l \in 1 .. Len(input) /\ input[l] = "call" /\ l \notin Covered(hq)
      /\ input' = input
  BY AnswerFacts
<1>2. hq' = IF options.use_hq THEN Output(hq, l, "headers") ELSE hq
  BY DEF CallEnds, Answered
<1>3. "headers" \in Headers[l]
  BY <1>1 DEF Headers
<1> DEFINE what == "headers"
<1>4. CASE options.use_hq
  <2>1. hq' = Output(hq, l, what) /\ what \in Headers[l]
    BY <1>2, <1>3, <1>4
  <2> HIDE DEF l, what
  <2>2. QueueOK(hq, Headers)' /\ Covered(hq)' \subseteq Covered(hq) \union {l}
    BY <1>1, <2>1, Queued
  <2>3. QED
    BY <2>2 DEF l
<1> HIDE DEF l
<1>5. CASE ~options.use_hq
  BY <1>1, <1>2, <1>5, QueueKept
<1>6. QED
  BY <1>4, <1>5 DEF l

(* The error of the call ends the loop. *)
LEMMA AnswerFatal ==
  ASSUME NEW x, CallEnds(x), status[x] = "error", ~options.ignore_grpc_errors
  PROVE  IInv'
<1>1. /\ Typed /\ ReadOn /\ QueuesOK /\ LinesPlaced /\ active_calls \in Nat \ {0}
      /\ UNCHANGED <<input, options, line_count, have_input>>
      /\ active_calls' = active_calls - 1 /\ status' = [status EXCEPT ![x] = "none"]
  BY AnswerFacts
<1>2. pc' = "close" /\ oq' = oq /\ ciq' = ciq /\ error_count' = error_count + 1
  BY DEF CallEnds, Answered
<1>3. QueuesOK'
  BY <1>1, <1>2, QueueKept, HeadersQueued DEF QueuesOK
<1>4. error_count' \in 0 .. line_count /\ error_count' > 0
  <2> DEFINE e == error_count
             a == active_calls
             l == line_count
             h == InHandCount
  <2>1. e \in Nat /\ a \in Nat /\ a # 0 /\ l \in Nat /\ h \in Nat /\ e + a + h <= l
    BY <1>1 DEF LinesPlaced, Typed, InHandCount
  <2>2. e' = e + 1
    BY <1>2
  <2> HIDE DEF e, a, l, h
  <2>3. e' \in 0 .. l /\ e' > 0
    BY <2>1, <2>2
  <2>4. QED
    BY <2>3 DEF e, l
<1>5. Slots' = Slots
  BY <1>1 DEF Slots
<1>6. active_calls' \in 0 .. options.concurrent_calls
  BY <1>1 DEF Typed
<1>7. status' \in [Slots -> {"none", "out", "ok", "error"}]
  BY <1>1 DEF Typed
<1>8. Typed' /\ ReadOn'
  BY <1>1, <1>2, <1>4, <1>5, <1>6, <1>7 DEF Typed, ReadOn
<1>9. AllWritten' /\ ~Loop'
  BY <1>1, <1>2, <1>4 DEF AllWritten, Loop
<1>10. QED
  BY <1>3, <1>8, <1>9 DEF IInv

(* The slot is free, and the line is in the output. *)
LEMMA SlotFreed ==
  ASSUME NEW x, CallEnds(x), ciq' = FreeSlot(x), Continue
  PROVE  /\ Used' = Used \ {x} /\ Away' = Away \ {ciq[x]} /\ SlotsUsed'
         /\ ciq' \in [Slots' -> 0 .. line_count]
<1>1. /\ Typed /\ SlotsUsed /\ x \in Used /\ x \in Slots
      /\ UNCHANGED <<input, options, line_count, have_input>>
      /\ active_calls' = active_calls - 1 /\ status' = [status EXCEPT ![x] = "none"]
  BY AnswerFacts DEF CallEnds
<1>2. ciq' = [ciq EXCEPT ![x] = 0] /\ Slots' = Slots
  BY <1>1 DEF FreeSlot, Slots
<1>3. ciq' \in [Slots -> 0 .. line_count]
  BY <1>1, <1>2 DEF Typed
<1>4. ciq'[x] = 0 /\ \A y \in Slots \ {x} : ciq'[y] = ciq[y]
  BY <1>1, <1>2 DEF Typed
<1>5. Used' = Used \ {x}
  BY <1>2, <1>4 DEF Used
<1>6. \A y \in Used \ {x} : ciq'[y] = ciq[y] /\ ciq[y] # ciq[x]
  BY <1>1, <1>4 DEF SlotsUsed, Used
<1>7. Away' = Away \ {ciq[x]}
  BY <1>5, <1>6 DEF Away
<1>8. active_calls' = Cardinality(Used')
  <2>1. Cardinality(Used \ {x}) = Cardinality(Used) - 1
    BY <1>1, SlotFacts, FS_RemoveElement
  <2>2. QED
    BY <1>1, <1>5, <2>1 DEF SlotsUsed
<1>9. \A y \in Slots' : y \in Used' <=> status'[y] # "none"
  <2>1. status'[x] = "none" /\ \A y \in Slots \ {x} : status'[y] = status[y]
    BY <1>1 DEF Typed
  <2>2. QED
    BY <1>1, <1>2, <1>5, <2>1 DEF SlotsUsed
<1>10. \A y, z \in Used' : ciq'[y] = ciq'[z] => y = z
  BY <1>1, <1>5, <1>6 DEF SlotsUsed
<1>11. pc' = "send" => Used' # Slots' /\ have_input'
  BY <1>1, <1>2, <1>5, ContinueHand DEF CallEnds
<1>12. SlotsUsed'
  BY <1>8, <1>9, <1>10, <1>11 DEF SlotsUsed
<1>13. QED
  BY <1>2, <1>3, <1>5, <1>7, <1>12

LEMMA AnswerWritten ==
  ASSUME NEW x, CallEnds(x), NEW what \in {"answer", "error"},
         oq' = Output(oq, ciq[x], what), ciq' = FreeSlot(x), Continue,
         error_count' = error_count \/ error_count' = error_count + 1
  PROVE  IInv'
<1> DEFINE n == ciq[x]
<1>1. /\ Typed /\ ReadOn /\ QueuesOK /\ SlotsUsed /\ LinesPlaced /\ active_calls \in Nat \ {0}
      /\ n \in 1 .. line_count /\ n \in 1 .. Len(input) /\ input[n] = "call"
      /\ n \in Away /\ n \notin Covered(oq) /\ n \notin Covered(hq)
      /\ UNCHANGED <<input, options, line_count, have_input>>
      /\ active_calls' = active_calls - 1 /\ status' = [status EXCEPT ![x] = "none"]
  BY AnswerFacts
<1>2. what \in Answers[n]
  BY <1>1 DEF Answers
<1>3. QueueOK(oq, Answers)' /\ Covered(oq)' = Covered(oq) \union {n}
  BY <1>1, <1>2, Queued
<1>4. QueueOK(hq, Headers)' /\ Covered(hq)' \subseteq Covered(hq) \union {n}
  BY HeadersQueued
<1>5. /\ Away' = Away \ {n} /\ SlotsUsed' /\ ciq' \in [Slots' -> 0 .. line_count]
  BY SlotFreed
<1>6. Loop' /\ pc' \in {"read", "send"} /\ Hand' = Hand /\ InHandCount' = InHandCount
  BY <1>1, ContinueHand DEF CallEnds
<1> HIDE DEF n
<1>7. /\ Covered(oq)' \union Away' \union Hand' = 1 .. line_count'
      /\ Covered(oq)' \cap Away' = {} /\ Covered(oq)' \cap Hand' = {} /\ Away' \cap Hand' = {}
      /\ Covered(hq)' \subseteq Covered(oq)'
      /\ \A k \in Away' \union Hand' : input'[k] = "call"
  BY <1>1, <1>3, <1>4, <1>5, <1>6 DEF LinesPlaced
<1>8. error_count' + active_calls' + InHandCount' <= line_count' /\ error_count' \in 0 .. line_count
  <2> DEFINE e == error_count
             a == active_calls
             l == line_count
             h == InHandCount
  <2>1. e \in Nat /\ a \in Nat /\ a # 0 /\ l \in Nat /\ h \in Nat /\ e + a + h <= l
    BY <1>1 DEF LinesPlaced, Typed, InHandCount
  <2>2. a' = a - 1 /\ l' = l /\ (e' = e \/ e' = e + 1) /\ h' = h
    BY <1>1, <1>6
  <2> HIDE DEF e, a, l, h
  <2>3. e' + a' + h' <= l' /\ e' \in 0 .. l
    BY <2>1, <2>2
  <2>4. QED
    BY <2>3 DEF e, a, l, h
<1>9. LinesPlaced'
  BY <1>7, <1>8 DEF LinesPlaced
<1>10. Typed' /\ ReadOn'
  <2>1. active_calls' \in 0 .. options.concurrent_calls
    BY <1>1 DEF Typed
  <2>2. Slots' = Slots /\ status' \in [Slots -> {"none", "out", "ok", "error"}]
    BY <1>1 DEF Typed, Slots
  <2>3. QED
    BY <1>1, <1>5, <1>6, <1>8, <2>1, <2>2 DEF Typed, ReadOn
<1>11. QED
  BY <1>3, <1>4, <1>5, <1>6, <1>9, <1>10 DEF IInv, QueuesOK

LEMMA WaitStep == IInv /\ WaitForCall => IInv'
<1> SUFFICES ASSUME IInv, WaitForCall PROVE IInv'
  OBVIOUS
<1>1. pc = "next"
  BY DEF WaitForCall
<1>2. CASE MustWait
  <2>1. PICK x \in Slots : status[x] \in {"ok", "error"} /\ Answered(x)
    BY <1>2 DEF WaitForCall
  <2>2. CallEnds(x)
    BY <1>1, <2>1 DEF CallEnds
  <2> DEFINE failed == status[x] = "error"
  <2>3. CASE failed /\ ~options.ignore_grpc_errors
    BY <2>2, <2>3, AnswerFatal
  <2>4. CASE ~(failed /\ ~options.ignore_grpc_errors)
    <3> DEFINE what == IF failed THEN "error" ELSE "answer"
    <3>1. /\ oq' = Output(oq, ciq[x], what) /\ ciq' = FreeSlot(x) /\ Continue
          /\ error_count' = IF failed THEN error_count + 1 ELSE error_count
      BY <2>1, <2>4 DEF Answered
    <3>2. what \in {"answer", "error"}
      OBVIOUS
    <3>3. error_count' = error_count \/ error_count' = error_count + 1
      BY <3>1
    <3> HIDE DEF what
    <3>4. QED
      BY <2>2, <3>1, <3>2, <3>3, AnswerWritten
  <2>5. QED
    BY <2>3, <2>4
<1>3. CASE ~MustWait
  <2>1. Typed /\ ReadOn /\ QueuesOK /\ SlotsUsed /\ LinesPlaced
    BY <1>1, LoopFacts DEF Loop
  <2>2. /\ Continue
        /\ UNCHANGED <<input, options, line_count, have_input, ciq, status,
                       active_calls, error_count, oq, hq>>
    BY <1>3 DEF WaitForCall
  <2>3. /\ Loop' /\ pc' \in {"read", "send"} /\ Hand' = Hand /\ InHandCount' = InHandCount
        /\ pc' = "send" => have_input'
    BY <1>1, <2>1, <2>2, ContinueHand
  <2>4. Slots' = Slots /\ Used' = Used /\ Away' = Away
    BY <2>2, SlotsKept
  <2>5. /\ QueueOK(oq, Answers)' /\ Covered(oq)' = Covered(oq)
        /\ QueueOK(hq, Headers)' /\ Covered(hq)' = Covered(hq)
    BY <2>1, <2>2, QueueKept
  <2>6. Used # Slots
    <3>1. active_calls # options.concurrent_calls
      BY <1>3 DEF MustWait
    <3>2. QED
      BY <2>1, <3>1, SlotFacts DEF SlotsUsed
  <2>7. Typed' /\ ReadOn'
    BY <2>1, <2>2, <2>3, <2>4 DEF Typed, ReadOn
  <2>8. SlotsUsed'
    BY <2>1, <2>2, <2>3, <2>4, <2>6 DEF SlotsUsed
  <2>9. LinesPlaced'
    BY <2>1, <2>2, <2>3, <2>4, <2>5 DEF LinesPlaced
  <2>10. QED
    BY <2>3, <2>5, <2>7, <2>8, <2>9 DEF IInv, QueuesOK
<1>4. QED
  BY <1>2, <1>3

-----------------------------------------------------------------------------
(* The other steps. *)

LEMMA SendStep == IInv /\ Send => IInv'
<1> SUFFICES ASSUME IInv, Send PROVE IInv'
  OBVIOUS
<1> DEFINE n == line_count
<1>1. /\ pc = "send" /\ pc' = "read" /\ active_calls' = active_calls + 1
      /\ UNCHANGED <<input, options, line_count, have_input, error_count, oq, hq>>
  BY DEF Send
<1>2. PICK x \in Slots : /\ ciq[x] = 0 /\ ciq' = [ciq EXCEPT ![x] = n]
                         /\ status' = [status EXCEPT ![x] = "out"]
  BY DEF Send
<1>3. Typed /\ ReadOn /\ QueuesOK /\ SlotsUsed /\ LinesPlaced
  BY <1>1, LoopFacts DEF Loop
<1>4. Hand = {n} /\ InHandCount = 1 /\ Hand' = {} /\ InHandCount' = 0 /\ Loop'
  BY <1>1 DEF Hand, InHandCount, InHand, Loop
<1>5. n \in 1 .. n /\ n # 0 /\ n \notin Away /\ input[n] = "call"
  BY <1>3, <1>4 DEF LinesPlaced, Typed
<1>6. Slots' = Slots
  BY <1>1 DEF Slots
<1>7. ciq' \in [Slots -> 0 .. n] /\ status' \in [Slots -> {"none", "out", "ok", "error"}]
  BY <1>2, <1>3, <1>5 DEF Typed
<1>8. ciq'[x] = n /\ \A y \in Slots \ {x} : ciq'[y] = ciq[y]
  BY <1>2, <1>3 DEF Typed
<1>9. Used' = Used \union {x} /\ x \notin Used
  BY <1>2, <1>5, <1>6, <1>8 DEF Used
<1>10. \A y \in Used : ciq'[y] = ciq[y] /\ ciq[y] \in Away /\ ciq[y] # n
  BY <1>5, <1>8, <1>9 DEF Used, Away
<1>11. Away' = Away \union {n}
  BY <1>8, <1>9, <1>10 DEF Away
<1>12. active_calls' = Cardinality(Used') /\ active_calls' \in 0 .. options.concurrent_calls
  <2>1. Cardinality(Used \union {x}) = Cardinality(Used) + 1 /\ IsFiniteSet(Used \union {x})
    BY <1>3, <1>9, SlotFacts, FS_AddElement
  <2>2. active_calls' = Cardinality(Used')
    BY <1>1, <1>3, <1>9, <2>1 DEF SlotsUsed
  <2>3. Used' \subseteq Slots
    BY <1>6 DEF Used
  <2>4. Cardinality(Used') <= options.concurrent_calls /\ options.concurrent_calls \in Nat
    BY <1>3, <2>3, SlotFacts, FS_Subset DEF Typed
  <2>5. active_calls' \in Nat
    BY <1>1, <1>3 DEF Typed
  <2>6. QED
    BY <2>2, <2>4, <2>5
<1>13. SlotsUsed'
  <2>1. status'[x] = "out" /\ \A y \in Slots \ {x} : status'[y] = status[y]
    BY <1>2, <1>3 DEF Typed
  <2>2. \A y \in Slots' : y \in Used' <=> status'[y] # "none"
    BY <1>3, <1>6, <1>9, <2>1 DEF SlotsUsed
  <2>3. \A y, z \in Used' : ciq'[y] = ciq'[z] => y = z
    BY <1>3, <1>8, <1>9, <1>10 DEF SlotsUsed
  <2>4. QED
    BY <1>1, <1>12, <2>2, <2>3 DEF SlotsUsed
<1>14. Typed' /\ ReadOn'
  BY <1>1, <1>3, <1>6, <1>7, <1>12 DEF Typed, ReadOn
<1>15. /\ QueueOK(oq, Answers)' /\ Covered(oq)' = Covered(oq)
       /\ QueueOK(hq, Headers)' /\ Covered(hq)' = Covered(hq)
  BY <1>1, <1>3, QueueKept
<1>16. error_count' + active_calls' + InHandCount' <= line_count'
  <2> DEFINE e == error_count
             a == active_calls
             h == InHandCount
  <2>1. e \in Nat /\ a \in Nat /\ n \in Nat /\ e + a + h <= n
    BY <1>3 DEF LinesPlaced, Typed
  <2>2. a' = a + 1 /\ n' = n /\ e' = e /\ h' = 0 /\ h = 1
    BY <1>1, <1>4
  <2> HIDE DEF e, a, h, n
  <2>3. e' + a' + h' <= n'
    BY <2>1, <2>2
  <2>4. QED
    BY <2>3 DEF e, a, n, h
<1>17. LinesPlaced'
  <2> HIDE DEF n
  <2>1. /\ Covered(oq)' \union Away' \union Hand' = 1 .. line_count'
        /\ Covered(oq)' \cap Away' = {} /\ Covered(oq)' \cap Hand' = {} /\ Away' \cap Hand' = {}
        /\ Covered(hq)' \subseteq Covered(oq)'
        /\ \A k \in Away' \union Hand' : input'[k] = "call"
    BY <1>1, <1>3, <1>4, <1>5, <1>11, <1>15 DEF LinesPlaced
  <2>2. QED
    BY <1>16, <2>1 DEF LinesPlaced
<1>18. QED
  BY <1>4, <1>13, <1>14, <1>15, <1>17 DEF IInv, QueuesOK

LEMMA CloseStep == IInv /\ Close => IInv'
<1> SUFFICES ASSUME IInv, Close PROVE IInv'
  OBVIOUS
<1>1. /\ pc = "close" /\ pc' = "done" /\ status' = [x \in Slots |-> "none"]
      /\ UNCHANGED <<input, options, line_count, have_input, ciq, active_calls,
                     error_count, oq, hq>>
  BY DEF Close
<1>2. Typed /\ ReadOn /\ QueuesOK /\ AllWritten /\ ~Loop'
  BY <1>1 DEF IInv, Loop
<1>3. Slots' = Slots
  BY <1>1 DEF Slots
<1>4. Typed' /\ ReadOn' /\ AllWritten'
  BY <1>1, <1>2, <1>3 DEF Typed, ReadOn, AllWritten
<1>5. QueuesOK'
  BY <1>1, <1>2, QueueKept DEF QueuesOK
<1>6. QED
  BY <1>2, <1>4, <1>5 DEF IInv

LEMMA CompleteStep ==
  ASSUME IInv, NEW x, Complete(x)
  PROVE  IInv'
<1>1. /\ x \in Slots /\ status[x] = "out"
      /\ UNCHANGED <<input, options, pc, line_count, have_input, ciq, active_calls,
                     error_count, oq, hq>>
  BY DEF Complete
<1>2. PICK s \in {"ok", "error"} : status' = [status EXCEPT ![x] = s]
  BY DEF Complete
<1>3. Typed /\ ReadOn /\ QueuesOK
  BY DEF IInv
<1>4. Slots' = Slots /\ Used' = Used /\ Away' = Away
  BY <1>1, SlotsKept
<1>5. Typed' /\ ReadOn'
  <2>1. status' \in [Slots -> {"none", "out", "ok", "error"}]
    BY <1>2, <1>3 DEF Typed
  <2>2. QED
    BY <1>1, <1>3, <1>4, <2>1 DEF Typed, ReadOn
<1>6. /\ QueueOK(oq, Answers)' /\ Covered(oq)' = Covered(oq)
      /\ QueueOK(hq, Headers)' /\ Covered(hq)' = Covered(hq)
  BY <1>1, <1>3, QueueKept
<1>7. Loop' = Loop /\ Hand' = Hand /\ InHandCount' = InHandCount
  BY <1>1 DEF Loop, Hand, InHandCount, InHand
<1>8. ASSUME Loop PROVE SlotsUsed' /\ LinesPlaced'
  <2>1. SlotsUsed /\ LinesPlaced
    BY <1>8 DEF IInv
  <2>2. \A y \in Slots : status'[y] # "none" <=> status[y] # "none"
    BY <1>1, <1>2, <1>3 DEF Typed
  <2>3. SlotsUsed'
    BY <1>1, <1>4, <2>1, <2>2 DEF SlotsUsed
  <2>4. LinesPlaced'
    BY <1>1, <1>4, <1>6, <1>7, <2>1 DEF LinesPlaced
  <2>5. QED
    BY <2>3, <2>4
<1>9. ASSUME ~Loop PROVE AllWritten'
  BY <1>1, <1>9 DEF IInv, AllWritten
<1>10. QED
  BY <1>5, <1>6, <1>7, <1>8, <1>9 DEF IInv, QueuesOK


-----------------------------------------------------------------------------
(* The invariant holds, and what follows from it. *)

LEMMA InitIInv == Init => IInv
<1> SUFFICES ASSUME Init PROVE IInv
  OBVIOUS
<1>1. PICK k \in 0 .. MaxLines : input \in [1 .. k -> Kinds]
  BY DEF Init
<1>2. input \in Seq(Kinds) /\ Len(input) = k
  BY <1>1, FunctionIsSeq
<1>3. /\ pc = "read" /\ line_count = 0 /\ have_input = TRUE
      /\ ciq = [x \in Slots |-> 0] /\ status = [x \in Slots |-> "none"]
      /\ active_calls = 0 /\ error_count = 0
      /\ oq = [written |-> <<>>, outq |-> <<>>] /\ hq = [written |-> <<>>, outq |-> <<>>]
      /\ options \in [concurrent_calls : 1 .. MaxStreams, ignore_json_errors : BOOLEAN,
                      ignore_grpc_errors : BOOLEAN, use_hq : BOOLEAN]
  BY DEF Init, EmptyQueue
<1>4. Typed
  BY <1>1, <1>2, <1>3 DEF Typed
<1> DEFINE empty == <<>>
           q     == [written |-> empty, outq |-> empty]
<1>5. /\ empty \in Seq([line : 1 .. MaxLines, what : Whats]) /\ DOMAIN empty = {}
      /\ empty \in [{} -> Whats]
  OBVIOUS
<1>6. oq = q /\ hq = q
  BY <1>3
<1> HIDE DEF empty
<1>7. q \in Queues
  <2>1. empty \in UNION {[M -> Whats] : M \in SUBSET (1 .. MaxLines)}
    BY <1>5
  <2>2. QED
    BY <1>5, <2>1 DEF Queues
<1>8. QueuesOK /\ Covered(oq) = {} /\ Covered(hq) = {}
  BY <1>5, <1>6, <1>7 DEF QueuesOK, QueueOK, Covered
<1>9. Used = {} /\ Away = {}
  BY <1>3 DEF Used, Away
<1>10. SlotsUsed
  BY <1>3, <1>9, FS_EmptySet DEF SlotsUsed
<1>11. LinesPlaced
  <2>1. InHand = FALSE
    BY <1>3 DEF InHand
  <2>2. QED
    BY <1>3, <1>8, <1>9, <2>1 DEF LinesPlaced, Hand, InHandCount
<1>12. QED
  BY <1>3, <1>4, <1>8, <1>10, <1>11 DEF IInv, ReadOn, Loop

LEMMA NextIInv == IInv /\ [Next]_vars => IInv'
<1> SUFFICES ASSUME IInv, [Next]_vars PROVE IInv'
  OBVIOUS
<1>1. CASE Read
  BY <1>1, ReadStep
<1>2. CASE WaitForCall
  BY <1>2, WaitStep
<1>3. CASE Send
  BY <1>3, SendStep
<1>4. CASE Close
  BY <1>4, CloseStep
<1>5. ASSUME NEW x \in 1 .. MaxStreams, Complete(x) PROVE IInv'
  BY <1>5, CompleteStep
<1>6. CASE UNCHANGED vars
  <2>1. Typed' /\ ReadOn'
    BY <1>6 DEF vars, IInv, Typed, ReadOn, Slots
  <2>2. QueuesOK'
    BY <1>6, QueueKept DEF vars, IInv, QueuesOK
  <2>3. Slots' = Slots /\ Used' = Used /\ Away' = Away
    BY <1>6, SlotsKept DEF vars
  <2>4. Covered(oq)' = Covered(oq) /\ Covered(hq)' = Covered(hq)
    BY <1>6 DEF vars, Covered
  <2>5. Loop' = Loop /\ Hand' = Hand /\ InHandCount' = InHandCount
    BY <1>6 DEF vars, Loop, Hand, InHandCount, InHand
  <2>6. Loop => SlotsUsed' /\ LinesPlaced'
    BY <1>6, <2>3, <2>4, <2>5 DEF vars, IInv, SlotsUsed, LinesPlaced
  <2>7. ~Loop => AllWritten'
    BY <1>6 DEF vars, IInv, AllWritten
  <2>8. QED
    BY <2>1, <2>2, <2>5, <2>6, <2>7 DEF IInv
<1>7. QED
  BY <1>1, <1>2, <1>3, <1>4, <1>5, <1>6 DEF Next, Main

(* The inductive invariant: the queues are in order, every line that was read
   is in one place, and the slots in use are those of the calls under way. *)
THEOREM IInvHolds == Spec => []IInv
<1>1. Init => IInv
  BY InitIInv
<1>2. IInv /\ [Next]_vars => IInv'
  BY NextIInv
<1>3. QED
  BY <1>1, <1>2, PTL DEF Spec

LEMMA SlotsInIInv == IInv => SlotsAgree
<1> SUFFICES ASSUME IInv PROVE SlotsAgree
  OBVIOUS
<1>1. TypeOK
  BY DEF IInv, Typed, QueuesOK, QueueOK, TypeOK
<1>2. Loop => SlotsUsed
  BY DEF IInv
<1>3. QED
  BY <1>1, <1>2 DEF SlotsAgree, Loop, SlotsUsed

(* The client's slots and its count of calls agree while it reads, sends and
   waits, and a line that is about to be sent finds a free slot. *)
THEOREM SlotsAgreeHolds == Spec => []SlotsAgree
<1>1. QED
  BY IInvHolds, SlotsInIInv, PTL

LEMMA OrderInIInv == IInv => InOrder
<1> SUFFICES ASSUME IInv PROVE InOrder
  OBVIOUS
<1>1. Typed /\ QueueOK(oq, Answers) /\ QueueOK(hq, Headers)
  BY DEF IInv, QueuesOK
<1>2. DOMAIN Answers = 1 .. Len(input) /\ DOMAIN Headers = 1 .. Len(input)
  BY <1>1, LineSets
<1>3. ASSUME NEW n \in DOMAIN oq.written
      PROVE  /\ oq.written[n].line = n
             /\ oq.written[n].what \in CASE input[n] = "blank" -> {"reflected"}
                                         [] input[n] = "bad"   -> {"message"}
                                         [] OTHER              -> {"answer", "error"}
  <2>1. n \in 1 .. Len(input) /\ oq.written[n].line = n /\ oq.written[n].what \in Answers[n]
    BY <1>1, <1>2, <1>3 DEF QueueOK
  <2>2. Answers[n] = IF input[n] = "blank" THEN {"reflected"}
                     ELSE IF input[n] = "bad" THEN {"message"} ELSE {"answer", "error"}
    BY <2>1 DEF Answers
  <2>3. QED
    BY <2>1, <2>2
<1>4. ASSUME NEW n \in DOMAIN hq.written PROVE hq.written[n].line = n /\ input[n] = "call"
  <2>1. n \in 1 .. Len(input) /\ hq.written[n].line = n /\ hq.written[n].what \in Headers[n]
    BY <1>1, <1>2, <1>4 DEF QueueOK
  <2>2. QED
    BY <2>1 DEF Headers
<1>5. QED
  BY <1>3, <1>4 DEF InOrder

(* Whatever the order of the answers, the lines are written in the order they
   were read, without a gap, each with what its kind is to get. *)
THEOREM InOrderHolds == Spec => []InOrder
<1>1. QED
  BY IInvHolds, OrderInIInv, PTL

LEMMA LostInIInv == IInv => NothingLost
<1> SUFFICES ASSUME IInv PROVE NothingLost
  OBVIOUS
<1> DEFINE written == DOMAIN oq.written
           waiting == DOMAIN oq.outq
           away    == {ciq[x] : x \in Used}
           inhand  == IF InHand THEN {line_count} ELSE {}
           lines   == 1 .. line_count
<1>1. ASSUME Loop
      PROVE  /\ written \union waiting \union away \union inhand = lines
             /\ Cardinality(written) + Cardinality(waiting) + Cardinality(away)
                  + Cardinality(inhand) = line_count
  <2>1. Typed /\ QueueOK(oq, Answers) /\ LinesPlaced
    BY <1>1, LoopFacts DEF QueuesOK
  <2>2. /\ (written \union waiting) \union away \union inhand = lines
        /\ (written \union waiting) \cap away = {} /\ (written \union waiting) \cap inhand = {}
        /\ away \cap inhand = {}
    BY <2>1 DEF LinesPlaced, Covered, Away, Hand
  <2>3. written \cap waiting = {}
    <3>1. Len(oq.written) \in Nat /\ written = 1 .. Len(oq.written)
      BY <2>1, QueueShape
    <3>2. \A n \in waiting : n > Len(oq.written) + 1
      BY <2>1 DEF QueueOK
    <3>3. \A n \in written : ~(n > Len(oq.written) + 1)
      BY <3>1
    <3>4. QED
      BY <3>2, <3>3
  <2>4. IsFiniteSet(lines) /\ Cardinality(lines) = line_count
    <3>1. line_count \in Nat
      BY <2>1 DEF Typed
    <3>2. QED
      BY <3>1, FS_Interval
  <2> HIDE DEF written, waiting, away, inhand, lines
  <2>5. IsFiniteSet(written) /\ IsFiniteSet(waiting) /\ IsFiniteSet(away) /\ IsFiniteSet(inhand)
    <3>1. written \subseteq lines /\ waiting \subseteq lines /\ away \subseteq lines
          /\ inhand \subseteq lines
      BY <2>2
    <3>2. QED
      BY <2>4, <3>1, FS_Subset
  <2>6. /\ Cardinality(written) \in Nat /\ Cardinality(waiting) \in Nat
        /\ Cardinality(away) \in Nat /\ Cardinality(inhand) \in Nat
    BY <2>5, FS_CardinalityType
  <2>7. /\ IsFiniteSet(written \union waiting)
        /\ Cardinality(written \union waiting) = Cardinality(written) + Cardinality(waiting)
    BY <2>3, <2>5, <2>6, FS_Union, FS_EmptySet
  <2> DEFINE both == written \union waiting
             most == both \union away
  <2>8. /\ IsFiniteSet((written \union waiting) \union away)
        /\ Cardinality((written \union waiting) \union away)
             = Cardinality(written) + Cardinality(waiting) + Cardinality(away)
    <3>1. both \cap away = {} /\ IsFiniteSet(both)
      BY <2>2, <2>7
    <3>2. Cardinality(both) = Cardinality(written) + Cardinality(waiting)
      BY <2>7
    <3> HIDE DEF both
    <3>3. /\ IsFiniteSet(both \union away)
          /\ Cardinality(both \union away)
               = Cardinality(both) + Cardinality(away) - Cardinality(both \cap away)
      BY <2>5, <3>1, FS_Union
    <3>4. Cardinality(both \cap away) = 0
      BY <3>1, FS_EmptySet
    <3>5. Cardinality(both \union away)
            = Cardinality(written) + Cardinality(waiting) + Cardinality(away)
      BY <2>6, <3>2, <3>3, <3>4
    <3>6. QED
      BY <3>3, <3>5 DEF both
  <2>9. ((written \union waiting) \union away) \cap inhand = {}
    BY <2>2
  <2>10. Cardinality(lines) = Cardinality(written) + Cardinality(waiting)
                                + Cardinality(away) + Cardinality(inhand)
    <3>1. most \cap inhand = {} /\ IsFiniteSet(most) /\ lines = most \union inhand
      BY <2>2, <2>8, <2>9
    <3>2. Cardinality(most) = Cardinality(written) + Cardinality(waiting) + Cardinality(away)
      BY <2>8
    <3> HIDE DEF both, most
    <3>3. Cardinality(most \union inhand)
            = Cardinality(most) + Cardinality(inhand) - Cardinality(most \cap inhand)
      BY <2>5, <3>1, FS_Union
    <3>4. Cardinality(most \cap inhand) = 0
      BY <3>1, FS_EmptySet
    <3>5. QED
      BY <2>6, <3>1, <3>2, <3>3, <3>4
  <2>11. QED
    BY <2>2, <2>4, <2>10
<1>2. ASSUME pc = "done"
      PROVE  \/ error_count > 0 /\ ~(options.ignore_json_errors /\ options.ignore_grpc_errors)
             \/ Len(oq.written) = Len(input)
  BY <1>2 DEF IInv, Loop, AllWritten
<1>3. QED
  BY <1>1, <1>2 DEF NothingLost, Loop

(* No line is lost or written twice, and a client that meets no error, or is to
   go on after one, has written all the lines when it ends. *)
THEOREM NothingLostHolds == Spec => []NothingLost
<1>1. QED
  BY IInvHolds, LostInIInv, PTL
=============================================================================
