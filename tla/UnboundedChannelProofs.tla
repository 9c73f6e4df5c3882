----------------------- MODULE UnboundedChannelProofs -----------------------
(***************************************************************************)
(* The safety properties of UnboundedChannel, for any set of goroutines    *)
(* and any number of sends.                                                *)
(***************************************************************************)
EXTENDS UnboundedChannel, SequenceTheorems, TLAPS

(* A queue that has a first value is that value followed by the rest. *)
LEMMA HeadThenTail ==
  ASSUME NEW S, NEW s \in Seq(S), s # <<>>
  PROVE  /\ Head(s) \in S
         /\ Tail(s) \in Seq(S)
         /\ s = <<Head(s)>> \o Tail(s)
BY HeadTailProperties

(* A sequence extends the part of it that was consumed: consuming the next *)
(* value moves it from the rest to the consumed part.                      *)
LEMMA MoveHead ==
  ASSUME NEW S, NEW d \in Seq(S), NEW s \in Seq(S), s # <<>>
  PROVE  d \o s = Append(d, Head(s)) \o Tail(s)
<1>1. /\ Head(s) \in S
      /\ Tail(s) \in Seq(S)
      /\ s = <<Head(s)>> \o Tail(s)
  BY HeadThenTail
<1>2. Append(d, Head(s)) = d \o <<Head(s)>>
  BY <1>1, AppendIsConcat
<1>3. <<Head(s)>> \in Seq(S)
  BY <1>1
<1>4. QED
  BY <1>1, <1>2, <1>3, ConcatAssociative
-----------------------------------------------------------------------------
(* The part of TypeOK that is about the Boolean variables. *)
BooleansOK == ready \in BOOLEAN /\ closed \in BOOLEAN /\ told \in BOOLEAN

(* The rest of it. *)
DataOK == /\ queue \in Seq(Value)
          /\ pc \in [Proc -> PCs]
          /\ op \in [Proc -> {"none"} \cup RecvOps]
          /\ \A p \in Proc : pc[p] # "idle" => op[p] \in Waits
          /\ sent \in [Proc -> Nat]
          /\ \A p \in Proc : sent[p] <= MaxSends[p]
          /\ ret \in [Proc -> Answers]
          /\ accepted \in Seq(Value)
          /\ delivered \in Seq(Value)

(* The next value of a sender that has sends left. *)
LEMMA NextValue ==
  ASSUME NEW p \in Proc, sent \in [Proc -> Nat], sent[p] < MaxSends[p]
  PROVE  <<p, sent[p] + 1>> \in Value
<1>1. sent[p] + 1 \in 1..MaxSends[p]
  BY MaxSendsAssumption
<1>2. QED BY <1>1 DEF Value

(* Counting a send keeps the counts within their bounds. *)
LEMMA CountSend ==
  ASSUME NEW p \in Proc, sent \in [Proc -> Nat], sent[p] < MaxSends[p],
         \A q \in Proc : sent[q] <= MaxSends[q],
         sent' = [sent EXCEPT ![p] = @ + 1]
  PROVE  /\ sent' \in [Proc -> Nat]
         /\ \A q \in Proc : sent'[q] <= MaxSends[q]
<1>1. MaxSends[p] \in Nat /\ sent[p] \in Nat
  BY MaxSendsAssumption
<1>2. sent[p] + 1 <= MaxSends[p] /\ sent[p] + 1 \in Nat
  BY <1>1
<1>3. QED BY <1>2

LEMMA TypeParts == TypeOK <=> BooleansOK /\ DataOK
BY DEF TypeOK, BooleansOK, DataOK

LEMMA TypePartsNext == TypeOK' <=> BooleansOK' /\ DataOK'
BY DEF TypeOK, BooleansOK, DataOK

LEMMA BooleansNext == BooleansOK /\ [Next]_vars => BooleansOK'
<1> SUFFICES ASSUME BooleansOK, [Next]_vars PROVE BooleansOK'
  OBVIOUS
<1> USE DEF BooleansOK
<1>1. ASSUME NEW p \in Proc, NEW kind, Take(p, kind)
      PROVE  ready' \in BOOLEAN /\ told' \in BOOLEAN
  BY <1>1, Zenon DEF Take, TakeValue, TakeClosed, TakeNothing
<1>2. ASSUME NEW p \in Proc, Offer(p) PROVE BooleansOK'
  BY <1>2, Zenon DEF Offer
<1>3. ASSUME NEW p \in Proc, NEW kind, BeginReceive(p, kind) PROVE BooleansOK'
  BY <1>1, <1>3, Zenon DEF BeginReceive
<1>4. ASSUME NEW p \in Proc, Close(p) PROVE BooleansOK'
  BY <1>4, Zenon DEF Close
<1>5. ASSUME NEW p \in Proc, Step(p) PROVE BooleansOK'
  BY <1>1, <1>5, Zenon DEF Step, SelectReady, SelectDone, Timeout, TakeAgain
<1>6. CASE UNCHANGED vars
  BY <1>6, Zenon DEF vars
<1>7. QED
  BY <1>2, <1>3, <1>4, <1>5, <1>6, Zenon DEF Next, Begin

LEMMA DataNext == DataOK /\ [Next]_vars => DataOK'
<1> SUFFICES ASSUME DataOK, [Next]_vars PROVE DataOK'
  OBVIOUS
<1> USE DEF DataOK, PCs, RecvOps, Answers, Waits
<1>1. ASSUME NEW p \in Proc, NEW kind \in RecvOps, Take(p, kind)
      PROVE  /\ queue' \in Seq(Value) /\ delivered' \in Seq(Value)
             /\ pc' \in [Proc -> PCs] /\ ret' \in [Proc -> Answers]
             /\ op' \in [Proc -> {"none"} \cup RecvOps]
             /\ \A q \in Proc : pc'[q] # "idle" => op'[q] \in Waits
  <2>1. CASE queue # <<>>
    <3>1. /\ queue' = Tail(queue)
          /\ delivered' = Append(delivered, Head(queue))
          /\ Return(p, "ok")
      BY <1>1, <2>1, Zenon DEF Take, TakeValue, TakeClosed, TakeNothing
    <3>2. Head(queue) \in Value /\ Tail(queue) \in Seq(Value)
      BY <2>1, HeadThenTail
    <3>3. QED BY <3>1, <3>2 DEF Return
  <2>2. CASE queue = <<>>
    <3>1. queue' = queue /\ delivered' = delivered
      BY <1>1, <2>2, Zenon DEF Take, TakeValue, TakeClosed, TakeNothing
    <3>2. CASE kind \in Waits /\ ~closed
      <4>1. /\ pc' = [pc EXCEPT ![p] = "wait"]
            /\ op' = [op EXCEPT ![p] = kind]
            /\ ret' = [ret EXCEPT ![p] = "none"]
        BY <1>1, <2>2, <3>2, Zenon DEF Take, TakeValue, TakeClosed, TakeNothing
      <4>2. QED BY <3>1, <3>2, <4>1
    <3>3. CASE ~(kind \in Waits /\ ~closed)
      <4>1. \E a \in {"ChannelClosed", "ChannelEmpty", "ChannelTimeout"} : Return(p, a)
        BY <1>1, <2>2, <3>3 DEF Take, TakeValue, TakeClosed, TakeNothing
      <4>2. QED BY <3>1, <4>1 DEF Return
    <3>4. QED BY <3>2, <3>3
  <2>3. QED BY <2>1, <2>2
<1>2. ASSUME NEW p \in Proc, Offer(p) PROVE DataOK'
  <2>1. <<p, sent[p] + 1>> \in Value
    BY <1>2, NextValue DEF Offer
  <2>2. CASE closed
    <3>1. /\ Return(p, "ChannelClosed")
          /\ sent' = [sent EXCEPT ![p] = @ + 1]
          /\ sent[p] < MaxSends[p]
          /\ UNCHANGED <<queue, accepted, delivered>>
      BY <1>2, <2>2 DEF Offer
    <3>2. sent' \in [Proc -> Nat] /\ \A q \in Proc : sent'[q] <= MaxSends[q]
      BY <3>1, CountSend
    <3>3. QED BY <3>1, <3>2 DEF Return
  <2>3. CASE ~closed
    <3>1. /\ Return(p, "ok")
          /\ sent' = [sent EXCEPT ![p] = @ + 1]
          /\ sent[p] < MaxSends[p]
          /\ queue' = Append(queue, <<p, sent[p] + 1>>)
          /\ accepted' = Append(accepted, <<p, sent[p] + 1>>)
          /\ UNCHANGED delivered
      BY <1>2, <2>3 DEF Offer
    <3>2. sent' \in [Proc -> Nat] /\ \A q \in Proc : sent'[q] <= MaxSends[q]
      BY <3>1, CountSend
    <3>3. QED BY <2>1, <3>1, <3>2 DEF Return
  <2>4. QED BY <2>2, <2>3
<1>3. ASSUME NEW p \in Proc, NEW kind \in RecvOps, BeginReceive(p, kind)
      PROVE  DataOK'
  BY <1>1, <1>3 DEF BeginReceive
<1>4. ASSUME NEW p \in Proc, Close(p) PROVE DataOK'
  BY <1>4 DEF Close, Return
<1>5. ASSUME NEW p \in Proc, SelectReady(p) PROVE DataOK'
  BY <1>5 DEF SelectReady
<1>6. ASSUME NEW p \in Proc, SelectDone(p) PROVE DataOK'
  BY <1>6 DEF SelectDone
<1>7. ASSUME NEW p \in Proc, Timeout(p) PROVE DataOK'
  BY <1>7 DEF Timeout, Return
<1>8. ASSUME NEW p \in Proc, TakeAgain(p) PROVE DataOK'
  <2>1. op[p] \in RecvOps
    BY <1>8 DEF TakeAgain
  <2>2. QED BY <1>1, <1>8, <2>1 DEF TakeAgain
<1>9. CASE UNCHANGED vars
  BY <1>9 DEF vars
<1>10. QED
  BY <1>2, <1>3, <1>4, <1>5, <1>6, <1>7, <1>8, <1>9 DEF Next, Begin, Step

(* Every state is well typed, and only receive and receiveTimeout wait. *)
THEOREM TypeCorrect == Spec => []TypeOK
<1>1. Init => BooleansOK
  BY Zenon DEF Init, BooleansOK
<1>2. Init => DataOK
  BY MaxSendsAssumption DEF Init, DataOK, PCs, RecvOps, Answers
<1>3. Init => TypeOK
  BY <1>1, <1>2, TypeParts
<1>4. TypeOK /\ [Next]_vars => TypeOK'
  BY BooleansNext, DataNext, TypeParts, TypePartsNext
<1>5. QED BY <1>3, <1>4, PTL DEF Spec
-----------------------------------------------------------------------------
(* What a step does to the queue, the token and the histories: the three   *)
(* kinds of change the invariants below have to survive.                   *)
Queues(v) == /\ ~closed
             /\ v \in Value
             /\ queue' = Append(queue, v)
             /\ accepted' = Append(accepted, v)
             /\ UNCHANGED <<delivered, closed, told>>

HandsOut == /\ queue # <<>>
            /\ queue' = Tail(queue)
            /\ delivered' = Append(delivered, Head(queue))
            /\ UNCHANGED <<accepted, closed, told>>

KeepsQueue == /\ UNCHANGED <<queue, accepted, delivered>>
              /\ closed => closed'
              /\ told' => told \/ (closed /\ queue = <<>>)

LEMMA QueueSteps ==
  ASSUME TypeOK, [Next]_vars
  PROVE  (\E v : Queues(v)) \/ HandsOut \/ KeepsQueue
<1>1. ASSUME NEW p \in Proc, NEW kind, Take(p, kind), UNCHANGED <<accepted, closed>>
      PROVE  HandsOut \/ KeepsQueue
  BY <1>1, Zenon DEF Take, TakeValue, TakeClosed, TakeNothing, HandsOut, KeepsQueue
<1>2. ASSUME NEW p \in Proc, Offer(p) PROVE (\E v : Queues(v)) \/ KeepsQueue
  <2>1. <<p, sent[p] + 1>> \in Value
    BY <1>2, NextValue DEF Offer, TypeOK
  <2>2. CASE closed
    BY <1>2, <2>2 DEF Offer, KeepsQueue
  <2>3. CASE ~closed
    <3>1. Queues(<<p, sent[p] + 1>>)
      BY <1>2, <2>1, <2>3 DEF Offer, Queues
    <3>2. QED BY <3>1
  <2>4. QED BY <2>2, <2>3
<1>3. ASSUME NEW p \in Proc, NEW kind, BeginReceive(p, kind)
      PROVE  HandsOut \/ KeepsQueue
  <2>1. Take(p, kind) /\ UNCHANGED <<accepted, closed>>
    BY <1>3 DEF BeginReceive
  <2>2. QED BY <1>1, <2>1
<1>4. ASSUME NEW p \in Proc, Close(p) PROVE KeepsQueue
  BY <1>4, Zenon DEF Close, KeepsQueue
<1>5. ASSUME NEW p \in Proc, SelectReady(p) \/ SelectDone(p) \/ Timeout(p)
      PROVE  KeepsQueue
  <2>1. UNCHANGED <<queue, closed, accepted, delivered, told>>
    BY <1>5, SMT DEF SelectReady, SelectDone, Timeout
  <2>2. QED BY <2>1, Zenon DEF KeepsQueue
<1>6. ASSUME NEW p \in Proc, TakeAgain(p) PROVE HandsOut \/ KeepsQueue
  <2>1. Take(p, op[p]) /\ UNCHANGED <<accepted, closed>>
    BY <1>6 DEF TakeAgain
  <2>2. QED BY <1>1, <2>1
<1>7. CASE UNCHANGED vars
  BY <1>7, Zenon DEF vars, KeepsQueue
<1>8. QED
  BY <1>2, <1>3, <1>4, <1>5, <1>6, <1>7, Zenon DEF Next, Begin, Step

(* Conservation, for every number of goroutines and sends. *)
THEOREM ConservationHolds == Spec => []Conservation
<1>1. Init => Conservation
  BY DEF Init, Conservation
<1>2. TypeOK /\ Conservation /\ [Next]_vars => Conservation'
  <2> SUFFICES ASSUME TypeOK, Conservation, [Next]_vars PROVE Conservation'
    OBVIOUS
  <2>1. queue \in Seq(Value) /\ delivered \in Seq(Value)
    BY DEF TypeOK
  <2>2. ASSUME NEW v, Queues(v) PROVE Conservation'
    <3>1. v \in Value /\ accepted' = Append(delivered \o queue, v)
      BY <2>2 DEF Queues, Conservation
    <3>2. Append(delivered \o queue, v) = delivered \o Append(queue, v)
      <4>1. <<v>> \in Seq(Value) /\ delivered \o queue \in Seq(Value)
        BY <2>1, <3>1, ConcatProperties
      <4>2. /\ Append(delivered \o queue, v) = (delivered \o queue) \o <<v>>
            /\ Append(queue, v) = queue \o <<v>>
        BY <2>1, <3>1, <4>1, AppendIsConcat
      <4>3. QED BY <2>1, <4>1, <4>2, ConcatAssociative
    <3>3. queue' = Append(queue, v) /\ delivered' = delivered
      BY <2>2 DEF Queues
    <3>4. QED BY <3>1, <3>2, <3>3 DEF Conservation
  <2>3. CASE HandsOut
    BY <2>1, <2>3, MoveHead DEF HandsOut, Conservation
  <2>4. CASE KeepsQueue
    BY <2>4 DEF KeepsQueue, Conservation
  <2>5. QED BY <2>2, <2>3, <2>4, QueueSteps
<1>3. QED BY <1>1, <1>2, TypeCorrect, PTL DEF Spec

(* "Closed and drained" is final, for every number of goroutines. *)
THEOREM DrainedIsFinalHolds == Spec => []DrainedIsFinal
<1>1. Init => DrainedIsFinal
  BY DEF Init, DrainedIsFinal
<1>2. TypeOK /\ DrainedIsFinal /\ [Next]_vars => DrainedIsFinal'
  <2> SUFFICES ASSUME TypeOK, DrainedIsFinal, [Next]_vars
               PROVE  DrainedIsFinal'
    OBVIOUS
  <2>1. ASSUME NEW v, Queues(v) PROVE DrainedIsFinal'
    BY <2>1, Zenon DEF Queues, DrainedIsFinal
  <2>2. CASE HandsOut
    BY <2>2, Zenon DEF HandsOut, DrainedIsFinal
  <2>3. CASE KeepsQueue
    BY <2>3, Zenon DEF KeepsQueue, DrainedIsFinal
  <2>4. QED BY <2>1, <2>2, <2>3, QueueSteps
<1>3. QED BY <1>1, <1>2, TypeCorrect, PTL DEF Spec

(* No wake-up is lost, for every number of goroutines: the token is left   *)
(* or passed on by every step that leaves values in the queue, and the     *)
(* receiver that consumes it stays about to take until it does.            *)
THEOREM NoLostWakeupHolds == Spec => []NoLostWakeup
<1>1. Init => NoLostWakeup
  BY DEF Init, NoLostWakeup
<1>2. TypeOK /\ NoLostWakeup /\ [Next]_vars => NoLostWakeup'
  <2> SUFFICES ASSUME TypeOK, NoLostWakeup, [Next]_vars PROVE NoLostWakeup'
    OBVIOUS
  <2> USE DEF NoLostWakeup
  <2>1. ASSUME NEW p \in Proc, NEW kind, Take(p, kind) PROVE NoLostWakeup'
    <3>1. CASE queue # <<>>
      <4>1. queue' = Tail(queue) /\ (Tail(queue) # <<>> => ready')
        BY <2>1, <3>1, Zenon DEF Take, TakeValue, TakeClosed, TakeNothing
      <4>2. QED BY <4>1, Zenon
    <3>2. CASE queue = <<>>
      BY <2>1, <3>2 DEF Take, TakeValue, TakeClosed, TakeNothing
    <3>3. QED BY <3>1, <3>2
  <2>2. ASSUME NEW p \in Proc, Offer(p), pc \in [Proc -> PCs] PROVE NoLostWakeup'
    <3>1. CASE closed
      <4>1. /\ UNCHANGED <<queue, ready>>
            /\ pc[p] = "idle"
            /\ pc' = [pc EXCEPT ![p] = "idle"]
        BY <2>2, <3>1 DEF Offer, Return
      <4>2. \A q \in Proc : pc[q] = "take" => pc'[q] = "take"
        BY <2>2, <4>1
      <4>3. QED BY <4>1, <4>2, Zenon
    <3>2. CASE ~closed
      BY <2>2, <3>2 DEF Offer
    <3>3. QED BY <3>1, <3>2
  <2>3. ASSUME NEW p \in Proc, NEW kind, BeginReceive(p, kind)
        PROVE  NoLostWakeup'
    BY <2>1, <2>3 DEF BeginReceive
  <2>4. ASSUME NEW p \in Proc, Close(p) \/ Timeout(p) PROVE NoLostWakeup'
    <3>1. /\ UNCHANGED <<queue, ready>>
          /\ pc[p] # "take"
          /\ pc' = [pc EXCEPT ![p] = "idle"]
      BY <2>4 DEF Close, Timeout, Return
    <3>2. \A q \in Proc : pc[q] = "take" => pc'[q] = "take"
      BY <3>1 DEF TypeOK
    <3>3. QED BY <3>1, <3>2, Zenon
  <2>5. ASSUME NEW p \in Proc, SelectReady(p) PROVE NoLostWakeup'
    <3>1. pc'[p] = "take"
      BY <2>5 DEF SelectReady, TypeOK
    <3>2. QED BY <3>1
  <2>6. ASSUME NEW p \in Proc, SelectDone(p) PROVE NoLostWakeup'
    <3>1. pc'[p] = "take"
      BY <2>6 DEF SelectDone, TypeOK
    <3>2. QED BY <3>1
  <2>7. ASSUME NEW p \in Proc, TakeAgain(p) PROVE NoLostWakeup'
    BY <2>1, <2>7 DEF TakeAgain
  <2>8. CASE UNCHANGED vars
    BY <2>8, Zenon DEF vars
  <2>9. pc \in [Proc -> PCs]
    BY DEF TypeOK
  <2>10. QED
    BY <2>2, <2>3, <2>4, <2>5, <2>6, <2>7, <2>8, <2>9, Zenon
       DEF Next, Begin, Step
<1>3. QED BY <1>1, <1>2, TypeCorrect, PTL DEF Spec
-----------------------------------------------------------------------------
(* The value handed out is the oldest one accepted and not delivered. *)
LEMMA OldestIsHead ==
  ASSUME NEW S, NEW d \in Seq(S), NEW s \in Seq(S), s # <<>>
  PROVE  /\ Len(d \o s) - Len(d) > 0
         /\ (d \o s)[Len(d) + 1] = Head(s)
<1>1. Len(s) \in Nat \ {0} /\ Len(d) \in Nat
  BY EmptySeq, LenProperties
<1>2. Len(d \o s) = Len(d) + Len(s)
  BY ConcatProperties
<1>3. QED
  BY <1>1, <1>2, ConcatProperties

(* The unbounded channel is a ClosableQueue without late acceptance: every *)
(* step is a Put, a Get, a Close, an AnswerDrained or a stutter.           *)
THEOREM Refinement == Spec => ImplementsClosableQueue
<1>1. Init => Queue!Init
  BY DEF Init, Queue!Init
<1>2. TypeOK /\ Conservation /\ [Next]_vars => [Queue!Next]_(Queue!vars)
  <2> SUFFICES ASSUME TypeOK, Conservation, [Next]_vars
               PROVE  Queue!Next \/ UNCHANGED Queue!vars
    OBVIOUS
  <2>1. queue \in Seq(Value) /\ delivered \in Seq(Value)
    BY DEF TypeOK
  <2>2. queue = <<>> => Len(accepted) - Len(delivered) = 0
    BY <2>1, ConcatEmptySeq, LenProperties DEF Conservation
  <2>3. ASSUME NEW p \in Proc, NEW kind, Take(p, kind),
               UNCHANGED <<accepted, closed>>
        PROVE  Queue!Get \/ Queue!AnswerDrained \/ UNCHANGED Queue!vars
    <3>1. CASE queue # <<>>
      <4>1. /\ delivered' = Append(delivered, Head(queue))
            /\ UNCHANGED <<accepted, closed, told>>
        BY <2>3, <3>1, Zenon DEF Take, TakeValue, TakeClosed, TakeNothing
      <4>2. /\ Len(accepted) - Len(delivered) > 0
            /\ accepted[Len(delivered) + 1] = Head(queue)
        BY <2>1, <3>1, OldestIsHead DEF Conservation
      <4>3. QED
        BY <4>1, <4>2 DEF Queue!Get, Queue!Pending
    <3>2. CASE queue = <<>>
      <4>1. \/ closed /\ told' /\ UNCHANGED <<accepted, delivered, closed>>
            \/ UNCHANGED <<accepted, delivered, closed, told>>
        BY <2>3, <3>2, Zenon DEF Take, TakeValue, TakeClosed, TakeNothing
      <4>2. QED
        BY <2>2, <3>2, <4>1 DEF Queue!AnswerDrained, Queue!Pending, Queue!vars
    <3>3. QED BY <3>1, <3>2
  <2>4. ASSUME NEW p \in Proc, Offer(p)
        PROVE  (\E v \in Value : Queue!Put(v)) \/ UNCHANGED Queue!vars
    <3>1. <<p, sent[p] + 1>> \in Value
      BY <2>4, NextValue DEF Offer, TypeOK
    <3>2. CASE closed
      BY <2>4, <3>2 DEF Offer, Queue!vars
    <3>3. CASE ~closed
      BY <2>4, <3>1, <3>3 DEF Offer, Queue!Put, Queue!Open
    <3>4. QED BY <3>2, <3>3
  <2>5. ASSUME NEW p \in Proc, Close(p)
        PROVE  Queue!Close \/ UNCHANGED Queue!vars
    <3>1. closed' = TRUE /\ UNCHANGED <<accepted, delivered, told>>
      BY <2>5, Zenon DEF Close
    <3>2. CASE closed
      BY <3>1, <3>2 DEF Queue!vars, TypeOK
    <3>3. CASE ~closed
      BY <3>1, <3>3, Zenon DEF Queue!Close
    <3>4. QED BY <3>2, <3>3
  <2>6. ASSUME NEW p \in Proc, SelectReady(p) \/ SelectDone(p) \/ Timeout(p)
        PROVE  UNCHANGED Queue!vars
    BY <2>6, SMT DEF SelectReady, SelectDone, Timeout, Queue!vars
  <2>7. ASSUME NEW p \in Proc, NEW kind, BeginReceive(p, kind)
        PROVE  Queue!Get \/ Queue!AnswerDrained \/ UNCHANGED Queue!vars
    <3>1. Take(p, kind) /\ UNCHANGED <<accepted, closed>>
      BY <2>7 DEF BeginReceive
    <3>2. QED BY <2>3, <3>1
  <2>8. ASSUME NEW p \in Proc, TakeAgain(p)
        PROVE  Queue!Get \/ Queue!AnswerDrained \/ UNCHANGED Queue!vars
    <3>1. Take(p, op[p]) /\ UNCHANGED <<accepted, closed>>
      BY <2>8 DEF TakeAgain
    <3>2. QED BY <2>3, <3>1
  <2>9. CASE UNCHANGED vars
    BY <2>9 DEF vars, Queue!vars
  <2>10. QED
    BY <2>4, <2>5, <2>6, <2>7, <2>8, <2>9, Zenon
       DEF Next, Begin, Step, Queue!Next
<1>3. QED
  BY <1>1, <1>2, TypeCorrect, ConservationHolds, PTL
     DEF Spec, ImplementsClosableQueue, Queue!Spec
=============================================================================
