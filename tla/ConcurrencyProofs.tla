------------------------- MODULE ConcurrencyProofs --------------------------
(***************************************************************************)
(* The safety properties of BoundedChannel, for any set of goroutines, any *)
(* capacity and any number of sends; and, after them, those of Cron,       *)
(* for any number of goroutines and jobs.  The two share no name.          *)
(***************************************************************************)
EXTENDS BoundedChannel, Cron, SequenceTheorems, TLAPS

(* What is known of the calls in progress.  A process at the drain has     *)
(* seen that the channel is closed.                                        *)
Selects == {"idle"} \cup SendOps \cup AtReceive \cup {"checkDone"}

CallsInv == /\ pc \in [Proc -> Selects]
            /\ closed \in BOOLEAN
            /\ sent \in [Proc -> Nat]
            /\ \A p \in Proc : sent[p] <= MaxSends[p]
            /\ \A p \in Proc : pc[p] \in SendOps => sent[p] > 0
            /\ \A p \in Proc : pc[p] = "drain" => closed

(* A rendezvous channel never has a value in its buffer.                   *)
BufferInv == /\ cap \in Nat
             /\ data \in Seq(Value)
             /\ delivered \in Seq(Value)
             /\ accepted = delivered \o data
             /\ cap = 0 => data = <<>>

LEMMA SendingIsValue ==
  ASSUME CallsInv, NEW p \in Proc, pc[p] \in SendOps
  PROVE  Sending(p) \in Value
<1>1. sent[p] \in 1..MaxSends[p]
  BY MaxSendsAssumption DEF CallsInv
<1>2. QED BY <1>1 DEF Sending, Value
-----------------------------------------------------------------------------
(* What a step does to the buffer and the histories. *)
Puts(v) == /\ v \in Value /\ cap # 0
           /\ data' = Append(data, v)
           /\ accepted' = Append(accepted, v)
           /\ UNCHANGED <<cap, delivered, closed, told>>

HandsOver(v) == /\ v \in Value /\ cap = 0
                /\ accepted' = Append(accepted, v)
                /\ delivered' = Append(delivered, v)
                /\ UNCHANGED <<cap, data, closed, told>>

Takes == /\ data # <<>>
         /\ data' = Tail(data)
         /\ delivered' = Append(delivered, Head(data))
         /\ UNCHANGED <<cap, accepted, closed, told>>

Closes == closed' = TRUE /\ UNCHANGED <<cap, data, accepted, delivered, told>>

Answers == /\ closed /\ data = <<>> /\ told' = TRUE
           /\ UNCHANGED <<cap, data, accepted, delivered, closed>>

Keeps == UNCHANGED <<cap, data, accepted, delivered, closed, told>>

LEMMA BufferSteps ==
  ASSUME CallsInv, BufferInv, [Next]_vars
  PROVE  (\E v : Puts(v) \/ HandsOver(v)) \/ Takes \/ Closes \/ Answers \/ Keeps
<1>1. CASE UNCHANGED vars
  BY <1>1 DEF vars, Keeps
<1>2. ASSUME NEW p \in Proc, SelectSend(p), cap' = cap PROVE Puts(Sending(p))
  <2>1. Sending(p) \in Value
    BY <1>2, SendingIsValue DEF SelectSend
  <2>2. cap # 0
    BY <1>2, LenProperties DEF SelectSend, BufferInv
  <2>3. QED BY <1>2, <2>1, <2>2 DEF SelectSend, Puts
<1>3. ASSUME NEW p \in Proc, NEW q \in Proc, Rendezvous(p, q), cap' = cap
      PROVE  HandsOver(Sending(p))
  <2>1. Sending(p) \in Value
    BY <1>3, SendingIsValue DEF Rendezvous
  <2>2. QED BY <1>3, <2>1 DEF Rendezvous, HandsOver
<1>4. ASSUME NEW p \in Proc, SelectReceive(p), cap' = cap PROVE Takes
  BY <1>4 DEF SelectReceive, Takes
<1>5. ASSUME NEW p \in Proc, DrainDefault(p), cap' = cap PROVE Answers
  BY <1>5 DEF DrainDefault, Answers, CallsInv
<1>6. ASSUME NEW p \in Proc, Close(p), cap' = cap PROVE Closes
  BY <1>6 DEF Close, Closes
<1>7. ASSUME NEW p \in Proc, NEW kind, BeginSend(p, kind) \/ BeginReceive(p, kind), cap' = cap
      PROVE  Keeps
  BY <1>7, Zenon DEF BeginSend, BeginReceive, Keeps
<1>8. ASSUME NEW p \in Proc, cap' = cap,
             \/ SelectSendDone(p) \/ OfferDefault(p) \/ TryDefault(p)
             \/ SelectDone(p) \/ CheckDefault(p) \/ Timeout(p)
      PROVE  Keeps
  BY <1>8, Zenon DEF SelectSendDone, OfferDefault, TryDefault, SelectDone, CheckDefault, Timeout, Keeps
<1>9. QED
  BY <1>1, <1>2, <1>3, <1>4, <1>5, <1>6, <1>7, <1>8, Zenon DEF Next, Begin, Step
-----------------------------------------------------------------------------
(* A process that goes on, or returns, changes nobody else's place.        *)
LEMMA CallsNext == CallsInv /\ [Next]_vars => CallsInv'
<1> SUFFICES ASSUME CallsInv, [Next]_vars PROVE CallsInv'
  OBVIOUS
<1> USE DEF CallsInv, Selects, SendOps, AtReceive, AtBlockingReceive
<1>1. CASE UNCHANGED vars
  BY <1>1 DEF vars
<1>2. ASSUME NEW p \in Proc, NEW kind \in SendOps, BeginSend(p, kind) PROVE CallsInv'
  <2>1. /\ sent[p] < MaxSends[p] /\ sent' = [sent EXCEPT ![p] = @ + 1]
        /\ closed' = closed
    BY <1>2 DEF BeginSend
  <2>2. PICK label \in {"idle", kind} : pc' = [pc EXCEPT ![p] = label]
    BY <1>2 DEF BeginSend, Enter, Return
  <2>3. sent[p] \in Nat /\ MaxSends[p] \in Nat /\ sent' \in [Proc -> Nat]
    <3>1. sent[p] \in Nat /\ sent \in [Proc -> Nat]
      OBVIOUS
    <3>2. sent[p] + 1 \in Nat
      BY <3>1
    <3>3. MaxSends[p] \in Nat
      BY MaxSendsAssumption
    <3>4. QED BY <2>1, <3>1, <3>2, <3>3
  <2>4. \A q \in Proc : sent[q] \in Nat /\ sent'[q] = IF q = p THEN sent[p] + 1 ELSE sent[q]
    BY <2>1
  <2>5. \A q \in Proc : pc'[q] = IF q = p THEN label ELSE pc[q]
    BY <2>2
  <2>6. \A q \in Proc : sent'[q] <= MaxSends[q] /\ (pc'[q] \in SendOps => sent'[q] > 0)
    BY <2>1, <2>3, <2>4, <2>5
  <2>7. pc' \in [Proc -> Selects] /\ \A q \in Proc : pc'[q] = "drain" => closed
    BY <2>2, <2>5
  <2>8. QED BY <2>1, <2>3, <2>6, <2>7
<1>3. ASSUME NEW p \in Proc, UNCHANGED <<sent, closed>>,
             \E label \in Selects \ (SendOps \cup {"drain"}) : pc' = [pc EXCEPT ![p] = label]
      PROVE  CallsInv'
  BY <1>3
<1>4. ASSUME NEW p \in Proc, SelectSend(p) \/ SelectSendDone(p) \/ OfferDefault(p) PROVE CallsInv'
  <2>1. UNCHANGED <<sent, closed>> /\ pc' = [pc EXCEPT ![p] = "idle"]
    BY <1>4 DEF SelectSend, SelectSendDone, OfferDefault, Return
  <2>2. QED BY <1>3, <2>1
<1>5. ASSUME NEW p \in Proc, NEW q \in Proc, Rendezvous(p, q) PROVE CallsInv'
  <2>1. UNCHANGED <<sent, closed>> /\ pc' = [pc EXCEPT ![p] = "idle", ![q] = "idle"]
    BY <1>5 DEF Rendezvous
  <2>2. QED BY <2>1
<1>6. ASSUME NEW p \in Proc, NEW kind, BeginReceive(p, kind) PROVE CallsInv'
  <2>1. /\ UNCHANGED <<sent, closed>>
        /\ \E label \in {"receive", "try"} : pc' = [pc EXCEPT ![p] = label]
    BY <1>6 DEF BeginReceive, Enter
  <2>2. QED BY <1>3, <2>1
<1>7. ASSUME NEW p \in Proc, SelectReceive(p) \/ DrainDefault(p) \/ Timeout(p) PROVE CallsInv'
  <2>1. UNCHANGED <<sent, closed>> /\ pc' = [pc EXCEPT ![p] = "idle"]
    BY <1>7 DEF SelectReceive, DrainDefault, Timeout, Return
  <2>2. QED BY <1>3, <2>1
<1>8. ASSUME NEW p \in Proc, TryDefault(p) \/ CheckDefault(p) PROVE CallsInv'
  <2>1. /\ UNCHANGED <<sent, closed>>
        /\ \E label \in {"checkDone", "timed", "idle"} : pc' = [pc EXCEPT ![p] = label]
    BY <1>8 DEF TryDefault, CheckDefault, Goto, Return
  <2>2. QED BY <1>3, <2>1
<1>9. ASSUME NEW p \in Proc, SelectDone(p) PROVE CallsInv'
  BY <1>9 DEF SelectDone, Goto
<1>10. ASSUME NEW p \in Proc, Close(p) PROVE CallsInv'
  BY <1>10 DEF Close
<1>11. QED
  BY <1>1, <1>2, <1>4, <1>5, <1>6, <1>7, <1>8, <1>9, <1>10, Zenon DEF Next, Begin, Step

(* A queue that has a first value is that value followed by the rest. *)
LEMMA MoveFirst ==
  ASSUME NEW S, NEW d \in Seq(S), NEW s \in Seq(S), s # <<>>
  PROVE  /\ Head(s) \in S /\ Tail(s) \in Seq(S)
         /\ d \o s = Append(d, Head(s)) \o Tail(s)
<1>1. Head(s) \in S /\ Tail(s) \in Seq(S) /\ s = <<Head(s)>> \o Tail(s)
  BY HeadTailProperties
<1>2. Append(d, Head(s)) = d \o <<Head(s)>> /\ <<Head(s)>> \in Seq(S)
  BY <1>1, AppendIsConcat
<1>3. QED BY <1>1, <1>2, ConcatAssociative

LEMMA BufferNext == CallsInv /\ BufferInv /\ [Next]_vars => BufferInv'
<1> SUFFICES ASSUME CallsInv, BufferInv, [Next]_vars PROVE BufferInv'
  OBVIOUS
<1>1. data \in Seq(Value) /\ delivered \in Seq(Value)
  BY DEF BufferInv
<1>2. ASSUME NEW v, Puts(v) PROVE BufferInv'
  <2>1. Append(delivered \o data, v) = delivered \o Append(data, v)
    <3>1. v \in Value /\ <<v>> \in Seq(Value) /\ delivered \o data \in Seq(Value)
      BY <1>1, <1>2, ConcatProperties DEF Puts
    <3>2. /\ Append(delivered \o data, v) = (delivered \o data) \o <<v>>
          /\ Append(data, v) = data \o <<v>>
      BY <1>1, <3>1, AppendIsConcat
    <3>3. QED BY <1>1, <3>1, <3>2, ConcatAssociative
  <2>2. QED BY <1>2, <2>1 DEF Puts, BufferInv
<1>3. ASSUME NEW v, HandsOver(v) PROVE BufferInv'
  <2>1. data = <<>> /\ accepted = delivered
    BY <1>1, <1>3, ConcatEmptySeq DEF HandsOver, BufferInv
  <2>2. Append(delivered, v) \in Seq(Value)
    BY <1>1, <1>3 DEF HandsOver
  <2>3. QED BY <1>3, <2>1, <2>2, ConcatEmptySeq DEF HandsOver, BufferInv
<1>4. CASE Takes
  <2>1. /\ Head(data) \in Value /\ Tail(data) \in Seq(Value)
        /\ delivered \o data = Append(delivered, Head(data)) \o Tail(data)
    BY <1>1, <1>4, MoveFirst DEF Takes
  <2>2. QED BY <1>1, <1>4, <2>1 DEF Takes, BufferInv
<1>5. CASE Closes \/ Answers \/ Keeps
  BY <1>5 DEF Closes, Answers, Keeps, BufferInv
<1>6. QED BY <1>2, <1>3, <1>4, <1>5, BufferSteps

LEMMA ChannelInvariant == Spec => [](CallsInv /\ BufferInv)
<1>1. Init => CallsInv /\ BufferInv
  <2> SUFFICES ASSUME Init PROVE CallsInv /\ BufferInv
    OBVIOUS
  <2>1. CallsInv
    <3>1. \A p \in Proc : MaxSends[p] \in Nat /\ 0 <= MaxSends[p]
      BY MaxSendsAssumption
    <3>2. \A p \in Proc : pc[p] = "idle" /\ sent[p] = 0
      BY DEF Init
    <3>3. pc \in [Proc -> Selects] /\ sent \in [Proc -> Nat] /\ closed \in BOOLEAN
      BY DEF Init, Selects
    <3>4. QED BY <3>1, <3>2, <3>3 DEF CallsInv, SendOps
  <2>2. cap \in Nat /\ data = <<>> /\ delivered = <<>> /\ accepted = <<>>
    BY SizesAssumption DEF Init
  <2>3. <<>> \in Seq(Value) /\ <<>> \o <<>> = <<>>
    BY ConcatEmptySeq
  <2>4. BufferInv
    BY <2>2, <2>3 DEF BufferInv
  <2>5. QED BY <2>1, <2>4
<1>2. CallsInv /\ BufferInv /\ [Next]_vars => (CallsInv /\ BufferInv)'
  BY CallsNext, BufferNext
<1>3. QED BY <1>1, <1>2, PTL DEF Spec
-----------------------------------------------------------------------------
(* Every value that is late, or was accepted, is that of a send that was   *)
(* started, and nothing accepted is late.  The value in the hands of a     *)
(* process at its second select is not late: the look at done came before. *)
Started == {v \in Proc \X Nat : v[2] <= sent[v[1]]}

LateInv == /\ late \subseteq Started
           /\ \A i \in 1..Len(accepted) : accepted[i] \in Started \ late
           /\ \A p \in Proc : pc[p] \in SendOps => Sending(p) \notin late

LEMMA StartedGrows ==
  ASSUME CallsInv, NEW p \in Proc, sent' = [sent EXCEPT ![p] = @ + 1]
  PROVE  Started \subseteq Started' /\ <<p, sent[p] + 1>> \in Started' \ Started
BY DEF CallsInv, Started

(* A value that is accepted is neither late nor of a send yet to come. *)
LEMMA AcceptKeepsLate ==
  ASSUME CallsInv, BufferInv, LateInv, NEW p \in Proc, pc[p] \in SendOps,
         accepted' = Append(accepted, Sending(p)), UNCHANGED <<sent, late>>
  PROVE  /\ late' \subseteq Started'
         /\ \A i \in 1..Len(accepted') : accepted'[i] \in Started' \ late'
<1>1. Started' = Started
  BY DEF Started
<1>2. Sending(p) \in Started \ late
  BY DEF LateInv, CallsInv, Started, Sending
<1>3. accepted \in Seq(Value)
  BY ConcatProperties DEF BufferInv
<1>4. ASSUME NEW i \in 1..Len(accepted') PROVE accepted'[i] \in Started \ late
  <2>1. CASE i = Len(accepted) + 1
    BY <1>2, <1>3, <2>1
  <2>2. CASE i # Len(accepted) + 1
    <3>1. i \in 1..Len(accepted) /\ accepted'[i] = accepted[i]
      BY <1>3, <2>2, LenProperties
    <3>2. QED BY <3>1 DEF LateInv
  <2>3. QED BY <2>1, <2>2
<1>5. QED BY <1>1, <1>4 DEF LateInv

LEMMA LateNext == CallsInv /\ BufferInv /\ LateInv /\ [Next]_vars => LateInv'
<1> SUFFICES ASSUME CallsInv, BufferInv, LateInv, [Next]_vars PROVE LateInv'
  OBVIOUS
<1>1. ASSUME UNCHANGED <<sent, late, accepted>>,
             \A p \in Proc : pc'[p] \in SendOps => pc[p] \in SendOps
      PROVE  LateInv'
  <2>1. Started' = Started /\ \A p : Sending(p)' = Sending(p)
    BY <1>1 DEF Started, Sending
  <2>2. QED BY <1>1, <2>1 DEF LateInv
<1>2. ASSUME NEW p \in Proc, NEW kind \in SendOps, BeginSend(p, kind) PROVE LateInv'
  <2>1. /\ Started \subseteq Started'
        /\ <<p, sent[p] + 1>> \in Started' \ Started
        /\ accepted' = accepted
    BY <1>2, StartedGrows DEF BeginSend
  <2>2. late' \in {late, late \cup {<<p, sent[p] + 1>>}}
    BY <1>2 DEF BeginSend
  <2>3. late' \subseteq Started' /\ \A i \in 1..Len(accepted') : accepted'[i] \in Started' \ late'
    BY <2>1, <2>2 DEF LateInv
  <2>4. ASSUME NEW q \in Proc, pc'[q] \in SendOps PROVE Sending(q)' \notin late'
    <3>1. CASE closed
      <4>1. q # p /\ pc[q] \in SendOps /\ sent'[q] = sent[q]
        BY <1>2, <2>4, <3>1 DEF BeginSend, Return, CallsInv, SendOps
      <4>2. Sending(q)' = Sending(q) /\ Sending(q) \notin late /\ Sending(q) # <<p, sent[p] + 1>>
        BY <4>1 DEF Sending, LateInv
      <4>3. QED BY <2>2, <4>2
    <3>2. CASE ~closed
      <4>1. late' = late
        BY <1>2, <3>2 DEF BeginSend
      <4>2. CASE q = p
        <5>1. Sending(q)' = <<p, sent[p] + 1>>
          BY <1>2, <4>2 DEF BeginSend, Sending, CallsInv
        <5>2. QED BY <2>1, <4>1, <5>1 DEF LateInv
      <4>3. CASE q # p
        <5>1. pc[q] \in SendOps /\ sent'[q] = sent[q]
          BY <1>2, <2>4, <3>2, <4>3 DEF BeginSend, Enter, CallsInv
        <5>2. QED BY <4>1, <5>1 DEF Sending, LateInv
      <4>4. QED BY <4>2, <4>3
    <3>3. QED BY <3>1, <3>2
  <2>5. QED BY <2>3, <2>4 DEF LateInv
<1>3. ASSUME NEW p \in Proc, SelectSend(p) PROVE LateInv'
  <2>1. /\ pc[p] \in SendOps /\ accepted' = Append(accepted, Sending(p))
        /\ UNCHANGED <<sent, late>>
        /\ pc' = [pc EXCEPT ![p] = "idle"]
    BY <1>3 DEF SelectSend, Return
  <2>2. \A q \in Proc : pc'[q] \in SendOps => pc[q] \in SendOps /\ Sending(q)' = Sending(q)
    BY <2>1 DEF CallsInv, SendOps, Sending
  <2>3. QED BY <2>1, <2>2, AcceptKeepsLate DEF LateInv
<1>4. ASSUME NEW p \in Proc, NEW q \in Proc, Rendezvous(p, q) PROVE LateInv'
  <2>1. /\ pc[p] \in SendOps /\ accepted' = Append(accepted, Sending(p))
        /\ UNCHANGED <<sent, late>>
        /\ pc' = [pc EXCEPT ![p] = "idle", ![q] = "idle"]
    BY <1>4 DEF Rendezvous
  <2>2. \A r \in Proc : pc'[r] \in SendOps => pc[r] \in SendOps /\ Sending(r)' = Sending(r)
    BY <2>1 DEF CallsInv, SendOps, Sending
  <2>3. QED BY <2>1, <2>2, AcceptKeepsLate DEF LateInv
<1>5. ASSUME NEW p \in Proc, NEW label, label \notin SendOps, pc' = [pc EXCEPT ![p] = label]
      PROVE  \A q \in Proc : pc'[q] \in SendOps => pc[q] \in SendOps
  BY <1>5 DEF CallsInv
<1>6. ASSUME NEW p \in Proc,
             \/ SelectSendDone(p) \/ OfferDefault(p) \/ SelectReceive(p)
             \/ DrainDefault(p) \/ Timeout(p)
      PROVE  LateInv'
  <2>1. UNCHANGED <<sent, late, accepted>> /\ pc' = [pc EXCEPT ![p] = "idle"]
    BY <1>6 DEF SelectSendDone, OfferDefault, SelectReceive, DrainDefault, Timeout, Return
  <2>2. QED BY <1>1, <1>5, <2>1 DEF SendOps
<1>7. ASSUME NEW p \in Proc, TryDefault(p) \/ SelectDone(p) \/ CheckDefault(p) PROVE LateInv'
  <2>1. /\ UNCHANGED <<sent, late, accepted>>
        /\ \E label \in {"checkDone", "drain", "timed", "idle"} : pc' = [pc EXCEPT ![p] = label]
    BY <1>7 DEF TryDefault, SelectDone, CheckDefault, Goto, Return
  <2>2. QED BY <1>1, <1>5, <2>1 DEF SendOps
<1>8. ASSUME NEW p \in Proc, NEW kind, BeginReceive(p, kind) PROVE LateInv'
  <2>1. /\ UNCHANGED <<sent, late, accepted>>
        /\ \E label \in {"receive", "try"} : pc' = [pc EXCEPT ![p] = label]
    BY <1>8 DEF BeginReceive, Enter
  <2>2. QED BY <1>1, <1>5, <2>1 DEF SendOps
<1>9. ASSUME NEW p \in Proc, Close(p) PROVE LateInv'
  BY <1>1, <1>9 DEF Close
<1>10. CASE UNCHANGED vars
  BY <1>1, <1>10 DEF vars
<1>11. QED
  BY <1>2, <1>3, <1>4, <1>6, <1>7, <1>8, <1>9, <1>10, Zenon DEF Next, Begin, Step

(* A send or offer that begins after close is refused, for any number of   *)
(* goroutines and any capacity.                                            *)
THEOREM LateSendRefusedHolds == Spec => []LateSendRefused
<1>1. Init => LateInv
  BY DEF Init, LateInv, SendOps
<1>2. LateInv => LateSendRefused
  BY DEF LateInv, LateSendRefused
<1>3. QED BY <1>1, <1>2, ChannelInvariant, LateNext, PTL DEF Spec
-----------------------------------------------------------------------------
(* The value handed out is the oldest one accepted and not delivered. *)
LEMMA OldestIsFirst ==
  ASSUME NEW S, NEW d \in Seq(S), NEW s \in Seq(S), s # <<>>
  PROVE  Len(d \o s) - Len(d) > 0 /\ (d \o s)[Len(d) + 1] = Head(s)
<1>1. Len(s) \in Nat \ {0} /\ Len(d) \in Nat /\ Len(d \o s) = Len(d) + Len(s)
  BY EmptySeq, LenProperties, ConcatProperties
<1>2. QED BY <1>1, ConcatProperties

(* The bounded channel is a ClosableQueue in which a send that raced with  *)
(* close may still win: a buffered send is a Put, a rendezvous a Handoff,  *)
(* and the last look at data is what makes the answer of a drained one.    *)
THEOREM Refinement == Spec => ImplementsClosableQueue
<1>1. Init => Queue!Init
  BY DEF Init, Queue!Init
<1>2. CallsInv /\ BufferInv /\ [Next]_vars => [Queue!Next]_(Queue!vars)
  <2> SUFFICES ASSUME CallsInv, BufferInv, [Next]_vars
               PROVE  Queue!Next \/ UNCHANGED Queue!vars
    OBVIOUS
  <2>1. data \in Seq(Value) /\ delivered \in Seq(Value) /\ accepted = delivered \o data
    BY DEF BufferInv
  <2>2. data = <<>> => Queue!Pending = 0
    BY <2>1, ConcatEmptySeq, LenProperties DEF Queue!Pending
  <2>3. ASSUME NEW v, Puts(v) PROVE Queue!Next
    BY <2>3 DEF Puts, Queue!Next, Queue!Put, Queue!Open
  <2>4. ASSUME NEW v, HandsOver(v) PROVE Queue!Next
    BY <2>2, <2>4 DEF HandsOver, BufferInv, Queue!Next, Queue!Handoff, Queue!Open
  <2>5. CASE Takes
    <3>1. Len(accepted) - Len(delivered) > 0 /\ accepted[Len(delivered) + 1] = Head(data)
      BY <2>1, <2>5, OldestIsFirst DEF Takes
    <3>2. QED BY <2>5, <3>1 DEF Takes, Queue!Next, Queue!Get, Queue!Pending
  <2>6. CASE Closes
    <3>1. CASE closed
      BY <2>6, <3>1 DEF Closes, Queue!vars, CallsInv
    <3>2. CASE ~closed
      BY <2>6, <3>2, Zenon DEF Closes, Queue!Next, Queue!Close
    <3>3. QED BY <3>1, <3>2
  <2>7. CASE Answers
    BY <2>2, <2>7, Zenon DEF Answers, Queue!Next, Queue!AnswerDrained
  <2>8. CASE Keeps
    BY <2>8 DEF Keeps, Queue!vars
  <2>9. QED BY <2>3, <2>4, <2>5, <2>6, <2>7, <2>8, BufferSteps
<1>3. QED
  BY <1>1, <1>2, ChannelInvariant, PTL DEF Spec, ImplementsClosableQueue, Queue!Spec
-----------------------------------------------------------------------------
(* ------------------------------ the scheduler ---------------------------- *)

LEMMA BooleansCorrect == CronSpec => [](started \in BOOLEAN /\ running \in BOOLEAN)
<1> DEFINE B == started \in BOOLEAN /\ running \in BOOLEAN
<1>1. CronInit => B
  BY Zenon DEF CronInit
<1>2. B /\ [CronNext]_cronVars => B'
  <2> SUFFICES ASSUME B, [CronNext]_cronVars PROVE B'
    OBVIOUS
  <2>1. ASSUME NEW t \in Thread, Call(t) PROVE B'
    BY <2>1, Zenon DEF Call, Schedule, Remove, Start, Stop
  <2>2. ASSUME NEW t \in Thread, StopScheduler(t) \/ StopWaited(t) PROVE B'
    BY <2>2, Zenon DEF StopScheduler, StopWaited
  <2>3. ASSUME NEW j \in Job, Fire(j) \/ Finish(j) PROVE B'
    BY <2>3, Zenon DEF Fire, Finish
  <2>4. CASE UNCHANGED cronVars
    BY <2>4, Zenon DEF cronVars
  <2>5. QED
    BY <2>1, <2>2, <2>3, <2>4, Zenon DEF CronNext
<1>3. QED BY <1>1, <1>2, PTL DEF CronSpec

(* Only running jobs are inside a call, so a job that waits in stop is     *)
(* still in flight.                                                        *)
JobsOK == /\ entries \subseteq Job
          /\ active \subseteq Job
          /\ stage \in [Thread -> {"idle", "stopping", "waiting"}]
          /\ \A j \in Job \ active : stage[j] = "idle"

LEMMA JobsCorrect == CronSpec => []JobsOK
<1>1. CronInit => JobsOK
  BY DEF CronInit, JobsOK, Thread
<1>2. JobsOK /\ [CronNext]_cronVars => JobsOK'
  <2> SUFFICES ASSUME JobsOK, [CronNext]_cronVars PROVE JobsOK'
    OBVIOUS
  <2> USE DEF JobsOK
  <2>1. ASSUME NEW t \in Thread, Call(t) PROVE JobsOK'
    <3>1. ASSUME NEW j \in Job, Schedule(t, j) \/ Remove(t, j) PROVE JobsOK'
      BY <3>1 DEF Schedule, Remove
    <3>2. CASE Start(t)
      <4>1. UNCHANGED <<entries, active, stage>>
        BY <3>2 DEF Start
      <4>2. QED BY <4>1
    <3>3. CASE Stop(t)
      <4>1. /\ UNCHANGED <<entries, active>>
            /\ t \in Job => t \in active
            /\ UNCHANGED stage \/ stage' = [stage EXCEPT ![t] = "stopping"]
        BY <3>3 DEF Stop, MayCall
      <4>2. QED BY <4>1 DEF Thread
    <3>4. QED BY <2>1, <3>1, <3>2, <3>3 DEF Call
  <2>2. ASSUME NEW t \in Thread, StopScheduler(t) PROVE JobsOK'
    <3>1. /\ UNCHANGED <<entries, active>>
          /\ stage[t] = "stopping"
          /\ stage' = [stage EXCEPT ![t] = "waiting"]
      BY <2>2 DEF StopScheduler
    <3>2. QED BY <3>1 DEF Thread
  <2>3. ASSUME NEW t \in Thread, StopWaited(t) PROVE JobsOK'
    <3>1. /\ UNCHANGED <<entries, active>>
          /\ stage' = [stage EXCEPT ![t] = "idle"]
      BY <2>3 DEF StopWaited
    <3>2. QED BY <3>1 DEF Thread
  <2>4. ASSUME NEW j \in Job, Fire(j) \/ Finish(j) PROVE JobsOK'
    BY <2>4 DEF Fire, Finish, Thread
  <2>5. CASE UNCHANGED cronVars
    BY <2>5 DEF cronVars
  <2>6. QED BY <2>1, <2>2, <2>3, <2>4, <2>5 DEF CronNext
<1>3. QED BY <1>1, <1>2, PTL DEF CronSpec

(* Cron is well typed, for any number of goroutines and jobs. *)
THEOREM TypeCorrect == CronSpec => []TypeOK
<1>1. (started \in BOOLEAN /\ running \in BOOLEAN) /\ JobsOK => TypeOK
  BY DEF TypeOK, JobsOK
<1>2. QED BY <1>1, BooleansCorrect, JobsCorrect, PTL

(* After the last stop nothing runs, however starts and stops overlap: the *)
(* scheduler is started only in the section that sets the flag, and every  *)
(* stop that clears the flag goes on to stop the scheduler.                *)
THEOREM StoppedDoesNotRunHolds == CronSpec => []StoppedDoesNotRun
<1>1. CronInit => StoppedDoesNotRun
  BY Zenon DEF CronInit, StoppedDoesNotRun
<1>2. JobsOK /\ StoppedDoesNotRun /\ [CronNext]_cronVars => StoppedDoesNotRun'
  <2> SUFFICES ASSUME JobsOK, StoppedDoesNotRun, [CronNext]_cronVars
               PROVE  StoppedDoesNotRun'
    OBVIOUS
  <2> USE DEF StoppedDoesNotRun
  <2>1. stage \in [Thread -> {"idle", "stopping", "waiting"}]
    BY DEF JobsOK
  <2>2. ASSUME NEW t \in Thread, Start(t) PROVE StoppedDoesNotRun'
    BY <2>2, Zenon DEF Start
  <2>3. ASSUME NEW t \in Thread, Stop(t) PROVE StoppedDoesNotRun'
    <3>1. CASE started
      <4>1. stage' = [stage EXCEPT ![t] = "stopping"]
        BY <2>3, <3>1 DEF Stop
      <4>2. stage'[t] = "stopping"
        BY <2>1, <4>1
      <4>3. QED BY <4>2, Zenon
    <3>2. CASE ~started
      BY <2>3, <3>2, Zenon DEF Stop
    <3>3. QED BY <3>1, <3>2
  <2>4. ASSUME NEW t \in Thread, StopScheduler(t) PROVE StoppedDoesNotRun'
    BY <2>4, Zenon DEF StopScheduler
  <2>5. ASSUME NEW t \in Thread, StopWaited(t) PROVE StoppedDoesNotRun'
    <3>1. \A u \in Thread : stage[u] = "stopping" => stage'[u] = "stopping"
      BY <2>1, <2>5 DEF StopWaited
    <3>2. UNCHANGED <<started, running>>
      BY <2>5 DEF StopWaited
    <3>3. QED BY <3>1, <3>2, Zenon
  <2>6. ASSUME NEW t \in Thread, NEW j \in Job, Schedule(t, j) \/ Remove(t, j)
        PROVE  StoppedDoesNotRun'
    BY <2>6, Zenon DEF Schedule, Remove
  <2>7. ASSUME NEW j \in Job, Fire(j) \/ Finish(j) PROVE StoppedDoesNotRun'
    BY <2>7, Zenon DEF Fire, Finish
  <2>8. CASE UNCHANGED cronVars
    BY <2>8, Zenon DEF cronVars
  <2>9. QED
    BY <2>2, <2>3, <2>4, <2>5, <2>6, <2>7, <2>8, Zenon DEF CronNext, Call
<1>3. QED BY <1>1, <1>2, JobsCorrect, PTL DEF CronSpec
=============================================================================
