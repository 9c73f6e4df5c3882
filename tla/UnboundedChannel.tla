-------------------------- MODULE UnboundedChannel --------------------------
(***************************************************************************)
(* The unbounded half of class Channel of lamconcurrency.lam: a slice      *)
(* guarded by channel.mu, and the Go channel "ready" of capacity one that  *)
(* carries a wake-up token to receivers.  lamChannelUnboundedOffer,        *)
(* lamChannelUnboundedTake and close run inside channel.mu and are one     *)
(* step each; a receiver that found the queue empty waits outside the      *)
(* mutex for the token, for close or for its timer, and takes again.       *)
(***************************************************************************)
EXTENDS Naturals, Sequences, FiniteSets

CONSTANTS Proc,      \* goroutines that use the channel
          MaxSends   \* bound on the sends and offers of each process

ASSUME MaxSendsAssumption == MaxSends \in [Proc -> Nat]

VARIABLES queue,     \* channel.queue
          ready,     \* the token is in channel.ready
          closed,    \* channel.closed, and channel.done closed
          pc,        \* where each process is in its receive operation
          op,        \* the operation each process is in, "none" when idle
          sent,      \* how many sends and offers each process made
          ret,       \* what the last operation of each process returned
          accepted, delivered,  \* history: values put in and taken out
          told       \* history: a receiver was answered "closed and drained"

vars == <<queue, ready, closed, pc, op, sent, ret, accepted, delivered, told>>

RecvOps == {"receive", "receiveTimeout", "receiveNow", "poll"}
Answers == {"none", "ok", "ChannelClosed", "ChannelEmpty", "ChannelTimeout"}

(* "wait": in the select over ready, done and the timer.  "take": woken,   *)
(* about to take again.                                                    *)
PCs == {"idle", "wait", "take"}
Waits == {"receive", "receiveTimeout"}

Value == UNION {{p} \X (1..MaxSends[p]) : p \in Proc}

Init == /\ queue = <<>>
        /\ ready = FALSE
        /\ closed = FALSE
        /\ pc = [p \in Proc |-> "idle"]
        /\ op = [p \in Proc |-> "none"]
        /\ sent = [p \in Proc |-> 0]
        /\ ret = [p \in Proc |-> "none"]
        /\ accepted = <<>>
        /\ delivered = <<>>
        /\ told = FALSE

(* The operation of process p returns the answer a to its caller. *)
Return(p, a) == /\ pc' = [pc EXCEPT ![p] = "idle"]
                /\ op' = [op EXCEPT ![p] = "none"]
                /\ ret' = [ret EXCEPT ![p] = a]

(* Mutation: closed is not looked at. *)
OfferWhenClosed(p) ==
  /\ pc[p] = "idle"
  /\ sent[p] < MaxSends[p]
  /\ sent' = [sent EXCEPT ![p] = @ + 1]
  /\ Return(p, "ok")
  /\ queue' = Append(queue, <<p, sent[p] + 1>>)
  /\ ready' = TRUE
  /\ accepted' = Append(accepted, <<p, sent[p] + 1>>)
  /\ UNCHANGED <<closed, delivered, told>>

(* send and offer: both are one call of lamChannelUnboundedOffer, which    *)
(* leaves a token for a receiver unless one is there already.              *)
Offer(p) ==
  /\ pc[p] = "idle"
  /\ sent[p] < MaxSends[p]
  /\ sent' = [sent EXCEPT ![p] = @ + 1]
  /\ LET v == <<p, sent[p] + 1>> IN
     IF closed
     THEN /\ Return(p, "ChannelClosed")
          /\ UNCHANGED <<queue, ready, accepted>>
     ELSE /\ Return(p, "ok")
          /\ queue' = Append(queue, v)
          /\ ready' = TRUE
          /\ accepted' = Append(accepted, v)
  /\ UNCHANGED <<closed, delivered, told>>

(* lamChannelUnboundedTake finds a value: the operation returns it, and a  *)
(* receiver that leaves values behind passes the token on.                 *)
TakeValueKeepingToken(p) ==    \* mutation: the token is not passed on
  /\ queue # <<>>
  /\ queue' = Tail(queue)
  /\ delivered' = Append(delivered, Head(queue))
  /\ Return(p, "ok")
  /\ UNCHANGED <<ready, told>>

TakeValue(p) ==
  /\ queue # <<>>
  /\ queue' = Tail(queue)
  /\ delivered' = Append(delivered, Head(queue))
  /\ ready' = (ready \/ Tail(queue) # <<>>)
  /\ Return(p, "ok")
  /\ UNCHANGED told

(* It finds the channel closed and drained. *)
TakeClosed(p) ==
  /\ queue = <<>>
  /\ closed
  /\ Return(p, "ChannelClosed")
  /\ told' = TRUE
  /\ UNCHANGED <<queue, ready, delivered>>

(* It finds the channel open and empty: receive and receiveTimeout wait,   *)
(* the operations that do not wait return.                                 *)
TakeNothing(p, kind) ==
  /\ queue = <<>>
  /\ ~closed
  /\ IF kind \in Waits
     THEN /\ pc' = [pc EXCEPT ![p] = "wait"]
          /\ op' = [op EXCEPT ![p] = kind]
          /\ ret' = [ret EXCEPT ![p] = "none"]
     ELSE Return(p, IF kind = "poll" THEN "ChannelEmpty" ELSE "ChannelTimeout")
  /\ UNCHANGED <<queue, ready, delivered, told>>

Take(p, kind) == TakeValue(p) \/ TakeClosed(p) \/ TakeNothing(p, kind)

(* receive, receiveTimeout (receiveNow when timeoutMs <= 0) and poll start *)
(* by taking.                                                              *)
BeginReceive(p, kind) ==
  /\ pc[p] = "idle"
  /\ Take(p, kind)
  /\ UNCHANGED <<closed, sent, accepted>>

(* case <-channel.ready: this receiver holds the token now *)
SelectReady(p) ==
  /\ pc[p] = "wait"
  /\ ready
  /\ ready' = FALSE
  /\ pc' = [pc EXCEPT ![p] = "take"]
  /\ UNCHANGED <<queue, closed, op, sent, ret, accepted, delivered, told>>

(* Mutation: the select has no case on done. *)
SelectDoneMissing(p) == FALSE /\ UNCHANGED vars

(* case <-channel.done *)
SelectDone(p) ==
  /\ pc[p] = "wait"
  /\ closed
  /\ pc' = [pc EXCEPT ![p] = "take"]
  /\ UNCHANGED <<queue, ready, closed, op, sent, ret, accepted, delivered, told>>

(* case <-timer.C, at any moment *)
Timeout(p) ==
  /\ pc[p] = "wait"
  /\ op[p] = "receiveTimeout"
  /\ Return(p, "ChannelTimeout")
  /\ UNCHANGED <<queue, ready, closed, sent, accepted, delivered, told>>

TakeAgain(p) ==
  /\ pc[p] = "take"
  /\ Take(p, op[p])
  /\ UNCHANGED <<closed, sent, accepted>>

Close(p) ==
  /\ pc[p] = "idle"
  /\ closed' = TRUE
  /\ Return(p, IF closed THEN "ChannelClosed" ELSE "ok")
  /\ UNCHANGED <<queue, ready, sent, accepted, delivered, told>>

-----------------------------------------------------------------------------
Step(p) == SelectReady(p) \/ SelectDone(p) \/ Timeout(p) \/ TakeAgain(p)

Begin(p) == \/ Offer(p)
            \/ \E kind \in RecvOps : BeginReceive(p, kind)
            \/ Close(p)

Next == \E p \in Proc : Begin(p) \/ Step(p)

Spec == Init /\ [][Next]_vars

(* A goroutine woken from its select runs on; the timer of receiveTimeout  *)
(* is not relied on, and no caller is forced to start an operation.        *)
FairSpec == /\ Spec
            /\ \A p \in Proc : WF_vars(SelectReady(p) \/ SelectDone(p)
                                       \/ TakeAgain(p))
-----------------------------------------------------------------------------
TypeOK == /\ queue \in Seq(Value)
          /\ ready \in BOOLEAN
          /\ closed \in BOOLEAN
          /\ pc \in [Proc -> PCs]
          /\ op \in [Proc -> {"none"} \cup RecvOps]
          /\ \A p \in Proc : pc[p] # "idle" => op[p] \in Waits
          /\ sent \in [Proc -> Nat]
          /\ \A p \in Proc : sent[p] <= MaxSends[p]
          /\ ret \in [Proc -> Answers]
          /\ accepted \in Seq(Value)
          /\ delivered \in Seq(Value)
          /\ told \in BOOLEAN

(* No wake-up is lost: while values are queued, either the token is in     *)
(* ready or a receiver has been woken and is about to take.  The token is  *)
(* one bit for any number of sends, so this rests on Take passing it on.   *)
NoLostWakeup == queue # <<>> => ready \/ \E p \in Proc : pc[p] = "take"

(* Nothing is lost, repeated or reordered between send and receive.        *)
Conservation == accepted = delivered \o queue

(* After a receiver was answered "closed and drained" (doc of receive and  *)
(* poll), the channel holds no value and never will.                       *)
DrainedIsFinal == told => closed /\ queue = <<>>

(* A receiver parked while a value is queued does not stay parked with the *)
(* value left there: it is woken, or some receiver takes the value.        *)
WaitingReceiverServed ==
  \A p \in Proc :
    (pc[p] = "wait" /\ queue # <<>>) ~> (pc[p] # "wait" \/ queue = <<>>)

(* close wakes every parked receiver: each of them returns.                *)
CloseReleasesReceivers ==
  \A p \in Proc : (closed /\ pc[p] # "idle") ~> (pc[p] = "idle")

(* The unbounded channel is a ClosableQueue, with no late acceptance.      *)
Queue == INSTANCE ClosableQueue WITH LateAccept <- FALSE
ImplementsClosableQueue == Queue!Spec
=============================================================================
