--------------------------- MODULE BoundedChannel ---------------------------
(***************************************************************************)
(* The bounded and rendezvous half of class Channel of lamconcurrency.lam: *)
(* a Go channel "data" of capacity cap, and a Go channel "done" that close *)
(* closes.  Every operation is a sequence of Go selects over the two; each *)
(* select is one atomic step, and other processes run between two selects  *)
(* of the same operation.                                                  *)
(*                                                                         *)
(* A process at a select may be about to execute it or parked in it; both  *)
(* are the same program counter here.  When two cases of a select are      *)
(* ready Go picks one at random: each ready case is an action.             *)
(***************************************************************************)
EXTENDS Naturals, Sequences, FiniteSets

CONSTANTS Proc,      \* goroutines that use the channel
          Sizes,     \* what Channel(size) may be given; 0 is a rendezvous
          MaxSends   \* bound on the sends and offers of each process

ASSUME SizesAssumption == Sizes \subseteq Nat
ASSUME MaxSendsAssumption == MaxSends \in [Proc -> Nat]

VARIABLES cap,       \* the capacity the channel was made with
          data,      \* the buffer of the Go channel
          closed,    \* channel.closed, and done closed (one critical section)
          pc,        \* the select each process is at
          op,        \* the operation each process is in, "none" when idle
          sent,      \* how many sends and offers each process started
          late,      \* history: values whose send began after close
          accepted, delivered,  \* history: values put in and taken out
          told       \* history: a receiver was answered "closed and drained"

vars == <<cap, data, closed, pc, op, sent, late, accepted, delivered, told>>

SendOps == {"send", "offer"}
(* receiveTimeout(timeoutMs <= 0) does what poll does, under another       *)
(* error name, and is not told apart from it.                              *)
RecvOps == {"receive", "receiveTimeout", "poll"}
(* The selects that have a receive from data among their cases: "receive"  *)
(* and "timed" block, "try" and "drain" have a default.                    *)
AtBlockingReceive == {"receive", "timed"}
AtReceive == AtBlockingReceive \cup {"try", "drain"}

(* The value of the send a process is in: one per send it ever started. *)
Value == UNION {{p} \X (1..MaxSends[p]) : p \in Proc}
Sending(p) == <<p, sent[p]>>

Init == /\ cap \in Sizes
        /\ data = <<>>
        /\ closed = FALSE
        /\ pc = [p \in Proc |-> "idle"]
        /\ op = [p \in Proc |-> "none"]
        /\ sent = [p \in Proc |-> 0]
        /\ late = {}
        /\ accepted = <<>>
        /\ delivered = <<>>
        /\ told = FALSE

(* The process starts an operation at the given select. *)
Enter(p, kind, label) == /\ pc' = [pc EXCEPT ![p] = label]
                         /\ op' = [op EXCEPT ![p] = kind]

Goto(p, label) == /\ pc' = [pc EXCEPT ![p] = label]
                  /\ UNCHANGED op

(* The operation of process p returns to its caller.  Its answer is not    *)
(* kept; told remembers the answer the properties are about.               *)
Return(p) == /\ pc' = [pc EXCEPT ![p] = "idle"]
             /\ op' = [op EXCEPT ![p] = "none"]

-----------------------------------------------------------------------------
(* send and offer *)

(* Mutation: the look at done that comes first is left out. *)
BeginSendUnchecked(p, kind) ==
  /\ pc[p] = "idle"
  /\ sent[p] < MaxSends[p]
  /\ sent' = [sent EXCEPT ![p] = @ + 1]
  /\ late' = IF closed THEN late \cup {<<p, sent[p] + 1>>} ELSE late
  /\ Enter(p, kind, kind)
  /\ UNCHANGED <<data, closed, accepted, delivered, told>>

(* The first select of send and offer: closed already, or go on. *)
BeginSend(p, kind) ==
  /\ pc[p] = "idle"
  /\ sent[p] < MaxSends[p]
  /\ sent' = [sent EXCEPT ![p] = @ + 1]
  /\ late' = IF closed THEN late \cup {<<p, sent[p] + 1>>} ELSE late
  /\ IF closed THEN Return(p) ELSE Enter(p, kind, kind)
  /\ UNCHANGED <<data, closed, accepted, delivered, told>>

(* case channel.data <- val, into a free slot of the buffer *)
SelectSend(p) ==
  /\ pc[p] \in SendOps
  /\ Len(data) < cap
  /\ data' = Append(data, Sending(p))
  /\ accepted' = Append(accepted, Sending(p))
  /\ Return(p)
  /\ UNCHANGED <<closed, sent, late, delivered, told>>

(* The same case with no buffer: the value goes to a receiver at a select, *)
(* one of the two being parked in a blocking select.                       *)
Rendezvous(p, q) ==
  /\ cap = 0
  /\ pc[p] \in SendOps
  /\ pc[q] \in AtReceive
  /\ pc[p] = "send" \/ pc[q] \in AtBlockingReceive
  /\ accepted' = Append(accepted, Sending(p))
  /\ delivered' = Append(delivered, Sending(p))
  /\ pc' = [pc EXCEPT ![p] = "idle", ![q] = "idle"]
  /\ op' = [op EXCEPT ![p] = "none", ![q] = "none"]
  /\ UNCHANGED <<data, closed, sent, late, told>>

(* Mutation: the second select has no case on done. *)
SelectSendDoneMissing(p) == FALSE /\ UNCHANGED <<data, closed, pc, op, sent, late, accepted,
                                              delivered, told>>

(* case <-channel.done of the second select *)
SelectSendDone(p) ==
  /\ pc[p] \in SendOps
  /\ closed
  /\ Return(p)
  /\ UNCHANGED <<data, closed, sent, late, accepted, delivered, told>>

(* default of offer: no free slot, and with no buffer no receiver that is  *)
(* parked already                                                          *)
OfferDefault(p) ==
  /\ pc[p] = "offer"
  /\ ~closed
  /\ Len(data) = cap
  /\ Return(p)
  /\ UNCHANGED <<data, closed, sent, late, accepted, delivered, told>>

-----------------------------------------------------------------------------
(* receive, receiveTimeout and poll *)

BeginReceive(p, kind) ==
  /\ pc[p] = "idle"
  /\ Enter(p, kind, IF kind = "receive" THEN "receive" ELSE "try")
  /\ UNCHANGED <<data, closed, sent, late, accepted, delivered, told>>

(* case value := <-channel.data *)
SelectReceive(p) ==
  /\ pc[p] \in AtReceive
  /\ data # <<>>
  /\ data' = Tail(data)
  /\ delivered' = Append(delivered, Head(data))
  /\ Return(p)
  /\ UNCHANGED <<closed, sent, late, accepted, told>>

(* default of the first select of receiveTimeout and poll *)
TryDefault(p) ==
  /\ pc[p] = "try"
  /\ data = <<>>
  /\ Goto(p, "checkDone")
  /\ UNCHANGED <<data, closed, sent, late, accepted, delivered, told>>

(* Mutation: no last look at data once done is seen. *)
SelectDoneNoDrain(p) ==
  /\ pc[p] \in AtBlockingReceive \cup {"checkDone"}
  /\ closed
  /\ Return(p)
  /\ told' = TRUE
  /\ UNCHANGED <<data, closed, sent, late, accepted, delivered>>

(* case <-channel.done, before the last look at data *)
SelectDone(p) ==
  /\ pc[p] \in AtBlockingReceive \cup {"checkDone"}
  /\ closed
  /\ Goto(p, "drain")
  /\ UNCHANGED <<data, closed, sent, late, accepted, delivered, told>>

(* Mutation: closed is reported without looking at data. *)
DrainDefaultEarly(p) ==
  /\ pc[p] = "drain"
  /\ Return(p)
  /\ told' = TRUE
  /\ UNCHANGED <<data, closed, sent, late, accepted, delivered>>

(* default of that last look: closed and drained *)
DrainDefault(p) ==
  /\ pc[p] = "drain"
  /\ data = <<>>
  /\ Return(p)
  /\ told' = TRUE
  /\ UNCHANGED <<data, closed, sent, late, accepted, delivered>>

(* default of the look at done: poll gives up, receiveTimeout starts its   *)
(* timer and waits                                                         *)
CheckDefault(p) ==
  /\ pc[p] = "checkDone"
  /\ ~closed
  /\ IF op[p] = "receiveTimeout" THEN Goto(p, "timed") ELSE Return(p)
  /\ UNCHANGED <<data, closed, sent, late, accepted, delivered, told>>

(* case <-timer.C: time is not modelled, the timer may fire at any moment *)
Timeout(p) ==
  /\ pc[p] = "timed"
  /\ Return(p)
  /\ UNCHANGED <<data, closed, sent, late, accepted, delivered, told>>

-----------------------------------------------------------------------------
(* close runs under channel.mu: a second close changes nothing *)
Close(p) ==
  /\ pc[p] = "idle"
  /\ closed' = TRUE
  /\ UNCHANGED <<pc, op>>
  /\ UNCHANGED <<data, sent, late, accepted, delivered, told>>

-----------------------------------------------------------------------------
(* What a process does once it has begun an operation. *)
Step(p) == \/ SelectSend(p)
           \/ \E q \in Proc : Rendezvous(p, q)
           \/ SelectSendDone(p)
           \/ OfferDefault(p)
           \/ SelectReceive(p)
           \/ TryDefault(p)
           \/ SelectDone(p)
           \/ DrainDefault(p)
           \/ CheckDefault(p)
           \/ Timeout(p)

Begin(p) == \/ \E kind \in SendOps : BeginSend(p, kind)
            \/ \E kind \in RecvOps : BeginReceive(p, kind)
            \/ Close(p)

Next == /\ \E p \in Proc : Begin(p) \/ Step(p)
        /\ cap' = cap

Spec == Init /\ [][Next]_vars

(* The Go scheduler runs every goroutine that can run; nothing forces a    *)
(* caller to start an operation.                                           *)
Fairness == \A p \in Proc : WF_vars(Step(p) /\ cap' = cap)
-----------------------------------------------------------------------------
(* A send or offer that begins after close is never accepted, though the   *)
(* second select may pick data when done is ready as well: the select on   *)
(* done alone that comes first is what refuses it.                         *)
LateSendRefused ==
  \A i \in 1..Len(accepted) : accepted[i] \notin late

(* close releases every process blocked in the channel.                    *)
CloseReleasesAll ==
  \A p \in Proc : (closed /\ pc[p] # "idle") ~> (pc[p] = "idle")

(* The bounded channel is a ClosableQueue in which a send that raced with  *)
(* close may still be accepted.                                            *)
Queue == INSTANCE ClosableQueue WITH LateAccept <- TRUE
ImplementsClosableQueue == Queue!Spec
=============================================================================
