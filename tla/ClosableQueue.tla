--------------------------- MODULE ClosableQueue ---------------------------
(***************************************************************************)
(* What a lamconcurrency Channel promises its callers, whatever the        *)
(* implementation behind it: a FIFO queue that is closed at most once,     *)
(* that keeps the values accepted before for later receivers, and that     *)
(* answers "closed and drained" only when that is the case.                *)
(*                                                                         *)
(* accepted  the values the queue took, in the order it took them          *)
(* delivered the values it handed out, in the order it did                 *)
(* told      some receiver was answered "closed and drained"               *)
(***************************************************************************)
EXTENDS Naturals, Sequences

CONSTANTS Value,       \* the values that may be sent
          LateAccept   \* TRUE: a send that raced with close may still win

VARIABLES accepted, delivered, closed, told

vars == <<accepted, delivered, closed, told>>

Init == /\ accepted = <<>>
        /\ delivered = <<>>
        /\ closed = FALSE
        /\ told = FALSE

Open == closed => LateAccept

Pending == Len(accepted) - Len(delivered)

(* A value is queued. *)
Put(v) == /\ Open
          /\ accepted' = Append(accepted, v)
          /\ UNCHANGED <<delivered, closed, told>>

(* The oldest queued value is handed to a receiver. *)
Get == /\ Pending > 0
       /\ delivered' = Append(delivered, accepted[Len(delivered) + 1])
       /\ UNCHANGED <<accepted, closed, told>>

(* A rendezvous: the value goes from the sender straight to the receiver. *)
Handoff(v) == /\ Open
              /\ Pending = 0
              /\ accepted' = Append(accepted, v)
              /\ delivered' = Append(delivered, v)
              /\ UNCHANGED <<closed, told>>

Close == /\ ~closed
         /\ closed' = TRUE
         /\ UNCHANGED <<accepted, delivered, told>>

(* A receiver learns that the queue is closed and drained. *)
AnswerDrained == /\ closed
                 /\ Pending = 0
                 /\ told' = TRUE
                 /\ UNCHANGED <<accepted, delivered, closed>>

Next == \/ \E v \in Value : Put(v) \/ Handoff(v)
        \/ Get
        \/ Close
        \/ AnswerDrained

Spec == Init /\ [][Next]_vars
=============================================================================
