---------------------------- MODULE ActorSystem ----------------------------
(***************************************************************************)
(* Class ActorSystem of lamactor.lam: a registry of actors under a mutex,  *)
(* one goroutine per actor that takes messages from a bounded mailbox (a   *)
(* lamconcurrency Channel), and the calls spawn, tell, ask, stop and       *)
(* shutdown, made by client goroutines and by the actors' own handlers.    *)
(*                                                                         *)
(* A section under registry.mu is one step.  Between two such sections the *)
(* call works on an entry it looked up before, which may have stopped or   *)
(* left the registry meanwhile.                                            *)
(***************************************************************************)
EXTENDS Naturals, Sequences, FiniteSets

CONSTANTS Client,      \* goroutines outside the system
          MaxActors,   \* bound on the actors ever spawned
          Name,        \* names given to spawnNamed
          NoName,      \* spawn without a name
          Capacity,    \* of a mailbox (64 in the code)
          MaxMsgs,     \* bound on the messages, for each goroutine
          Patience     \* {"timed"}, or with "forever": shutdown(timeoutMs <= 0)

ASSUME ActorAssumption == /\ MaxActors \in Nat
                          /\ Capacity \in Nat \ {0}
                          /\ MaxMsgs \in [Client \cup (1..MaxActors) -> Nat]
                          /\ NoName \notin Name
                          /\ Client \cap (0..MaxActors) = {}

VARIABLES registered,  \* reg.actors
          named,       \* reg.named, 0 where a name is not bound
          nextId,      \* reg.nextId: actors 1..nextId were spawned
          label,       \* entry.name
          stopped,     \* entry.stopped: 0 live, 1 being stopped, 2 failed
          closed,      \* the mailbox is closed
          accepted,    \* the messages the mailbox accepted, in order
          taken,       \* how many of them the loop has taken
          late,        \* history: those accepted when already closed
          loop,        \* where the loop of each actor is
          replies,     \* what was offered to the reply channels
          pc, dst,     \* the call each goroutine is in, and on which actor
          kind,        \* "tell" or "ask"; "timed" or "forever"
          sent,        \* messages sent by each goroutine
          snapshot,    \* the actors a shutdown works on
          ret          \* what the last call of each goroutine returned

registryVars == <<registered, named, nextId, label>>
actorVars == <<stopped, closed, taken, loop, replies>>
mailVars == <<accepted, late>>
callVars == <<pc, dst, kind, sent, snapshot, ret>>
vars == <<registryVars, actorVars, mailVars, callVars>>

Actor == 1..MaxActors
Thread == Client \cup Actor
Message == Thread \X Nat \X {"tell", "ask"}
Spawned == 1..nextId

(* The message a goroutine is sending or waiting for an answer to. *)
Current(t) == <<t, sent[t], kind[t]>>
(* The values in the buffer of the mailbox. *)
Waiting(e) == Len(accepted[e]) - taken[e]
(* The message the loop is handling. *)
InHand(e) == accepted[e][taken[e]]
(* The loop offers an answer to the reply channel of the message in hand,  *)
(* which an ask brings along and a tell does not.                          *)
Reply(e, how) ==
  replies' = IF InHand(e)[3] = "ask" THEN replies \cup {<<InHand(e), how>>}
                                     ELSE replies

Init == /\ registered = {}
        /\ named = [n \in Name |-> 0]
        /\ nextId = 0
        /\ label = [e \in Actor |-> NoName]
        /\ stopped = [e \in Actor |-> 0]
        /\ closed = [e \in Actor |-> FALSE]
        /\ accepted = [e \in Actor |-> <<>>]
        /\ taken = [e \in Actor |-> 0]
        /\ late = {}
        /\ loop = [e \in Actor |-> "unborn"]
        /\ replies = {}
        /\ pc = [t \in Thread |-> "idle"]
        /\ dst = [t \in Thread |-> 0]
        /\ kind = [t \in Thread |-> "none"]
        /\ sent = [t \in Thread |-> 0]
        /\ snapshot = [t \in Thread |-> {}]
        /\ ret = [t \in Thread |-> "none"]

(* A goroutine may start a call: a client between two calls, an actor      *)
(* while its handler runs.                                                 *)
MayCall(t) == /\ pc[t] = "idle"
              /\ t \in Actor => loop[t] = "handle"

(* The call of t goes on at the given step, on the given actor. *)
Enter(t, step, e, k) == /\ pc' = [pc EXCEPT ![t] = step]
                        /\ dst' = [dst EXCEPT ![t] = e]
                        /\ kind' = [kind EXCEPT ![t] = k]
                        /\ ret' = [ret EXCEPT ![t] = "none"]

Goto(t, step) == /\ pc' = [pc EXCEPT ![t] = step]
                 /\ UNCHANGED <<dst, kind, ret>>

Return(t, answer) == /\ pc' = [pc EXCEPT ![t] = "idle"]
                     /\ dst' = [dst EXCEPT ![t] = 0]
                     /\ kind' = [kind EXCEPT ![t] = "none"]
                     /\ ret' = [ret EXCEPT ![t] = answer]

-----------------------------------------------------------------------------
(* spawn and spawnNamed: register, bind the name, start the loop.          *)
Spawn(t, n) ==
  /\ MayCall(t)
  /\ nextId < MaxActors
  /\ LET e == nextId + 1 IN
     /\ nextId' = e
     /\ registered' = registered \cup {e}
     /\ label' = [label EXCEPT ![e] = n]
     /\ named' = IF n = NoName THEN named ELSE [named EXCEPT ![n] = e]
     /\ loop' = [loop EXCEPT ![e] = "start"]
  /\ UNCHANGED <<stopped, closed, taken, replies, mailVars, callVars>>

-----------------------------------------------------------------------------
(* tell and ask *)

(* Lookup of the entry, under the mutex. *)
Send(t, e, k) ==
  /\ MayCall(t)
  /\ e \in Spawned
  /\ sent[t] < MaxMsgs[t]
  /\ sent' = [sent EXCEPT ![t] = @ + 1]
  /\ IF e \in registered THEN Enter(t, "checkStopped", e, k)
                         ELSE Return(t, "stopped")
  /\ UNCHANGED <<registryVars, actorVars, mailVars, snapshot>>

(* entry.stopped.Get(), after the mutex is released. *)
CheckStopped(t) ==
  /\ pc[t] = "checkStopped"
  /\ IF stopped[dst[t]] = 0 THEN Goto(t, "offer") ELSE Return(t, "stopped")
  /\ UNCHANGED <<registryVars, actorVars, mailVars, sent, snapshot>>

(* The first select of mailbox.Offer. *)
OfferCheck(t) ==
  /\ pc[t] = "offer"
  /\ IF closed[dst[t]] THEN Return(t, "stopped") ELSE Goto(t, "select")
  /\ UNCHANGED <<registryVars, actorVars, mailVars, sent, snapshot>>

(* The second: there is room, and the message is queued even if the        *)
(* mailbox was closed since.  tell returns, ask waits for its reply.       *)
OfferAccept(t) ==
  /\ pc[t] = "select"
  /\ LET e == dst[t] IN
     /\ Waiting(e) < Capacity
     /\ accepted' = [accepted EXCEPT ![e] = Append(@, Current(t))]
     /\ late' = IF closed[e] THEN late \cup {Current(t)} ELSE late
  /\ IF kind[t] = "tell" THEN Return(t, "ok") ELSE Goto(t, "awaitReply")
  /\ UNCHANGED <<registryVars, actorVars, sent, snapshot>>

(* The second select refuses: the mailbox is closed by now, or full (which *)
(* ask reports as a timeout).                                              *)
OfferRefuse(t) ==
  /\ pc[t] = "select"
  /\ \/ closed[dst[t]] /\ Return(t, "stopped")
     \/ /\ ~closed[dst[t]]
        /\ Waiting(dst[t]) = Capacity
        /\ Return(t, IF kind[t] = "tell" THEN "full" ELSE "timeout")
  /\ UNCHANGED <<registryVars, actorVars, mailVars, sent, snapshot>>

(* reply.ReceiveTimeout(timeoutMs): the reply, or the timer. *)
AwaitReply(t) ==
  /\ pc[t] = "awaitReply"
  /\ \/ \E r \in replies : r[1] = Current(t) /\ Return(t, "ok")
     \/ Return(t, "timeout")
  /\ UNCHANGED <<registryVars, actorVars, mailVars, sent, snapshot>>

-----------------------------------------------------------------------------
(* stop and shutdown *)

SignalOnly(S) ==            \* mutation: the mailbox stays open
  /\ stopped' = [e \in Actor |-> IF e \in S /\ stopped[e] = 0 THEN 1 ELSE stopped[e]]
  /\ UNCHANGED closed

(* lamActorSignalStop: whoever moves stopped from 0 closes the mailbox.    *)
Signal(S) ==
  LET live == {e \in S : stopped[e] = 0} IN
  /\ stopped' = [e \in Actor |-> IF e \in live THEN 1 ELSE stopped[e]]
  /\ closed' = [e \in Actor |-> closed[e] \/ e \in live]

(* lamActorWait: the loops of S have exited, or the timer fires. *)
WaitUntimed(t, S) ==        \* mutation: no timer
  \A e \in S : loop[e] = "done"

WaitOver(t, S) ==
  \/ \A e \in S : loop[e] = "done"
  \/ kind[t] = "timed"

(* delete(reg.named, entry.name), if the name was not bound again.         *)
UnbindAlways(e) ==          \* mutation: whoever has the name loses it
  named' = [n \in Name |-> IF n = label[e] THEN 0 ELSE named[n]]

UnbindNever(e) ==           \* mutation: the name is left behind
  named' = named

Unbind(e) ==
  named' = [n \in Name |-> IF n = label[e] /\ named[n] = e THEN 0 ELSE named[n]]

(* The entries a shutdown forgets in the end: those that are stopping or   *)
(* stopped by then, in the snapshot or not.                                *)
ForgetsAll == registered    \* mutation: the registry is cleared

Forgets == {e \in registered : stopped[e] # 0}

(* Lookup of the entry, under the mutex. *)
Stop(t, e) ==
  /\ MayCall(t)
  /\ e \in Spawned
  /\ IF e \in registered THEN Enter(t, "stopSignal", e, "timed")
                         ELSE Return(t, "none")
  /\ UNCHANGED <<registryVars, actorVars, mailVars, sent, snapshot>>

StopSignal(t) ==
  /\ pc[t] = "stopSignal"
  /\ Signal({dst[t]})
  /\ Goto(t, "stopWait")
  /\ UNCHANGED <<registryVars, taken, loop, replies, mailVars, sent, snapshot>>

(* The loop has exited, or the 5 s are over: the entry leaves the registry *)
(* and so does its name, if the name was not bound again meanwhile.        *)
StopFinish(t) ==
  /\ pc[t] = "stopWait"
  /\ WaitOver(t, {dst[t]})
  /\ registered' = registered \ {dst[t]}
  /\ Unbind(dst[t])
  /\ Return(t, "none")
  /\ UNCHANGED <<nextId, label, actorVars, mailVars, sent, snapshot>>

(* shutdown takes a snapshot of the registry under the mutex. *)
Shutdown(t, patience) ==
  /\ MayCall(t)
  /\ Enter(t, "shutSignal", 0, patience)
  /\ snapshot' = [snapshot EXCEPT ![t] = registered]
  /\ UNCHANGED <<registryVars, actorVars, mailVars, sent>>

(* It then signals the actors of the snapshot one after the other. *)
ShutdownSignal(t) ==
  /\ pc[t] = "shutSignal"
  /\ \E e \in snapshot[t] :
       /\ stopped[e] = 0
       /\ Signal({e})
  /\ UNCHANGED <<registryVars, taken, loop, replies, mailVars, callVars>>

ShutdownSignalled(t) ==
  /\ pc[t] = "shutSignal"
  /\ \A e \in snapshot[t] : stopped[e] # 0
  /\ Goto(t, "shutWait")
  /\ UNCHANGED <<registryVars, actorVars, mailVars, sent, snapshot>>

(* All the snapshot's loops have exited, or the time is over.  Every entry *)
(* that is stopping or stopped by now leaves the registry; one spawned     *)
(* since the snapshot stays.                                               *)
ShutdownFinish(t) ==
  /\ pc[t] = "shutWait"
  /\ WaitOver(t, snapshot[t])
  /\ registered' = registered \ Forgets
  /\ named' = [n \in Name |-> IF named[n] \in Forgets THEN 0 ELSE named[n]]
  /\ Return(t, "none")
  /\ snapshot' = [snapshot EXCEPT ![t] = {}]
  /\ UNCHANGED <<nextId, label, actorVars, mailVars, sent>>
-----------------------------------------------------------------------------
(* lamActorLoop *)

(* onStart has returned. *)
Started(e) ==
  /\ loop[e] = "start"
  /\ loop' = [loop EXCEPT ![e] = "receive"]
  /\ UNCHANGED <<registryVars, stopped, closed, taken, replies, mailVars, callVars>>

(* mailbox.Receive() returns a message; onMessage is running from here on. *)
Take(e) ==
  /\ loop[e] = "receive"
  /\ Waiting(e) > 0
  /\ taken' = [taken EXCEPT ![e] = @ + 1]
  /\ loop' = [loop EXCEPT ![e] = "handle"]
  /\ UNCHANGED <<registryVars, stopped, closed, replies, mailVars, callVars>>

DrainedEarly(e) ==          \* mutation: closed is enough to leave
  /\ loop[e] = "receive"
  /\ closed[e]
  /\ loop' = [loop EXCEPT ![e] = "onStop"]
  /\ UNCHANGED <<registryVars, stopped, closed, taken, replies, mailVars, callVars>>

(* mailbox.Receive() fails: closed and drained.  onStop runs. *)
Drained(e) ==
  /\ loop[e] = "receive"
  /\ closed[e]
  /\ Waiting(e) = 0
  /\ loop' = [loop EXCEPT ![e] = "onStop"]
  /\ UNCHANGED <<registryVars, stopped, closed, taken, replies, mailVars, callVars>>

(* onMessage returned, or panicked and onError said to keep going; the     *)
(* reply is offered to the caller's channel.                               *)
Handled(e) ==
  /\ loop[e] = "handle"
  /\ pc[e] = "idle"
  /\ loop' = [loop EXCEPT ![e] = "receive"]
  /\ Reply(e, "returned")
  /\ UNCHANGED <<registryVars, stopped, closed, taken, mailVars, callVars>>

(* onMessage panicked and nobody kept the actor going: stopped becomes 2   *)
(* and the mailbox is closed, whatever is still queued in it.              *)
Panicked(e) ==
  /\ loop[e] = "handle"
  /\ pc[e] = "idle"
  /\ stopped' = [stopped EXCEPT ![e] = 2]
  /\ closed' = [closed EXCEPT ![e] = TRUE]
  /\ loop' = [loop EXCEPT ![e] = "panicked"]
  /\ UNCHANGED <<registryVars, taken, replies, mailVars, callVars>>

(* The pending ask is answered with None before the loop leaves. *)
PanicReply(e) ==
  /\ loop[e] = "panicked"
  /\ Reply(e, "panicked")
  /\ loop' = [loop EXCEPT ![e] = "onStop"]
  /\ UNCHANGED <<registryVars, stopped, closed, taken, mailVars, callVars>>

(* onStop has returned: entry.completion.Done() *)
Exit(e) ==
  /\ loop[e] = "onStop"
  /\ loop' = [loop EXCEPT ![e] = "done"]
  /\ UNCHANGED <<registryVars, stopped, closed, taken, replies, mailVars, callVars>>
-----------------------------------------------------------------------------
Call(t) == \/ \E n \in Name \cup {NoName} : Spawn(t, n)
           \/ \E e \in Actor, k \in {"tell", "ask"} : Send(t, e, k)
           \/ \E e \in Actor : Stop(t, e)
           \/ \E patience \in Patience : Shutdown(t, patience)

Continue(t) == \/ CheckStopped(t) \/ OfferCheck(t)
               \/ OfferAccept(t) \/ OfferRefuse(t) \/ AwaitReply(t)
               \/ StopSignal(t) \/ StopFinish(t)
               \/ ShutdownSignal(t) \/ ShutdownSignalled(t) \/ ShutdownFinish(t)

Loop(e) == \/ Started(e) \/ Take(e) \/ Drained(e)
           \/ Handled(e) \/ Panicked(e) \/ PanicReply(e) \/ Exit(e)

Next == \/ \E t \in Thread : Call(t) \/ Continue(t)
        \/ \E e \in Actor : Loop(e)

Spec == Init /\ [][Next]_vars

(* The Go scheduler runs what can run and timers fire; a handler does not  *)
(* make calls forever, but returns or panics in the end.                   *)
FairSpec == /\ Spec
            /\ \A t \in Thread : WF_vars(Continue(t))
            /\ \A e \in Actor : /\ WF_vars(Loop(e))
                               /\ SF_vars(Handled(e) \/ Panicked(e))
-----------------------------------------------------------------------------
(* An actor that was stopped, and did not fail, has handled every message  *)
(* its mailbox accepted before it was closed by the time onStop runs.      *)
OrderlyStopDrains ==
  \A e \in Actor :
    loop[e] \in {"onStop", "done"} /\ stopped[e] = 1
      => \A i \in taken[e] + 1 .. Len(accepted[e]) : accepted[e][i] \in late

(* A name is bound to a registered actor of that name, or to nothing, so   *)
(* that find never leads to an actor the registry has forgotten.           *)
BindingsRegistered ==
  \A n \in Name : named[n] # 0 => named[n] \in registered /\ label[named[n]] = n

(* Only actors that were told to stop, or failed, leave the registry: one  *)
(* spawned while a shutdown is under way is not forgotten alive.           *)
LiveAreRegistered ==
  \A e \in Spawned \ registered : stopped[e] # 0

(* The name of a live actor may be bound to another actor but is never     *)
(* lost, in particular not when an older actor of that name is stopped.    *)
LiveBindingKept ==
  [][\A n \in Name : named[n] # 0 /\ named'[n] = 0 => stopped[named[n]] # 0]_vars

(* Every call returns, when every wait of a shutdown is timed: also the    *)
(* stop or shutdown that a handler makes on its own actor.                 *)
CallsReturn == \A t \in Thread : (pc[t] # "idle") ~> (pc[t] = "idle")

(* An actor told to stop runs onStop and exits. *)
StoppedActorsExit ==
  \A e \in Actor : (stopped[e] # 0) ~> (loop[e] = "done")

(* Doc of ask: a stopped actor is told apart from a handler that returned  *)
(* None.  An ask that succeeds was answered by a handler that returned.    *)
AskOkMeansReturned ==
  [][\A t \in Thread :
       pc[t] = "awaitReply" /\ pc'[t] = "idle" /\ ret'[t] = "ok"
         => <<Current(t), "returned">> \in replies]_vars
=============================================================================
