------------------------- MODULE ActorSystemProofs --------------------------
(***************************************************************************)
(* Safety of the actor system, for any number of client goroutines and     *)
(* actors, any capacity of the mailboxes and any bound on the messages.    *)
(***************************************************************************)
EXTENDS ActorSystem, SequenceTheorems, TLAPS

(* The registry: names lead to spawned actors. *)
RegistryOK == /\ nextId \in 0..MaxActors
              /\ registered \subseteq Spawned
              /\ named \in [Name -> 0..nextId]
              /\ label \in [Actor -> Name \cup {NoName}]

(* The calls in progress. *)
Sending == {"checkStopped", "offer", "select", "awaitReply"}
Stopping == {"stopSignal", "stopWait"}
Shutting == {"shutSignal", "shutWait"}

CallsOK ==
  /\ pc \in [Thread -> {"idle"} \cup Sending \cup Stopping \cup Shutting]
  /\ dst \in [Thread -> 0..nextId]
  /\ kind \in [Thread -> {"none", "tell", "ask", "timed"} \cup Patience]
  /\ sent \in [Thread -> Nat]
  /\ snapshot \in [Thread -> SUBSET Spawned]
  /\ \A t \in Thread : pc[t] \in Sending => dst[t] \in Spawned /\ kind[t] \in {"tell", "ask"}
  /\ \A t \in Thread : pc[t] \in Stopping => dst[t] \in Spawned

(* A mailbox is closed by whoever stops the actor, a goroutine or a        *)
(* handler that panicked, and its loop leaves only then.                   *)
Loops == {"unborn", "start", "receive", "handle", "panicked", "onStop", "done"}

StopsOK ==
  /\ stopped \in [Actor -> {0, 1, 2}]
  /\ closed \in [Actor -> BOOLEAN]
  /\ loop \in [Actor -> Loops]
  /\ \A e \in Actor : closed[e] <=> stopped[e] # 0
  /\ \A e \in Actor : loop[e] = "panicked" => stopped[e] = 2
  /\ \A e \in Actor : loop[e] \in {"onStop", "done"} => stopped[e] # 0

(* Whoever waits for an actor to exit, to take it off the registry, has    *)
(* signalled it before.                                                    *)
WaitsOK == \A t \in Thread : pc[t] = "stopWait" => stopped[dst[t]] # 0

MailOK ==
  /\ accepted \in [Actor -> Seq(Message)]
  /\ taken \in [Actor -> Nat]
  /\ \A e \in Actor : taken[e] <= Len(accepted[e])

-----------------------------------------------------------------------------
(* What a step does to each part of the state. *)

LEMMA RegistrySteps ==
  ASSUME [Next]_vars
  PROVE  \/ UNCHANGED registryVars
         \/ \E t \in Thread, n \in Name \cup {NoName} : Spawn(t, n)
         \/ \E t \in Thread : StopFinish(t) \/ ShutdownFinish(t)
BY DEF Next, vars, Call, Continue, Loop, registryVars, Send, Stop, Shutdown, CheckStopped,
       OfferCheck, OfferAccept, OfferRefuse, AwaitReply, StopSignal, ShutdownSignal,
       ShutdownSignalled, Started, Take, Drained, Handled, Panicked, PanicReply, Exit

LEMMA StopSteps ==
  ASSUME [Next]_vars
  PROVE  \/ UNCHANGED <<stopped, closed, loop>>
         \/ \E t \in Thread, n \in Name \cup {NoName} : Spawn(t, n)
         \/ \E t \in Thread : StopSignal(t) \/ ShutdownSignal(t)
         \/ \E e \in Actor : Loop(e)
BY DEF Next, vars, Call, Continue, actorVars, Send, Stop, Shutdown, CheckStopped,
       OfferCheck, OfferAccept, OfferRefuse, AwaitReply, StopFinish,
       ShutdownSignalled, ShutdownFinish

LEMMA MailSteps ==
  ASSUME [Next]_vars
  PROVE  \/ UNCHANGED <<accepted, taken, late>>
         \/ \E t \in Thread : OfferAccept(t)
         \/ \E e \in Actor : Take(e)
BY DEF Next, vars, Call, Continue, Loop, actorVars, mailVars, Spawn, Send, Stop, Shutdown,
       CheckStopped, OfferCheck, OfferRefuse, AwaitReply, StopSignal, StopFinish, ShutdownSignal,
       ShutdownSignalled, ShutdownFinish, Started, Drained, Handled, Panicked, PanicReply, Exit
-----------------------------------------------------------------------------
LEMMA RegistryInit == Init => RegistryOK /\ CallsOK /\ StopsOK /\ WaitsOK /\ MailOK
BY ActorAssumption DEF Init, RegistryOK, CallsOK, StopsOK, WaitsOK, MailOK, Sending, Stopping,
                       Shutting, Loops, Spawned

(* Actors stay spawned. *)
LEMMA RegistryNext ==
  ASSUME RegistryOK, CallsOK, [Next]_vars
  PROVE  RegistryOK' /\ Spawned \subseteq Spawned'
<1>1. CASE UNCHANGED registryVars
  BY <1>1 DEF registryVars, RegistryOK, Spawned
<1>2. ASSUME NEW t \in Thread, NEW n \in Name \cup {NoName}, Spawn(t, n)
      PROVE  RegistryOK' /\ Spawned \subseteq Spawned'
  BY <1>2, ActorAssumption DEF Spawn, RegistryOK, Spawned, Actor
<1>3. ASSUME NEW t \in Thread, StopFinish(t) \/ ShutdownFinish(t)
      PROVE  RegistryOK' /\ Spawned \subseteq Spawned'
  <2>1. UNCHANGED <<nextId, label>> /\ registered' \subseteq registered
    BY <1>3 DEF StopFinish, ShutdownFinish
  <2>2. named' \in [Name -> 0..nextId]
    BY <1>3, ActorAssumption DEF StopFinish, Unbind, ShutdownFinish, RegistryOK
  <2>3. QED BY <2>1, <2>2 DEF RegistryOK, Spawned
<1>4. QED BY <1>1, <1>2, <1>3, RegistrySteps

(* A call goes on with its next step, or returns. *)
LEMMA GotoKeepsCalls ==
  ASSUME CallsOK, NEW t \in Thread, NEW step, Goto(t, step), UNCHANGED <<nextId, sent, snapshot>>,
         \/ pc[t] \in Sending /\ step \in Sending
         \/ pc[t] \in Stopping /\ step \in Stopping
         \/ step \in Shutting
  PROVE  CallsOK'
<1>1. pc' = [pc EXCEPT ![t] = step] /\ UNCHANGED <<dst, kind>>
  BY DEF Goto
<1>2. UNCHANGED Spawned
  BY DEF Spawned
<1>3. QED BY <1>1, <1>2 DEF CallsOK, Sending, Stopping, Shutting

LEMMA ReturnKeepsCalls ==
  ASSUME RegistryOK, CallsOK, NEW t \in Thread, NEW answer, Return(t, answer),
         nextId' = nextId, sent' \in [Thread -> Nat], snapshot' \in [Thread -> SUBSET Spawned]
  PROVE  CallsOK'
<1>1. /\ pc' = [pc EXCEPT ![t] = "idle"]
      /\ dst' = [dst EXCEPT ![t] = 0]
      /\ kind' = [kind EXCEPT ![t] = "none"]
  BY DEF Return
<1>2. UNCHANGED Spawned /\ 0 \in 0..nextId
  BY ActorAssumption DEF Spawned, RegistryOK
<1>3. QED BY <1>1, <1>2 DEF CallsOK, Sending, Stopping, Shutting

LEMMA CallsNext ==
  ASSUME RegistryOK, CallsOK, [Next]_vars
  PROVE  CallsOK'
<1>1. nextId \in Nat /\ nextId' \in Nat /\ nextId <= nextId' /\ registered \subseteq Spawned
      /\ Spawned \subseteq Spawned'
  BY RegistryNext, ActorAssumption DEF RegistryOK, Spawned
<1>2. CASE UNCHANGED callVars
  BY <1>1, <1>2 DEF callVars, CallsOK, Spawned
<1>3. ASSUME NEW t \in Thread, Call(t) \/ Continue(t)
      PROVE  CallsOK'
  <2>1. ASSUME NEW n \in Name \cup {NoName}, Spawn(t, n) PROVE CallsOK'
    BY <1>2, <2>1 DEF Spawn
  <2>2. ASSUME NEW e \in Actor, NEW k \in {"tell", "ask"}, Send(t, e, k) PROVE CallsOK'
    BY <1>1, <2>2 DEF Send, Enter, Return, CallsOK, Sending, Stopping, Shutting, Spawned
  <2>3. ASSUME NEW e \in Actor, Stop(t, e) PROVE CallsOK'
    BY <1>1, <2>3 DEF Stop, Enter, Return, CallsOK, Sending, Stopping, Shutting, Spawned
  <2>4. ASSUME NEW patience \in Patience, Shutdown(t, patience) PROVE CallsOK'
    BY <1>1, <2>4 DEF Shutdown, Enter, CallsOK, Sending, Stopping, Shutting, Spawned
  <2>5. CASE CheckStopped(t) \/ OfferCheck(t) \/ OfferAccept(t) \/ OfferRefuse(t) \/ AwaitReply(t)
    <3>1. /\ pc[t] \in Sending /\ UNCHANGED <<nextId, sent, snapshot>>
          /\ (\E step \in Sending : Goto(t, step)) \/ (\E answer : Return(t, answer))
      BY <2>5 DEF CheckStopped, OfferCheck, OfferAccept, OfferRefuse, AwaitReply, Sending, registryVars
    <3>2. QED BY <3>1, GotoKeepsCalls, ReturnKeepsCalls DEF CallsOK
  <2>6. CASE StopSignal(t) \/ StopFinish(t) \/ ShutdownSignalled(t) \/ ShutdownFinish(t)
    <3>1. CASE StopSignal(t) \/ ShutdownSignalled(t)
      <4>1. /\ UNCHANGED <<nextId, sent, snapshot>>
            /\ \/ pc[t] \in Stopping /\ Goto(t, "stopWait")
               \/ Goto(t, "shutWait")
        BY <3>1 DEF StopSignal, ShutdownSignalled, Stopping, registryVars
      <4>2. QED BY <4>1, GotoKeepsCalls DEF Stopping, Shutting
    <3>2. CASE StopFinish(t) \/ ShutdownFinish(t)
      <4>1. /\ nextId' = nextId /\ sent' = sent /\ Return(t, "none")
            /\ snapshot' \in {snapshot, [snapshot EXCEPT ![t] = {}]}
        BY <3>2 DEF StopFinish, ShutdownFinish
      <4>2. QED BY <4>1, ReturnKeepsCalls DEF CallsOK
    <3>3. QED BY <2>6, <3>1, <3>2
  <2>7. CASE ShutdownSignal(t)
    BY <1>2, <2>7 DEF ShutdownSignal
  <2>8. QED BY <1>3, <2>1, <2>2, <2>3, <2>4, <2>5, <2>6, <2>7 DEF Call, Continue
<1>4. ASSUME NEW e \in Actor, Loop(e) PROVE CallsOK'
  BY <1>2, <1>4 DEF Loop, Started, Take, Drained, Handled, Panicked, PanicReply, Exit
<1>5. QED BY <1>2, <1>3, <1>4 DEF Next, vars

LEMMA StopsNext ==
  ASSUME StopsOK, [Next]_vars
  PROVE  StopsOK' /\ \A e \in Actor : stopped[e] # 0 => stopped'[e] # 0
<1>1. CASE UNCHANGED <<stopped, closed, loop>>
  BY <1>1 DEF StopsOK
<1>2. ASSUME NEW t \in Thread, NEW n \in Name \cup {NoName}, Spawn(t, n)
      PROVE  StopsOK' /\ UNCHANGED stopped
  BY <1>2 DEF Spawn, StopsOK, Loops
<1>3. ASSUME NEW S, Signal(S), UNCHANGED loop
      PROVE  StopsOK' /\ \A e \in Actor : stopped[e] # 0 => stopped'[e] # 0
  <2>1. \A e \in Actor :
          /\ stopped'[e] = IF e \in S /\ stopped[e] = 0 THEN 1 ELSE stopped[e]
          /\ closed'[e] <=> closed[e] \/ (e \in S /\ stopped[e] = 0)
    BY <1>3 DEF Signal
  <2>2. closed' \in [Actor -> BOOLEAN] /\ stopped' \in [Actor -> {0, 1, 2}]
    BY <1>3 DEF Signal, StopsOK
  <2>3. \A e \in Actor : closed[e] <=> stopped[e] # 0
    BY DEF StopsOK
  <2>4. \A e \in Actor : closed'[e] <=> stopped'[e] # 0
    BY <2>1, <2>3
  <2>5. QED BY <1>3, <2>1, <2>2, <2>4 DEF StopsOK
<1>4. ASSUME NEW t \in Thread, StopSignal(t) \/ ShutdownSignal(t)
      PROVE  UNCHANGED loop /\ \E S : Signal(S)
  BY <1>4 DEF StopSignal, ShutdownSignal
<1>5. ASSUME NEW e \in Actor, Loop(e)
      PROVE  StopsOK' /\ \A i \in Actor : stopped[i] # 0 => stopped'[i] # 0
  <2>1. CASE Panicked(e)
    BY <2>1 DEF Panicked, StopsOK, Loops
  <2>2. CASE Started(e) \/ Take(e) \/ Drained(e) \/ Handled(e) \/ PanicReply(e) \/ Exit(e)
    BY <2>2 DEF Started, Take, Drained, Handled, PanicReply, Exit, StopsOK, Loops
  <2>3. QED BY <1>5, <2>1, <2>2 DEF Loop
<1>6. QED BY <1>1, <1>2, <1>3, <1>4, <1>5, StopSteps

(* What the call of t does is of no concern to the other calls. *)
LEMMA OneCall ==
  ASSUME NEW t \in Thread, Call(t) \/ Continue(t), NEW u \in Thread, u # t, CallsOK
  PROVE  pc'[u] = pc[u] /\ dst'[u] = dst[u]
<1>1. \/ UNCHANGED <<pc, dst>>
      \/ \E step, e, k : Enter(t, step, e, k)
      \/ \E step : Goto(t, step)
      \/ \E answer : Return(t, answer)
  BY DEF Call, Continue, callVars, Spawn, Send, Stop, Shutdown, CheckStopped, OfferCheck,
         OfferAccept, OfferRefuse, AwaitReply, StopSignal, StopFinish, ShutdownSignal,
         ShutdownSignalled, ShutdownFinish
<1>2. QED BY <1>1 DEF Enter, Goto, Return, CallsOK

LEMMA WaitsNext ==
  ASSUME RegistryOK, CallsOK, StopsOK, WaitsOK, [Next]_vars
  PROVE  WaitsOK'
<1> SUFFICES ASSUME NEW t \in Thread, pc'[t] = "stopWait" PROVE stopped'[dst'[t]] # 0
  BY DEF WaitsOK
<1>1. \A e \in Actor : stopped[e] # 0 => stopped'[e] # 0
  BY StopsNext
<1>2. pc[t] \in Stopping => dst[t] \in Actor
  BY ActorAssumption DEF CallsOK, RegistryOK, Spawned, Actor
<1>3. CASE pc[t] = "stopWait" /\ dst'[t] = dst[t]
  BY <1>1, <1>2, <1>3 DEF WaitsOK, Stopping
<1>4. CASE StopSignal(t)
  BY <1>2, <1>4 DEF StopSignal, Signal, Goto, Stopping
<1>5. CASE UNCHANGED callVars
  BY <1>3, <1>5 DEF callVars
<1>6. ASSUME NEW u \in Thread, Call(u) \/ Continue(u), u # t
      PROVE  pc[t] = "stopWait" /\ dst'[t] = dst[t]
  BY <1>6, OneCall
<1>7. ASSUME Call(t) \/ Continue(t), ~StopSignal(t)
      PROVE  UNCHANGED callVars
  BY <1>7 DEF CallsOK, Call, Continue, Spawn, Send, Stop, Shutdown,
         CheckStopped, OfferCheck, OfferAccept, OfferRefuse, AwaitReply, StopFinish,
         ShutdownSignal, ShutdownSignalled, ShutdownFinish, Enter, Goto, Return
<1>8. ASSUME NEW e \in Actor, Loop(e) PROVE UNCHANGED callVars
  BY <1>8 DEF Loop, Started, Take, Drained, Handled, Panicked, PanicReply, Exit
<1>9. QED BY <1>3, <1>4, <1>5, <1>6, <1>7, <1>8 DEF Next, vars

LEMMA MailNext ==
  ASSUME RegistryOK, CallsOK, MailOK, [Next]_vars
  PROVE  MailOK'
<1>1. CASE UNCHANGED <<accepted, taken, late>>
  BY <1>1 DEF MailOK
<1>2. ASSUME NEW t \in Thread, OfferAccept(t) PROVE MailOK'
  <2>1. dst[t] \in Actor /\ Current(t) \in Message
    BY <1>2, ActorAssumption
       DEF OfferAccept, CallsOK, RegistryOK, Sending, Spawned, Actor, Current, Message
  <2>2. accepted' = [accepted EXCEPT ![dst[t]] = Append(@, Current(t))] /\ taken' = taken
    BY <1>2 DEF OfferAccept, actorVars
  <2>3. QED BY <2>1, <2>2 DEF MailOK
<1>3. ASSUME NEW e \in Actor, Take(e) PROVE MailOK'
  BY <1>3 DEF Take, Waiting, MailOK, mailVars
<1>4. QED BY <1>1, <1>2, <1>3, MailSteps

(* The invariant that the theorems rest on. *)
ActorInv == RegistryOK /\ CallsOK /\ StopsOK /\ WaitsOK /\ MailOK

LEMMA ActorInvariant == Spec => []ActorInv
<1>1. Init => ActorInv
  BY RegistryInit DEF ActorInv
<1>2. ActorInv /\ [Next]_vars => ActorInv'
  BY RegistryNext, CallsNext, StopsNext, WaitsNext, MailNext DEF ActorInv
<1>3. QED BY <1>1, <1>2, PTL DEF Spec
-----------------------------------------------------------------------------
(* A name that is taken away from the table was that of an actor no longer *)
(* live, and one that stays leads to an actor that stays.                  *)
LEMMA BindingsNext ==
  ASSUME ActorInv, BindingsRegistered, [Next]_vars
  PROVE  /\ BindingsRegistered'
         /\ \A n \in Name : named[n] # 0 /\ named'[n] = 0 => stopped[named[n]] # 0
<1> USE DEF ActorInv
<1>1. CASE UNCHANGED registryVars
  BY <1>1 DEF registryVars, BindingsRegistered
<1>2. ASSUME NEW t \in Thread, NEW n \in Name \cup {NoName}, Spawn(t, n)
      PROVE  /\ BindingsRegistered'
             /\ \A m \in Name : named[m] # 0 => named'[m] # 0
  <2>1. nextId \in Nat /\ nextId + 1 \in Actor /\ nextId + 1 # 0
    BY <1>2, ActorAssumption DEF Spawn, RegistryOK, Actor
  <2>2. \A m \in Name : named[m] # 0 => named[m] \in Actor /\ named[m] # nextId + 1
    BY <2>1, ActorAssumption DEF RegistryOK, Actor
  <2>3. /\ registered' = registered \cup {nextId + 1}
        /\ label' = [label EXCEPT ![nextId + 1] = n]
        /\ named' = IF n = NoName THEN named ELSE [named EXCEPT ![n] = nextId + 1]
    BY <1>2 DEF Spawn
  <2>4. \A m \in Name : named'[m] = IF m = n THEN nextId + 1 ELSE named[m]
    BY <2>3, ActorAssumption DEF RegistryOK
  <2>5. label'[nextId + 1] = n /\ \A e \in Actor : e # nextId + 1 => label'[e] = label[e]
    BY <2>1, <2>3 DEF RegistryOK
  <2>6. QED BY <2>1, <2>2, <2>3, <2>4, <2>5 DEF BindingsRegistered
<1>3. ASSUME NEW t \in Thread, StopFinish(t)
      PROVE  /\ BindingsRegistered'
             /\ \A n \in Name : named[n] # 0 /\ named'[n] = 0 => stopped[named[n]] # 0
  <2>1. /\ registered' = registered \ {dst[t]} /\ label' = label
        /\ \A n \in Name : named'[n] = IF n = label[dst[t]] /\ named[n] = dst[t] THEN 0 ELSE named[n]
    BY <1>3 DEF StopFinish, Unbind
  <2>2. stopped[dst[t]] # 0
    BY <1>3 DEF StopFinish, WaitsOK
  <2>3. QED BY <2>1, <2>2 DEF BindingsRegistered
<1>4. ASSUME NEW t \in Thread, ShutdownFinish(t)
      PROVE  /\ BindingsRegistered'
             /\ \A n \in Name : named[n] # 0 /\ named'[n] = 0 => stopped[named[n]] # 0
  BY <1>4 DEF ShutdownFinish, Forgets, BindingsRegistered
<1>5. QED BY <1>1, <1>2, <1>3, <1>4, RegistrySteps

(* What find returns is in the registry, whatever was spawned under the    *)
(* same name, stopped and shut down in the meantime.                       *)
THEOREM BindingsRegisteredHolds == Spec => []BindingsRegistered
<1>1. Init => BindingsRegistered
  BY DEF Init, BindingsRegistered
<1>2. ActorInv /\ BindingsRegistered /\ [Next]_vars => BindingsRegistered'
  BY BindingsNext
<1>3. QED BY <1>1, <1>2, ActorInvariant, PTL DEF Spec

(* A live actor keeps its name until the name is given to another.         *)
THEOREM LiveBindingKeptHolds == Spec => LiveBindingKept
<1>1. ActorInv /\ BindingsRegistered /\ [Next]_vars
        => [\A n \in Name : named[n] # 0 /\ named'[n] = 0 => stopped[named[n]] # 0]_vars
  BY BindingsNext
<1>2. QED BY <1>1, ActorInvariant, BindingsRegisteredHolds, PTL DEF Spec, LiveBindingKept

(* A shutdown forgets no actor that was spawned while it waited.           *)
THEOREM LiveAreRegisteredHolds == Spec => []LiveAreRegistered
<1>1. Init => LiveAreRegistered
  BY DEF Init, LiveAreRegistered, Spawned
<1>2. ActorInv /\ LiveAreRegistered /\ [Next]_vars => LiveAreRegistered'
  <2> SUFFICES ASSUME ActorInv, LiveAreRegistered, [Next]_vars PROVE LiveAreRegistered'
    OBVIOUS
  <2> USE DEF ActorInv
  <2>1. \A e \in Spawned : stopped[e] # 0 => stopped'[e] # 0
    BY StopsNext, ActorAssumption DEF RegistryOK, Spawned, Actor
  <2>2. CASE UNCHANGED registryVars
    BY <2>1, <2>2 DEF registryVars, LiveAreRegistered, Spawned
  <2>3. ASSUME NEW t \in Thread, NEW n \in Name \cup {NoName}, Spawn(t, n)
        PROVE  LiveAreRegistered'
    <3>1. Spawned' \ registered' \subseteq Spawned \ registered /\ UNCHANGED stopped
      BY <2>3, ActorAssumption DEF Spawn, RegistryOK, Spawned
    <3>2. QED BY <3>1 DEF LiveAreRegistered
  <2>4. ASSUME NEW t \in Thread, StopFinish(t) PROVE LiveAreRegistered'
    BY <2>4 DEF StopFinish, actorVars, WaitsOK, LiveAreRegistered, Spawned
  <2>5. ASSUME NEW t \in Thread, ShutdownFinish(t) PROVE LiveAreRegistered'
    BY <2>5 DEF ShutdownFinish, Forgets, actorVars, LiveAreRegistered, Spawned
  <2>6. QED BY <2>2, <2>3, <2>4, <2>5, RegistrySteps
<1>3. QED BY <1>1, <1>2, ActorInvariant, PTL DEF Spec

(* A message that is queued once the loop has left was accepted by a       *)
(* mailbox already closed: before onStop runs, an orderly stop has handled *)
(* all the others.                                                         *)
THEOREM OrderlyStopDrainsHolds == Spec => []OrderlyStopDrains
<1>1. Init => OrderlyStopDrains
  BY DEF Init, OrderlyStopDrains
<1>2. ActorInv /\ OrderlyStopDrains /\ [Next]_vars => OrderlyStopDrains'
  <2> SUFFICES ASSUME ActorInv, OrderlyStopDrains, [Next]_vars PROVE OrderlyStopDrains'
    OBVIOUS
  <2> USE DEF ActorInv
  <2> SUFFICES ASSUME NEW e \in Actor, loop'[e] \in {"onStop", "done"}, stopped'[e] = 1,
                      NEW i \in taken'[e] + 1 .. Len(accepted'[e])
               PROVE  accepted'[e][i] \in late'
    BY DEF OrderlyStopDrains
  <2>1. CASE loop[e] \in {"onStop", "done"} /\ stopped[e] = 1
    <3>1. \A j \in taken[e] + 1 .. Len(accepted[e]) : accepted[e][j] \in late
      BY <2>1 DEF OrderlyStopDrains
    <3>2. CASE UNCHANGED <<accepted, taken, late>>
      BY <3>1, <3>2
    <3>3. ASSUME NEW t \in Thread, OfferAccept(t) PROVE accepted'[e][i] \in late'
      <4>1. closed[e] /\ accepted[e] \in Seq(Message) /\ taken[e] \in Nat
        BY <2>1 DEF StopsOK, MailOK
      <4>2. /\ taken' = taken /\ late \subseteq late'
            /\ accepted'[e] = IF e = dst[t] THEN Append(accepted[e], Current(t)) ELSE accepted[e]
            /\ e = dst[t] => Current(t) \in late'
        BY <3>3, <4>1 DEF OfferAccept, actorVars, MailOK
      <4>3. CASE i = Len(accepted[e]) + 1
        BY <4>1, <4>2, <4>3
      <4>4. CASE i # Len(accepted[e]) + 1
        BY <3>1, <4>1, <4>2, <4>4
      <4>5. QED BY <4>3, <4>4
    <3>4. ASSUME NEW f \in Actor, Take(f) PROVE accepted'[e][i] \in late'
      BY <2>1, <3>1, <3>4 DEF Take, mailVars, MailOK
    <3>5. QED BY <3>2, <3>3, <3>4, MailSteps
  <2>2. CASE Drained(e)
    BY <2>2 DEF Drained, Waiting, mailVars, MailOK
  <2>3. \/ loop[e] \in {"onStop", "done"} /\ stopped[e] = 1
        \/ Drained(e)
    <3>1. CASE UNCHANGED <<stopped, closed, loop>>
      BY <3>1
    <3>2. ASSUME NEW t \in Thread, NEW n \in Name \cup {NoName}, Spawn(t, n)
          PROVE  loop[e] \in {"onStop", "done"} /\ stopped[e] = 1
      BY <3>2 DEF Spawn, StopsOK
    <3>3. ASSUME NEW t \in Thread, StopSignal(t) \/ ShutdownSignal(t)
          PROVE  loop[e] \in {"onStop", "done"} /\ stopped[e] = 1
      BY <3>3 DEF StopSignal, ShutdownSignal, Signal, StopsOK
    <3>4. ASSUME NEW f \in Actor, Loop(f), ~Drained(e)
          PROVE  loop[e] \in {"onStop", "done"} /\ stopped[e] = 1
      BY <3>4 DEF Loop, Started, Take, Drained, Handled, Panicked, PanicReply, Exit, StopsOK
    <3>5. QED BY <3>1, <3>2, <3>3, <3>4, StopSteps
  <2>4. QED BY <2>1, <2>2, <2>3
<1>3. QED BY <1>1, <1>2, ActorInvariant, PTL DEF Spec
=============================================================================
