--------------------------- MODULE MCActorSystem ---------------------------
(* One client goroutine, one or two actors, one name to fight over.        *)
(* Handlers stop, shut down and spawn in every run; they send messages in  *)
(* the runs that use AllSend.                                              *)
EXTENDS ActorSystem

CONSTANTS c1

OneClient == {c1}

AllSend == [t \in Client \cup (1..MaxActors) |-> 1]
ClientsSend == [t \in Client \cup (1..MaxActors) |-> IF t \in Client THEN 2 ELSE 0]
=============================================================================
