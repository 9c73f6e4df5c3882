--------------------------- MODULE MCConcurrency ----------------------------
(***************************************************************************)
(* A bounded channel of three goroutines that each receive and close, two  *)
(* of them sending once; and a Cron of three goroutines that start and     *)
(* stop, with two jobs.  They share no state: a behaviour is one of the    *)
(* channel or one of the Cron.                                             *)
(***************************************************************************)
EXTENDS BoundedChannel, MCCron

CONSTANTS g1, g2, g3

MCProc == {g1, g2, g3}
TwoSenders == [p \in MCProc |-> IF p = g3 THEN 0 ELSE 1]

VARIABLE part   \* the part that runs

ConcurrencyInit == part \in {"channel", "cron"} /\ Init /\ CronInit

ConcurrencyNext ==
  /\ UNCHANGED part
  /\ \/ part = "channel" /\ Next /\ UNCHANGED cronVars
     \/ part = "cron" /\ CronNext /\ UNCHANGED vars

\* At rest neither part has a step that is owed.
ConcurrencySpec ==
  /\ ConcurrencyInit /\ [][ConcurrencyNext]_<<vars, cronVars, part>>
  /\ Fairness /\ CronFairness
=============================================================================
