------------------------------- MODULE MCCron -------------------------------
(* Three goroutines that start and stop, and two jobs. *)
EXTENDS Cron

CONSTANTS c1, c2, c3, j1, j2

ThreeControl == {c1, c2, c3}
TwoJobs == {j1, j2}
OneStopper == {j1}
=============================================================================
