-------------------------------- MODULE Cron --------------------------------
(***************************************************************************)
(* Class Cron of lamcron.lam: the flag _started under the mutex _mu, over  *)
(* the scheduler of github.com/robfig/cron, which is external.  start sets *)
(* flag and scheduler in one section under the mutex; stop clears the flag *)
(* under the mutex, releases it, and then stops the scheduler and waits    *)
(* for the running jobs.  Jobs may call back into the same Cron.           *)
(***************************************************************************)
EXTENDS Naturals, FiniteSets

CONSTANTS Control,  \* goroutines that start and stop the scheduler
          Job,      \* the jobs that may run, one goroutine each
          Stoppers  \* the jobs whose code calls stop on this Cron

ASSUME CronAssumption == Control \cap Job = {} /\ Stoppers \subseteq Job

VARIABLES started,  \* _started
          running,  \* the scheduler's goroutine runs
          entries,  \* jobs scheduled and not removed
          active,   \* jobs running now
          stage     \* of stop: "idle", "stopping" (flag cleared) or "waiting"

cronVars == <<started, running, entries, active, stage>>

Thread == Control \cup Job

CronInit == /\ started = FALSE
            /\ running = FALSE
            /\ entries = {}
            /\ active = {}
            /\ stage = [t \in Thread |-> "idle"]

(* A goroutine may call: a job while it runs. *)
MayCall(t) == /\ stage[t] = "idle"
              /\ t \in Job => t \in active

(* schedule and remove: one section under the mutex each.                  *)
Schedule(t, j) == /\ MayCall(t)
                  /\ entries' = entries \cup {j}
                  /\ UNCHANGED <<started, running, active, stage>>

Remove(t, j) == /\ MayCall(t)
                /\ entries' = entries \ {j}
                /\ UNCHANGED <<started, running, active, stage>>

StartSchedulerOnly(t) ==  \* mutation: the flag is not set
  /\ MayCall(t)
  /\ ~started
  /\ running' = TRUE
  /\ UNCHANGED <<started, entries, active, stage>>

(* start: one section under the mutex; starting a scheduler that still     *)
(* runs does nothing.                                                      *)
Start(t) == /\ MayCall(t)
            /\ started' = TRUE
            /\ running' = (IF started THEN running ELSE TRUE)
            /\ UNCHANGED <<entries, active, stage>>

(* stop, under the mutex: already stopped, or clear the flag. *)
Stop(t) == /\ MayCall(t)
           /\ t \in Control \cup Stoppers
           /\ IF started THEN /\ started' = FALSE
                              /\ stage' = [stage EXCEPT ![t] = "stopping"]
                         ELSE UNCHANGED <<started, stage>>
           /\ UNCHANGED <<running, entries, active>>

(* h.c.Stop(), after the mutex was released. *)
StopScheduler(t) == /\ stage[t] = "stopping"
                    /\ running' = FALSE
                    /\ stage' = [stage EXCEPT ![t] = "waiting"]
                    /\ UNCHANGED <<started, entries, active>>

StopWaitsForEntries(t) == \* mutation: it waits for the entries to be removed
  /\ stage[t] = "waiting"
  /\ entries = {}
  /\ stage' = [stage EXCEPT ![t] = "idle"]
  /\ UNCHANGED <<started, running, entries, active>>

(* <-ctx.Done(): no job runs. *)
StopWaited(t) == /\ stage[t] = "waiting"
                 /\ active = {}
                 /\ stage' = [stage EXCEPT ![t] = "idle"]
                 /\ UNCHANGED <<started, running, entries, active>>

(* The scheduler runs an entry that is due.                                *)
Fire(j) == /\ running
           /\ j \in entries \ active
           /\ active' = active \cup {j}
           /\ UNCHANGED <<started, running, entries, stage>>

(* lamCronWrap: the job returns, or panics and is recovered.               *)
Finish(j) == /\ j \in active
             /\ stage[j] = "idle"
             /\ active' = active \ {j}
             /\ UNCHANGED <<started, running, entries, stage>>

Call(t) == \/ \E j \in Job : Schedule(t, j) \/ Remove(t, j)
           \/ Start(t)
           \/ Stop(t)

CronNext == \/ \E t \in Thread : Call(t) \/ StopScheduler(t) \/ StopWaited(t)
            \/ \E j \in Job : Fire(j) \/ Finish(j)

CronSpec == CronInit /\ [][CronNext]_cronVars

(* A goroutine inside stop runs on, and a job that does not wait in stop   *)
(* finishes.                                                               *)
CronFairness == /\ \A t \in Thread : WF_cronVars(StopScheduler(t) \/ StopWaited(t))
                /\ \A j \in Job : WF_cronVars(Finish(j))
-----------------------------------------------------------------------------
TypeOK == /\ started \in BOOLEAN
          /\ running \in BOOLEAN
          /\ entries \subseteq Job
          /\ active \subseteq Job
          /\ stage \in [Thread -> {"idle", "stopping", "waiting"}]
          /\ \A j \in Job \ active : stage[j] = "idle"

(* A scheduler marked stopped, with every stop past its call of Stop, does *)
(* not run: whatever starts and stops overlap, no job fires after the last *)
(* stop.                                                                   *)
StoppedDoesNotRun ==
  running /\ ~started => \E t \in Thread : stage[t] = "stopping"

(* Doc of stop: a stopped scheduler can be restarted by calling start.     *)
(* With no stop under way, a scheduler marked started runs.                *)
StartedRuns ==
  started /\ (\A t \in Thread : stage[t] # "stopping") => running

(* stop returns to a controlling goroutine once the scheduler stays        *)
(* stopped: it waits for the jobs in flight and for nothing else.  Only a  *)
(* job in flight that calls stop itself keeps it, and itself, waiting.     *)
StopReturns ==
  \A t \in Control :
    <>[](~running) => ((stage[t] = "waiting")
                         ~> (stage[t] = "idle" \/ \E j \in Job : stage[j] = "waiting"))
=============================================================================
