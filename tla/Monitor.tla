-------------------------------- MODULE Monitor --------------------------------
(***************************************************************************)
(* The monitor of containers, HTTP endpoints, databases, disk and memory   *)
(* (internal/monitor).  cron starts RunChecks at every interval, whether   *)
(* or not an earlier one goes on, and the runs share the alert state       *)
(* without a lock; a probe or a message may take longer than the interval. *)
(***************************************************************************)
EXTENDS Naturals, Sequences

CONSTANTS
  Checks,     \* what RunChecks looks at, in its order
  Metrics,    \* disk and memory among them
  Runs        \* bounds the runs at the same time

Targets == {Checks[n] : n \in DOMAIN Checks}

ASSUME MonitorAssumption ==
  /\ Checks \in Seq(Targets) /\ Len(Checks) > 0
  /\ Metrics \subseteq Targets /\ Runs # {}

VARIABLES
  health,     \* "good", "bad", or "silent": no answer, or nothing to read
  alerting,   \* AlertState: the targets an alert was sent for
  run,        \* the runs of RunChecks
  cron        \* "down", "initial" (main's own first run), or "started"

monitorVars == <<health, alerting, run, cron>>

Idle == [at |-> "idle", check |-> 1, bad |-> FALSE]

MonitorInit ==
  /\ health \in [Targets -> {"good", "bad"}]
  /\ alerting = {}
  /\ run = [r \in Runs |-> Idle]
  /\ cron = "down"

Target(r) == Checks[run[r].check]

NextCheck(r) ==
  IF run[r].check = Len(Checks) THEN Idle
  ELSE [at |-> "probe", check |-> run[r].check + 1, bad |-> FALSE]

-----------------------------------------------------------------------------
Changes(t, h) ==
  /\ health[t] # h
  /\ health' = [health EXCEPT ![t] = h]
  /\ UNCHANGED <<alerting, run, cron>>

(* main: NewMonitor, a first run, and only then Start.                     *)
Begin ==
  /\ cron = "down" /\ cron' = "initial"
  /\ \E r \in Runs : run' = [run EXCEPT ![r].at = "probe"]
  /\ UNCHANGED <<health, alerting>>

Start ==
  /\ cron = "initial" /\ \A r \in Runs : run[r] = Idle
  /\ cron' = "started"
  /\ UNCHANGED <<health, alerting, run>>

Fire(r) ==
  /\ cron = "started" /\ run[r] = Idle
  /\ run' = [run EXCEPT ![r].at = "probe"]
  /\ UNCHANGED <<health, alerting, cron>>

(* CheckContainer, CheckHTTP, CheckPostgres and CheckRedis: one that does  *)
(* not answer in time is as bad as one that answers that it is.            *)
Unhealthy(t) == health[t] # "good"

(* CheckDisk and CheckMemory: a value that cannot be read, -1, does not    *)
(* exceed the threshold, and RunChecks drops the error.                    *)
Exceeded(t) == health[t] = "bad"

Bad(t) == IF t \in Metrics THEN Exceeded(t) ELSE Unhealthy(t)

Probe(r) ==
  /\ run[r].at = "probe"
  /\ run' = [run EXCEPT ![r].at = "decide", ![r].bad = Bad(Target(r))]
  /\ UNCHANGED <<health, alerting, cron>>

(* Nothing to tell: on to the next check.                                  *)
Decide(r) ==
  /\ run[r].at = "decide"
  /\ run' = [run EXCEPT ![r] =
               IF @.bad = (Target(r) \in alerting) THEN NextCheck(r) ELSE [@ EXCEPT !.at = "tell"]]
  /\ UNCHANGED <<health, alerting, cron>>

(* Mutant of Tell: the alert of a target that is good again is kept.       *)
TellKeeps(r) ==
  /\ run[r].at = "tell"
  /\ alerting' = IF run[r].bad THEN alerting \cup {Target(r)} ELSE alerting
  /\ run' = [run EXCEPT ![r] = NextCheck(r)]
  /\ UNCHANGED <<health, cron>>

(* SendText, then the state, whether or not the message could be sent, and *)
(* whatever another run has told and written meanwhile.                    *)
Tell(r) ==
  /\ run[r].at = "tell"
  /\ alerting' = IF run[r].bad THEN alerting \cup {Target(r)} ELSE alerting \ {Target(r)}
  /\ run' = [run EXCEPT ![r] = NextCheck(r)]
  /\ UNCHANGED <<health, cron>>

(* The process ends, also when Go finds two runs in a map at once.         *)
Stop ==
  /\ cron # "down" /\ cron' = "down"
  /\ alerting' = {} /\ run' = [r \in Runs |-> Idle]
  /\ UNCHANGED health

MonitorNext ==
  \/ \E t \in Targets, h \in {"good", "bad", "silent"} : Changes(t, h)
  \/ \E r \in Runs : Fire(r) \/ Probe(r) \/ Decide(r) \/ Tell(r)
  \/ Begin \/ Start \/ Stop

MonitorSpec == MonitorInit /\ [][MonitorNext]_monitorVars

(* Every probe and message has a timeout, cron fires, and systemd starts   *)
(* the process again.  Assumption: the HTTP checks are configured with a   *)
(* timeout; CheckHTTP passes on what is configured, and without one it can *)
(* wait for ever.                                                          *)
MonitorFairness ==
  /\ WF_monitorVars(Begin) /\ WF_monitorVars(Start)
  /\ \A r \in Runs :
       WF_monitorVars(Fire(r)) /\ WF_monitorVars(Probe(r) \/ Decide(r) \/ Tell(r))

MonitorFairSpec == MonitorSpec /\ MonitorFairness

-----------------------------------------------------------------------------
(* While the process runs, a target that stays bad is in the end alerted   *)
(* of and stays so, and one that does not stay bad is not left in an       *)
(* alert that keeps the next one from being sent, although slow runs write *)
(* what they saw over what later ones have written (RunChecks).            *)
AlertsFollow ==
  \A t \in Targets :
    <>[](cron # "down") =>
      /\ <>[]Bad(t) => <>[](t \in alerting)
      /\ <>[]~Bad(t) => <>[](t \notin alerting)
===============================================================================
