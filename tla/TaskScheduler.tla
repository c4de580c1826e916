---------------------------- MODULE TaskScheduler ----------------------------
(***************************************************************************)
(* Scheduled tasks: the scheduler (internal/scheduler/scheduler.go), its   *)
(* tables (store.go), the console's handlers that create, change and       *)
(* delete tasks (internal/web/handlers/tasks.go), and the start of main,   *)
(* which adds the tasks of the configuration file.                         *)
(*                                                                         *)
(* GetTask hands out the task object itself: handlers and runs write to it *)
(* without the scheduler's lock.                                           *)
(***************************************************************************)
EXTENDS Naturals, FiniteSets

CONSTANTS
  Tasks,         \* task IDs
  Configured,    \* those of cfg.Scheduler.Tasks
  Schedules,     \* schedules tasks are given
  Valid,         \* those of them that cron can parse
  FromConfig,    \* the schedule of each task in the configuration file
  Handlers,      \* PUT requests at the same time
  NoTask,
  MaxRuns        \* bounds runs of one task at the same time, and rows of runs

ASSUME SchedulerAssumption ==
  /\ Configured \subseteq Tasks /\ NoTask \notin Tasks
  /\ Valid \subseteq Schedules
  /\ FromConfig \in [Configured -> Valid]
  /\ MaxRuns \in Nat \ {0}

VARIABLES
  listed,     \* the keys of Scheduler.tasks
  schedule,   \* Schedule of each task's object
  entries,    \* cron's entries: <<task, schedule it was added with>>
  current,    \* what EntryID of each task's object refers to
  rows,       \* IDs in the table scheduled_tasks
  history,    \* number of rows of each task in task_runs
  running,    \* number of runs of each task going on
  update,     \* the PUT requests
  up,         \* the process runs
  executor    \* the scheduler was given an executor: skills are enabled

schedulerVars ==
  <<listed, schedule, entries, current, rows, history, running, update, up, executor>>

NoUpdate == [at |-> "none", task |-> NoTask]

SchedulerInit ==
  /\ listed = {} /\ entries = {} /\ rows = {}
  /\ schedule \in [Tasks -> Schedules] /\ current = schedule
  /\ history = [t \in Tasks |-> 0] /\ running = [t \in Tasks |-> 0]
  /\ update = [h \in Handlers |-> NoUpdate]
  /\ up = FALSE /\ executor \in BOOLEAN

-----------------------------------------------------------------------------
(* AddTask, under the lock: refused for a task that is there or a schedule *)
(* cron cannot parse.  SaveTask, of which an error is only logged, writes  *)
(* or overwrites the row.                                                  *)
Saved(ts) == rows' \in {rows, rows \cup ts}

CanAdd(t) == t \notin listed /\ schedule[t] \in Valid

AddTask(t) ==
  /\ CanAdd(t)
  /\ listed' = listed \cup {t}
  /\ entries' = entries \cup {<<t, schedule[t]>>}
  /\ current' = [current EXCEPT ![t] = schedule[t]]
  /\ Saved({t})

(* Mutant of RemoveTask: the entry is looked up by the schedule shown.     *)
RemoveTaskShown(t) ==
  /\ t \in listed
  /\ listed' = listed \ {t}
  /\ entries' = entries \ {<<t, schedule[t]>>}
  /\ \/ rows' = rows \ {t} /\ history' = [history EXCEPT ![t] = 0]
     \/ UNCHANGED <<rows, history>>

(* RemoveTask, under the lock.  DeleteTask, of which an error is only      *)
(* logged, takes the rows of its runs with it.                             *)
RemoveTask(t) ==
  /\ t \in listed
  /\ listed' = listed \ {t}
  /\ entries' = entries \ {<<t, current[t]>>}
  /\ \/ rows' = rows \ {t} /\ history' = [history EXCEPT ![t] = 0]
     \/ UNCHANGED <<rows, history>>

-----------------------------------------------------------------------------
(* createTask gives a new ID (here: one nothing remembers).                *)
CreateTask(t, s) ==
  /\ up
  /\ t \notin Configured \cup listed \cup rows /\ running[t] = 0
  /\ \A h \in Handlers : update[h].task # t
  /\ s \in Valid
  /\ schedule' = [schedule EXCEPT ![t] = s]
  /\ listed' = listed \cup {t}
  /\ entries' = entries \cup {<<t, s>>}
  /\ current' = [current EXCEPT ![t] = s]
  /\ Saved({t})
  /\ UNCHANGED <<history, running, update, up, executor>>

DeleteTask(t) ==
  /\ up
  /\ RemoveTask(t)
  /\ UNCHANGED <<schedule, current, running, update, up, executor>>

(* updateTask: GetTask; the new schedule is written into the object, and   *)
(* if it is another one (changes of other fields end here) ...             *)
UpdateTask(h, t) ==
  /\ up /\ update[h] = NoUpdate /\ t \in listed
  /\ update' = [update EXCEPT ![h] = [at |-> "set", task |-> t]]
  /\ UNCHANGED <<listed, schedule, entries, current, rows, history, running, up, executor>>

SetSchedule(h, s) ==
  LET t == update[h].task IN
  /\ up /\ update[h].at = "set"
  /\ schedule' = [schedule EXCEPT ![t] = s]
  /\ update' = [update EXCEPT ![h] =
                  IF s = schedule[t] THEN NoUpdate ELSE [@ EXCEPT !.at = "remove"]]
  /\ UNCHANGED <<listed, entries, current, rows, history, running, up, executor>>

(* ... the task is removed; the request ends if it is not there any more   *)
Remove(h) ==
  LET t == update[h].task IN
  /\ up /\ update[h].at = "remove"
  /\ \/ RemoveTask(t) /\ update' = [update EXCEPT ![h].at = "add"]
     \/ /\ t \notin listed /\ update' = [update EXCEPT ![h] = NoUpdate]
        /\ UNCHANGED <<listed, entries, rows, history>>
  /\ UNCHANGED <<schedule, current, running, up, executor>>

(* ... and added with what the object then says; if cron cannot parse that,*)
(* the task is gone.                                                       *)
AddAgain(h) ==
  LET t == update[h].task IN
  /\ AddTask(t) \/ (~CanAdd(t) /\ UNCHANGED <<listed, entries, current, rows>>)
  /\ UNCHANGED schedule

Add(h) ==
  /\ up /\ update[h].at = "add"
  /\ AddAgain(h)
  /\ update' = [update EXCEPT ![h] = NoUpdate]
  /\ UNCHANGED <<history, running, up, executor>>

-----------------------------------------------------------------------------
(* Mutant of Fire: a run looks the task up in the table.                   *)
FireFromTable(t) ==
  /\ up /\ executor
  /\ \E e \in entries : e[1] = t
  /\ t \in rows /\ running[t] < MaxRuns
  /\ running' = [running EXCEPT ![t] = @ + 1]
  /\ UNCHANGED <<listed, schedule, entries, current, rows, history, update, up, executor>>

(* cron fires an entry: runTask in a goroutine of its own, whether or not  *)
(* an earlier run goes on and whatever the task's Status says.  Without an *)
(* executor it panics, and the process ends.                               *)
Fire(t) ==
  /\ up /\ executor
  /\ \E e \in entries : e[1] = t
  /\ running[t] < MaxRuns
  /\ running' = [running EXCEPT ![t] = @ + 1]
  /\ UNCHANGED <<listed, schedule, entries, current, rows, history, update, up, executor>>

(* The run ends, well or not: SaveTaskRun, which fails if the task has no  *)
(* row.                                                                    *)
EndRun(t) ==
  /\ running[t] > 0
  /\ running' = [running EXCEPT ![t] = @ - 1]
  /\ \/ t \in rows /\ history[t] < MaxRuns /\ history' = [history EXCEPT ![t] = @ + 1]
     \/ UNCHANGED history
  /\ UNCHANGED <<listed, schedule, entries, current, rows, update, up, executor>>

-----------------------------------------------------------------------------
(* What is in memory is lost.                                              *)
Down ==
  /\ up' = FALSE
  /\ listed' = {} /\ entries' = {}
  /\ running' = [t \in Tasks |-> 0]
  /\ update' = [h \in Handlers |-> NoUpdate]
  /\ UNCHANGED <<schedule, current, rows, history, executor>>

Panic == up /\ ~executor /\ entries # {} /\ Down

Stop == up /\ Down

(* main: New, AddTask for each task of the configuration, Start.  It never *)
(* calls LoadTasks: a task made at the console stays in the table only.    *)
Begin ==
  /\ ~up /\ up' = TRUE
  /\ schedule' = [t \in Tasks |-> IF t \in Configured THEN FromConfig[t] ELSE schedule[t]]
  /\ listed' = Configured
  /\ entries' = {<<t, FromConfig[t]>> : t \in Configured}
  /\ current' = [t \in Tasks |-> IF t \in Configured THEN FromConfig[t] ELSE current[t]]
  /\ \E ts \in SUBSET Configured : rows' = rows \cup ts
  /\ UNCHANGED <<history, running, update, executor>>

SchedulerNext ==
  \/ \E t \in Tasks :
       \/ \E s \in Schedules : CreateTask(t, s)
       \/ DeleteTask(t) \/ Fire(t) \/ EndRun(t)
  \/ \E h \in Handlers :
       \/ \E t \in Tasks : UpdateTask(h, t)
       \/ \E s \in Schedules : SetSchedule(h, s)
       \/ Remove(h) \/ Add(h)
  \/ Panic \/ Stop \/ Begin

SchedulerSpec == SchedulerInit /\ [][SchedulerNext]_schedulerVars

(* Handlers go on, skills end within their 5 minutes, systemd starts the   *)
(* process again.  Cron fires an entry that stays: removed and added, or   *)
(* after a restart, it waits for its next time afresh.  (Schedules whose   *)
(* time never comes, such as the 30th of February, are left out.)          *)
SchedulerFairness ==
  /\ WF_schedulerVars(Begin)
  /\ \A h \in Handlers :
       WF_schedulerVars((\E s \in Schedules : SetSchedule(h, s)) \/ Remove(h) \/ Add(h))
  /\ \A t \in Tasks : WF_schedulerVars(Fire(t)) /\ WF_schedulerVars(EndRun(t))

SchedulerFairSpec == SchedulerSpec /\ SchedulerFairness

-----------------------------------------------------------------------------
(* A task that is listed runs on the schedule it is shown with, and cron   *)
(* runs nothing else, when no update is under way, although updates of the *)
(* same task at the same time write into one object without a lock and     *)
(* each may add what the other one wrote (updateTask).                     *)
ScheduleIsShown ==
  (\A h \in Handlers : update[h].at \in {"none", "set"}) =>
    entries = {<<t, schedule[t]>> : t \in listed}

(* Cron follows the list, whatever updates, deletions, lost rows and       *)
(* restarts there were: a task that stays listed is run again and again if *)
(* skills are enabled, and one that stays off the list is run no more, so  *)
(* no entry is left behind whose EntryID an update has overwritten.        *)
RunsFollowList ==
  \A t \in Tasks :
    /\ executor /\ <>[](t \in listed) => []<>(running[t] > 0)
    /\ <>[](t \notin listed) => <>[](running[t] = 0)
=============================================================================
