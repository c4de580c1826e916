---------------------------- MODULE Background_proofs ----------------------------
(***************************************************************************)
(* Proofs about what goes on in the process unasked: scheduled tasks, for  *)
(* any tasks, schedules and number of updates at the same time, and the    *)
(* forgetting of episodes, for any episodes, ages and limits.              *)
(*                                                                         *)
(* ScheduleIsShown speaks of the states without an update under way.  What *)
(* makes it true is said of every state: an object whose schedule is not   *)
(* the one cron has is about to be removed by some update (ChangePending), *)
(* and whoever adds the task again adds what the object says then.         *)
(*                                                                         *)
(* The gate's statements work on what earlier ones have read, while chats, *)
(* searches and the console change the table.  What stays true of it until *)
(* it is used is said by ScoresInPlace and StillOver.                      *)
(***************************************************************************)
EXTENDS TaskScheduler, Memory, FiniteSetTheorems, WellFoundedInduction, TLAPS

Steps == {"none", "set", "remove", "add"}

SchedulerTyped ==
  /\ listed \subseteq Tasks
  /\ schedule \in [Tasks -> Schedules]
  /\ current \in [Tasks -> Schedules]
  /\ update \in [Handlers -> [at : Steps, task : Tasks \cup {NoTask}]]
  /\ \A h \in Handlers : update[h].at # "none" => update[h].task \in Tasks

(* cron has one entry for each task that is listed, and it is the one that *)
(* EntryID refers to.                                                      *)
EntriesAreCurrent == entries = {<<t, current[t]>> : t \in listed}

(* A task that is shown with another schedule than it runs on has an       *)
(* update that will remove it.                                             *)
ChangePending ==
  \A t \in listed :
    current[t] # schedule[t] =>
      \E h \in Handlers : update[h] = [at |-> "remove", task |-> t]

SchedulerInv == SchedulerTyped /\ EntriesAreCurrent /\ ChangePending

-----------------------------------------------------------------------------
(* A task is added with the schedule of its object.                        *)
LEMMA Added ==
  ASSUME SchedulerInv, NEW t \in Tasks, NEW s \in Schedules,
         listed' = listed \cup {t},
         entries' = entries \cup {<<t, s>>}, t \notin listed,
         current' = [current EXCEPT ![t] = s]
  PROVE  listed' \subseteq Tasks /\ current' \in [Tasks -> Schedules] /\ EntriesAreCurrent'
<1>1. /\ listed \subseteq Tasks /\ current \in [Tasks -> Schedules]
      /\ entries = {<<u, current[u]>> : u \in listed}
  BY DEF SchedulerInv, SchedulerTyped, EntriesAreCurrent
<1>2. current'[t] = s /\ \A u \in listed : current'[u] = current[u]
  BY <1>1
<1>3. {<<u, current'[u]>> : u \in listed \cup {t}}
        = {<<u, current[u]>> : u \in listed} \cup {<<t, s>>}
  BY <1>2
<1>4. EntriesAreCurrent'
  BY <1>1, <1>3 DEF EntriesAreCurrent
<1> QED
  BY <1>1, <1>4

(* A task is taken out, its entry with it.                                 *)
LEMMA Removed ==
  ASSUME SchedulerInv, NEW t \in Tasks, RemoveTask(t), UNCHANGED current
  PROVE  listed' \subseteq Tasks /\ EntriesAreCurrent'
<1>1. /\ listed \subseteq Tasks /\ listed' = listed \ {t}
      /\ entries = {<<u, current[u]>> : u \in listed}
      /\ entries' = entries \ {<<t, current[t]>>}
  BY DEF SchedulerInv, SchedulerTyped, EntriesAreCurrent, RemoveTask
<1>2. {<<u, current[u]>> : u \in listed \ {t}}
        = {<<u, current[u]>> : u \in listed} \ {<<t, current[t]>>}
  OBVIOUS
<1> QED
  BY <1>1, <1>2 DEF EntriesAreCurrent

(* An update of a task goes on.                                            *)
LEMMA UpdateGoesOn ==
  ASSUME SchedulerInv, NEW h \in Handlers, NEW at \in Steps, NEW t \in Tasks,
         update' = [update EXCEPT ![h] = [at |-> at, task |-> t]]
  PROVE  /\ update' \in [Handlers -> [at : Steps, task : Tasks \cup {NoTask}]]
         /\ \A g \in Handlers : update'[g].at # "none" => update'[g].task \in Tasks
BY DEF SchedulerInv, SchedulerTyped

(* An update ends.                                                         *)
LEMMA UpdateEnds ==
  ASSUME SchedulerInv, NEW h \in Handlers, update' = [update EXCEPT ![h] = NoUpdate]
  PROVE  /\ update' \in [Handlers -> [at : Steps, task : Tasks \cup {NoTask}]]
         /\ \A g \in Handlers : update'[g].at # "none" => update'[g].task \in Tasks
<1>1. NoUpdate \in [at : Steps, task : Tasks \cup {NoTask}] /\ NoUpdate.at = "none"
  BY DEF NoUpdate, Steps
<1> QED
  BY <1>1 DEF SchedulerInv, SchedulerTyped

(* A change stays pending as long as the update that will remove the task  *)
(* is not the one that goes on.                                            *)
LEMMA PendingStays ==
  ASSUME SchedulerInv, NEW h \in Handlers, update[h].at # "remove",
         \A g \in Handlers \ {h} : update'[g] = update[g],
         \A u \in listed' :
           current'[u] # schedule'[u] => u \in listed /\ current[u] # schedule[u]
  PROVE  ChangePending'
<1> SUFFICES ASSUME NEW u \in listed', current'[u] # schedule'[u]
             PROVE  \E g \in Handlers : update'[g] = [at |-> "remove", task |-> u]
  BY DEF ChangePending
<1>1. PICK g \in Handlers : update[g] = [at |-> "remove", task |-> u]
  BY DEF SchedulerInv, ChangePending
<1>2. g # h
  BY <1>1
<1> QED
  BY <1>1, <1>2

-----------------------------------------------------------------------------
LEMMA SchedulerInitInv == SchedulerInit => SchedulerInv
<1> SUFFICES ASSUME SchedulerInit PROVE SchedulerInv
  OBVIOUS
<1>1. NoUpdate \in [at : Steps, task : Tasks \cup {NoTask}] /\ NoUpdate.at = "none"
  BY DEF NoUpdate, Steps
<1>2. SchedulerTyped
  BY <1>1 DEF SchedulerInit, SchedulerTyped
<1>3. EntriesAreCurrent /\ ChangePending
  BY DEF SchedulerInit, EntriesAreCurrent, ChangePending
<1> QED
  BY <1>2, <1>3 DEF SchedulerInv

LEMMA CreateTaskInv ==
  ASSUME SchedulerInv, NEW t \in Tasks, NEW s \in Schedules, CreateTask(t, s)
  PROVE  SchedulerInv'
<1>1. /\ t \notin listed /\ listed' = listed \cup {t} /\ UNCHANGED update
      /\ schedule' = [schedule EXCEPT ![t] = s] /\ current' = [current EXCEPT ![t] = s]
      /\ entries' = entries \cup {<<t, s>>}
  BY DEF CreateTask
<1>2. listed' \subseteq Tasks /\ current' \in [Tasks -> Schedules] /\ EntriesAreCurrent'
  BY <1>1, Added
<1>3. SchedulerTyped'
  BY <1>1, <1>2 DEF SchedulerInv, SchedulerTyped
<1>4. ChangePending'
  <2> SUFFICES ASSUME NEW u \in listed', current'[u] # schedule'[u]
               PROVE  \E g \in Handlers : update'[g] = [at |-> "remove", task |-> u]
    BY DEF ChangePending
  <2>1. u \in listed /\ current[u] # schedule[u]
    BY <1>1 DEF SchedulerInv, SchedulerTyped
  <2>2. \E g \in Handlers : update[g] = [at |-> "remove", task |-> u]
    BY <2>1 DEF SchedulerInv, ChangePending
  <2> QED
    BY <1>1, <2>2
<1> QED
  BY <1>2, <1>3, <1>4 DEF SchedulerInv

LEMMA DeleteTaskInv ==
  ASSUME SchedulerInv, NEW t \in Tasks, DeleteTask(t)
  PROVE  SchedulerInv'
<1>1. listed' = listed \ {t} /\ UNCHANGED <<schedule, current, update>>
  BY DEF DeleteTask, RemoveTask
<1>2. listed' \subseteq Tasks /\ EntriesAreCurrent'
  BY <1>1, Removed DEF DeleteTask
<1>3. SchedulerTyped'
  BY <1>1, <1>2 DEF SchedulerInv, SchedulerTyped
<1>4. ChangePending'
  BY <1>1 DEF SchedulerInv, ChangePending
<1> QED
  BY <1>2, <1>3, <1>4 DEF SchedulerInv

(* The update that begins was not the one that is about to remove a task.  *)
LEMMA UpdateTaskInv ==
  ASSUME SchedulerInv, NEW h \in Handlers, NEW t \in Tasks, UpdateTask(h, t)
  PROVE  SchedulerInv'
<1>1. /\ update[h] = NoUpdate /\ update' = [update EXCEPT ![h] = [at |-> "set", task |-> t]]
      /\ UNCHANGED <<listed, schedule, entries, current>>
  BY DEF UpdateTask
<1>2. /\ update' \in [Handlers -> [at : Steps, task : Tasks \cup {NoTask}]]
      /\ \A g \in Handlers : update'[g].at # "none" => update'[g].task \in Tasks
  BY <1>1, UpdateGoesOn DEF Steps
<1>3. SchedulerTyped' /\ EntriesAreCurrent'
  BY <1>1, <1>2 DEF SchedulerInv, SchedulerTyped, EntriesAreCurrent
<1>4. update[h].at # "remove" /\ \A g \in Handlers \ {h} : update'[g] = update[g]
  BY <1>1 DEF NoUpdate, SchedulerInv, SchedulerTyped
<1>5. ChangePending'
  BY <1>1, <1>4, PendingStays
<1> QED
  BY <1>3, <1>5 DEF SchedulerInv

(* A new schedule is written into the object: the update that wrote it     *)
(* will remove the task.                                                   *)
LEMMA SetScheduleInv ==
  ASSUME SchedulerInv, NEW h \in Handlers, NEW s \in Schedules, SetSchedule(h, s)
  PROVE  SchedulerInv'
<1> DEFINE t == update[h].task
<1>1. /\ update[h].at = "set" /\ t \in Tasks /\ UNCHANGED <<listed, entries, current>>
      /\ schedule' = [schedule EXCEPT ![t] = s]
      /\ update' = [update EXCEPT ![h] =
                      IF s = schedule[t] THEN NoUpdate ELSE [@ EXCEPT !.at = "remove"]]
  BY DEF SetSchedule, SchedulerInv, SchedulerTyped
<1>2. update[h] \in [at : Steps, task : Tasks \cup {NoTask}]
  BY DEF SchedulerInv, SchedulerTyped
<1>3. [update[h] EXCEPT !.at = "remove"] = [at |-> "remove", task |-> t]
  BY <1>2
<1>4. CASE s = schedule[t]
  <2>1. update' = [update EXCEPT ![h] = NoUpdate]
    BY <1>1, <1>4
  <2>2. UNCHANGED schedule
    BY <1>1, <1>4 DEF SchedulerInv, SchedulerTyped
  <2>3. /\ update' \in [Handlers -> [at : Steps, task : Tasks \cup {NoTask}]]
        /\ \A g \in Handlers : update'[g].at # "none" => update'[g].task \in Tasks
    BY <2>1, UpdateEnds
  <2>4. SchedulerTyped' /\ EntriesAreCurrent'
    BY <1>1, <2>2, <2>3 DEF SchedulerInv, SchedulerTyped, EntriesAreCurrent
  <2>5. \A g \in Handlers \ {h} : update'[g] = update[g]
    BY <2>1 DEF SchedulerInv, SchedulerTyped
  <2>6. ChangePending'
    BY <1>1, <2>2, <2>5, PendingStays
  <2> QED
    BY <2>4, <2>6 DEF SchedulerInv
<1>5. CASE s # schedule[t]
  <2>1. update' = [update EXCEPT ![h] = [at |-> "remove", task |-> t]]
    BY <1>1, <1>3, <1>5
  <2>2. /\ update' \in [Handlers -> [at : Steps, task : Tasks \cup {NoTask}]]
        /\ \A g \in Handlers : update'[g].at # "none" => update'[g].task \in Tasks
    BY <1>1, <2>1, UpdateGoesOn DEF Steps
  <2>3. SchedulerTyped' /\ EntriesAreCurrent'
    BY <1>1, <2>2 DEF SchedulerInv, SchedulerTyped, EntriesAreCurrent
  <2>4. /\ update'[h] = [at |-> "remove", task |-> t]
        /\ \A g \in Handlers \ {h} : update'[g] = update[g]
        /\ \A u \in Tasks \ {t} : schedule'[u] = schedule[u]
    BY <1>1, <2>1 DEF SchedulerInv, SchedulerTyped
  <2>5. ASSUME NEW u \in listed, current[u] # schedule'[u]
        PROVE  \E g \in Handlers : update'[g] = [at |-> "remove", task |-> u]
    <3>1. CASE u = t
      BY <2>4, <3>1
    <3>2. CASE u # t
      <4>1. u \in Tasks /\ current[u] # schedule[u]
        BY <2>4, <2>5, <3>2 DEF SchedulerInv, SchedulerTyped
      <4>2. PICK g \in Handlers : update[g] = [at |-> "remove", task |-> u]
        BY <4>1 DEF SchedulerInv, ChangePending
      <4>3. g # h
        BY <1>1, <4>2
      <4> QED
        BY <2>4, <4>2, <4>3
    <3> QED
      BY <3>1, <3>2
  <2>6. ChangePending'
    BY <1>1, <2>5 DEF ChangePending
  <2> QED
    BY <2>3, <2>6 DEF SchedulerInv
<1> QED
  BY <1>4, <1>5

(* The task is not listed any more when the update that removed it, or     *)
(* that found it gone, goes on.                                            *)
LEMMA RemoveInv ==
  ASSUME SchedulerInv, NEW h \in Handlers, Remove(h)
  PROVE  SchedulerInv'
<1> DEFINE t == update[h].task
<1>1. update[h].at = "remove" /\ t \in Tasks /\ UNCHANGED <<schedule, current>>
  BY DEF Remove, SchedulerInv, SchedulerTyped
<1>2. /\ listed' = listed \ {t} /\ EntriesAreCurrent' /\ SchedulerTyped'
      /\ \A g \in Handlers \ {h} : update'[g] = update[g]
  <2>1. CASE RemoveTask(t) /\ update' = [update EXCEPT ![h].at = "add"]
    <3>1. update[h] \in [at : Steps, task : Tasks \cup {NoTask}]
      BY DEF SchedulerInv, SchedulerTyped
    <3>2. [update[h] EXCEPT !.at = "add"] = [at |-> "add", task |-> t]
      BY <3>1
    <3>3. update' = [update EXCEPT ![h] = [at |-> "add", task |-> t]]
      BY <2>1, <3>2
    <3>4. /\ update' \in [Handlers -> [at : Steps, task : Tasks \cup {NoTask}]]
          /\ \A g \in Handlers : update'[g].at # "none" => update'[g].task \in Tasks
      BY <1>1, <3>3, UpdateGoesOn DEF Steps
    <3>5. listed' \subseteq Tasks /\ EntriesAreCurrent'
      BY <1>1, <2>1, Removed
    <3> QED
      BY <1>1, <2>1, <3>3, <3>4, <3>5 DEF SchedulerInv, SchedulerTyped, RemoveTask
  <2>2. CASE /\ t \notin listed /\ update' = [update EXCEPT ![h] = NoUpdate]
             /\ UNCHANGED <<listed, entries, rows, history>>
    <3>1. SchedulerTyped' /\ EntriesAreCurrent'
      BY <1>1, <2>2, UpdateEnds DEF SchedulerInv, SchedulerTyped, EntriesAreCurrent
    <3> QED
      BY <2>2, <3>1 DEF SchedulerInv, SchedulerTyped
  <2> QED
    BY <2>1, <2>2 DEF Remove
<1>3. ASSUME NEW u \in listed', current'[u] # schedule'[u]
      PROVE  \E g \in Handlers : update'[g] = [at |-> "remove", task |-> u]
  <2>1. u \in listed /\ u # t /\ current[u] # schedule[u]
    BY <1>1, <1>2, <1>3
  <2>2. PICK g \in Handlers : update[g] = [at |-> "remove", task |-> u]
    BY <2>1 DEF SchedulerInv, ChangePending
  <2> QED
    BY <1>2, <2>1, <2>2
<1>4. ChangePending'
  BY <1>3 DEF ChangePending
<1> QED
  BY <1>2, <1>4 DEF SchedulerInv

(* What is added is what the object says.                                  *)
LEMMA AddInv ==
  ASSUME SchedulerInv, NEW h \in Handlers, Add(h)
  PROVE  SchedulerInv'
<1> DEFINE t == update[h].task
<1>1. /\ update[h].at = "add" /\ t \in Tasks /\ UNCHANGED schedule
      /\ update' = [update EXCEPT ![h] = NoUpdate]
      /\ AddTask(t) \/ UNCHANGED <<listed, entries, current>>
  BY DEF Add, AddAgain, SchedulerInv, SchedulerTyped
<1>2. \A g \in Handlers \ {h} : update'[g] = update[g]
  BY <1>1 DEF SchedulerInv, SchedulerTyped
<1>3. /\ listed' \subseteq Tasks /\ current' \in [Tasks -> Schedules] /\ EntriesAreCurrent'
      /\ \A u \in listed' : current'[u] # schedule'[u] => u \in listed /\ current[u] # schedule[u]
  <2>1. CASE AddTask(t)
    <3>1. /\ t \notin listed /\ schedule[t] \in Schedules /\ listed' = listed \cup {t}
          /\ entries' = entries \cup {<<t, schedule[t]>>}
          /\ current' = [current EXCEPT ![t] = schedule[t]]
      BY <1>1, <2>1 DEF AddTask, CanAdd, SchedulerInv, SchedulerTyped
    <3>2. listed' \subseteq Tasks /\ current' \in [Tasks -> Schedules] /\ EntriesAreCurrent'
      BY <1>1, <3>1, Added
    <3> QED
      BY <1>1, <3>1, <3>2 DEF SchedulerInv, SchedulerTyped
  <2>2. CASE UNCHANGED <<listed, entries, current>>
    BY <1>1, <2>2 DEF SchedulerInv, SchedulerTyped, EntriesAreCurrent
  <2> QED
    BY <1>1, <2>1, <2>2
<1>4. SchedulerTyped'
  BY <1>1, <1>3, UpdateEnds DEF SchedulerInv, SchedulerTyped
<1>5. ChangePending'
  BY <1>1, <1>2, <1>3, PendingStays
<1> QED
  BY <1>3, <1>4, <1>5 DEF SchedulerInv

(* The process ends, or begins with the tasks of the configuration.        *)
LEMMA DownInv ==
  ASSUME SchedulerInv, Down
  PROVE  SchedulerInv'
<1>1. NoUpdate \in [at : Steps, task : Tasks \cup {NoTask}] /\ NoUpdate.at = "none"
  BY DEF NoUpdate, Steps
<1>2. SchedulerTyped'
  BY <1>1 DEF Down, SchedulerInv, SchedulerTyped
<1>3. EntriesAreCurrent' /\ ChangePending'
  BY DEF Down, EntriesAreCurrent, ChangePending
<1> QED
  BY <1>2, <1>3 DEF SchedulerInv

LEMMA BeginInv ==
  ASSUME SchedulerInv, Begin
  PROVE  SchedulerInv'
<1>1. /\ Configured \subseteq Tasks /\ \A t \in Configured : FromConfig[t] \in Schedules
  BY SchedulerAssumption
<1>2. /\ schedule' = [t \in Tasks |-> IF t \in Configured THEN FromConfig[t] ELSE schedule[t]]
      /\ current' = [t \in Tasks |-> IF t \in Configured THEN FromConfig[t] ELSE current[t]]
      /\ listed' = Configured /\ entries' = {<<t, FromConfig[t]>> : t \in Configured}
      /\ UNCHANGED update
  BY DEF Begin
<1>3. \A t \in Configured : schedule'[t] = FromConfig[t] /\ current'[t] = FromConfig[t]
  BY <1>1, <1>2
<1>4. schedule' \in [Tasks -> Schedules] /\ current' \in [Tasks -> Schedules]
  BY <1>1, <1>2 DEF SchedulerInv, SchedulerTyped
<1>5. SchedulerTyped'
  BY <1>1, <1>2, <1>4 DEF SchedulerInv, SchedulerTyped
<1>6. EntriesAreCurrent' /\ ChangePending'
  BY <1>2, <1>3 DEF EntriesAreCurrent, ChangePending
<1> QED
  BY <1>5, <1>6 DEF SchedulerInv

-----------------------------------------------------------------------------
LEMMA SchedulerNextInv == SchedulerInv /\ [SchedulerNext]_schedulerVars => SchedulerInv'
<1> SUFFICES ASSUME SchedulerInv, [SchedulerNext]_schedulerVars PROVE SchedulerInv'
  OBVIOUS
<1>1. ASSUME UNCHANGED <<listed, schedule, entries, current, update>> PROVE SchedulerInv'
  BY <1>1 DEF SchedulerInv, SchedulerTyped, EntriesAreCurrent, ChangePending
<1>2. ASSUME NEW t \in Tasks, NEW s \in Schedules, CreateTask(t, s) PROVE SchedulerInv'
  BY <1>2, CreateTaskInv
<1>3. ASSUME NEW t \in Tasks, DeleteTask(t) \/ Fire(t) \/ EndRun(t) PROVE SchedulerInv'
  BY <1>1, <1>3, DeleteTaskInv DEF Fire, EndRun
<1>4. ASSUME NEW h \in Handlers, NEW t \in Tasks, UpdateTask(h, t) PROVE SchedulerInv'
  BY <1>4, UpdateTaskInv
<1>5. ASSUME NEW h \in Handlers, NEW s \in Schedules, SetSchedule(h, s) PROVE SchedulerInv'
  BY <1>5, SetScheduleInv
<1>6. ASSUME NEW h \in Handlers, Remove(h) \/ Add(h) PROVE SchedulerInv'
  BY <1>6, RemoveInv, AddInv
<1>7. CASE Panic \/ Stop \/ Begin
  BY <1>7, DownInv, BeginInv DEF Panic, Stop
<1>8. CASE UNCHANGED schedulerVars
  BY <1>1, <1>8 DEF schedulerVars
<1> QED
  BY <1>2, <1>3, <1>4, <1>5, <1>6, <1>7, <1>8 DEF SchedulerNext

(* Types; cron's entries are those of the tasks that are listed; a task    *)
(* shown with another schedule than it runs on has an update that will     *)
(* remove it (AddTask, RemoveTask, updateTask).                            *)
THEOREM SchedulerInvariant == SchedulerSpec => []SchedulerInv
<1>1. SchedulerInit => SchedulerInv
  BY SchedulerInitInv
<1>2. SchedulerInv /\ [SchedulerNext]_schedulerVars => SchedulerInv'
  BY SchedulerNextInv
<1> QED
  BY <1>1, <1>2, PTL DEF SchedulerSpec

(* When no update is under way, cron runs exactly what is listed, on the   *)
(* schedules it is shown with, however many updates of one task have       *)
(* written into its object at the same time (updateTask).                  *)
THEOREM ScheduleShown == SchedulerSpec => []ScheduleIsShown
<1>1. SchedulerInv => ScheduleIsShown
  <2> SUFFICES ASSUME SchedulerInv, \A h \in Handlers : update[h].at \in {"none", "set"}
               PROVE  entries = {<<t, schedule[t]>> : t \in listed}
    BY DEF ScheduleIsShown
  <2>1. \A t \in listed : current[t] = schedule[t]
    <3> SUFFICES ASSUME NEW t \in listed, current[t] # schedule[t] PROVE FALSE
      OBVIOUS
    <3>1. PICK h \in Handlers : update[h] = [at |-> "remove", task |-> t]
      BY DEF SchedulerInv, ChangePending
    <3> QED
      BY <3>1
  <2> QED
    BY <2>1 DEF SchedulerInv, EntriesAreCurrent
<1> QED
  BY <1>1, SchedulerInvariant, PTL

-----------------------------------------------------------------------------
Labels == {"down", "wait", "select", "update", "delete", "count", "trim",
           "consolidate", "generate", "save"}

EpisodeRecords ==
  [outcome : Outcomes, age : Ages, pinned : BOOLEAN, accesses : Nat, importance : 0 .. 100]

ScoresOf(E) == [E -> 0 .. 100]

MemoryTyped ==
  /\ DOMAIN episodes \subseteq made /\ IsFiniteSet(DOMAIN episodes)
  /\ episodes \in [DOMAIN episodes -> EpisodeRecords]
  /\ gate \in [at : Labels, scores : UNION {ScoresOf(E) : E \in SUBSET made}, excess : Nat]

(* When the gate deletes what is below the threshold, the scores in the    *)
(* table are the ones it has written.                                      *)
ScoresInPlace ==
  gate.at = "delete" =>
    \A e \in DOMAIN gate.scores \cap DOMAIN episodes : episodes[e].importance = gate.scores[e]

(* When it deletes the excess, the table has not shrunk since the count.   *)
StillOver ==
  gate.at = "trim" =>
    gate.excess > 0 /\ Cardinality(DOMAIN episodes) >= MaxEpisodes + gate.excess

(* No formula gives a successful episode less than 30.                     *)
SuccessScores ==
  \A e \in DOMAIN episodes :
    episodes[e].outcome = "success" =>
      /\ episodes[e].importance >= 30
      /\ e \in DOMAIN gate.scores => gate.scores[e] >= 30

MemoryInv == MemoryTyped /\ ScoresInPlace /\ StillOver /\ SuccessScores

(* A successful episode is deleted only as excess, never for its own score *)
(* (calculateImportance of the executor, CalculateImportance and Cleanup). *)
SuccessKept ==
  [][\A e \in DOMAIN episodes \ DOMAIN episodes' :
       episodes[e].outcome = "success" => gate.at = "trim"]_memoryVars

(* What is deleted as excess leaves the table at its limit or above it,    *)
(* although the excess is what an earlier statement counted (Cleanup).     *)
NeverBelowLimit ==
  [][gate.at = "trim" => Cardinality(DOMAIN episodes') >= MaxEpisodes]_memoryVars

-----------------------------------------------------------------------------
(* Max and Min where they are used: of two integers, and of the ages.      *)
LEMMA MaxOfTwo ==
  ASSUME NEW a \in Int, NEW b \in Int
  PROVE  Max({a, b}) \in {a, b} /\ Max({a, b}) >= a /\ Max({a, b}) >= b
<1>1. \E x \in {a, b} : \A y \in {a, b} : x >= y
  <2>1. CASE a >= b
    BY <2>1
  <2>2. CASE b >= a
    BY <2>2
  <2> QED
    BY <2>1, <2>2
<1>2. Max({a, b}) \in {a, b} /\ \A y \in {a, b} : Max({a, b}) >= y
  BY <1>1 DEF Max
<1> QED
  BY <1>2

LEMMA MinOfTwo ==
  ASSUME NEW a \in Int, NEW b \in Int
  PROVE  Min({a, b}) \in {a, b} /\ Min({a, b}) <= a /\ Min({a, b}) <= b
<1>1. \E x \in {a, b} : \A y \in {a, b} : x <= y
  <2>1. CASE a <= b
    BY <2>1
  <2>2. CASE b <= a
    BY <2>2
  <2> QED
    BY <2>1, <2>2
<1>2. Min({a, b}) \in {a, b} /\ \A y \in {a, b} : Min({a, b}) <= y
  BY <1>1 DEF Min
<1> QED
  BY <1>2

LEMMA LeastAge ==
  ASSUME NEW S \in SUBSET Nat, S # {}
  PROVE  Min(S) \in S
<1> DEFINE R == OpToRel(<, Nat)
<1>1. IsWellFoundedOn(R, Nat)
  BY NatLessThanWellFounded
<1>2. \A x, y \in Nat : ~(<<y, x>> \in R) => x <= y
  BY DEF OpToRel
<1> HIDE DEF R
<1>3. \E x \in S : \A y \in S : ~(<<y, x>> \in R)
  BY <1>1, WFMin
<1>4. \E x \in S : \A y \in S : x <= y
  BY <1>2, <1>3
<1> QED
  BY <1>4 DEF Min

LEMMA NextAge ==
  ASSUME NEW a \in Ages
  PROVE  (IF a = Max(Ages) THEN a ELSE Min({b \in Ages : b > a})) \in Ages
<1>1. CASE a = Max(Ages)
  BY <1>1
<1>2. CASE a # Max(Ages)
  <2>1. {b \in Ages : b > a} # {}
    <3> SUFFICES ASSUME \A b \in Ages : ~(b > a)
                 PROVE  FALSE
      OBVIOUS
    <3>1. Ages \subseteq Nat
      BY MemoryAssumption
    <3>2. \A b \in Ages : a >= b
      BY <3>1
    <3>3. Max(Ages) \in Ages /\ \A b \in Ages : Max(Ages) >= b
      BY <3>2 DEF Max
    <3>4. Max(Ages) = a
      <4>1. a \in Nat /\ Max(Ages) \in Nat /\ a >= Max(Ages) /\ Max(Ages) >= a
        BY <3>1, <3>2, <3>3
      <4> HIDE DEF Max
      <4> QED
        BY <4>1
    <3> QED
      BY <1>2, <3>4
  <2>2. {b \in Ages : b > a} \in SUBSET Nat
    BY MemoryAssumption
  <2>3. Min({b \in Ages : b > a}) \in {b \in Ages : b > a}
    BY <2>1, <2>2, LeastAge
  <2> QED
    BY <1>2, <2>3
<1> QED
  BY <1>1, <1>2

LEMMA ImportanceBounds ==
  ASSUME NEW ep \in EpisodeRecords
  PROVE  /\ CalculateImportance(ep) \in 0 .. 100
         /\ ep.outcome = "success" => CalculateImportance(ep) >= 30
<1> DEFINE decay   == Max({-30, -10 * ep.age})
           access  == Min({20, 5 * ep.accesses})
           outcome == CASE ep.outcome = "success" -> 10
                        [] ep.outcome = "failed"  -> -5
                        [] OTHER -> 0
           total == 50 + decay + access + outcome
           capped == Min({100, total})
<1>1. ep.age \in Nat /\ ep.accesses \in Nat
  BY MemoryAssumption DEF EpisodeRecords
<1>2. decay \in Int /\ decay >= -30
  <2>1. -30 \in Int /\ -10 * ep.age \in Int
    BY <1>1
  <2> QED
    BY <2>1, MaxOfTwo
<1>3. access \in Nat
  <2> DEFINE often == 5 * ep.accesses
  <2>1. 20 \in Int /\ often \in Nat /\ often \in Int
    BY <1>1
  <2> HIDE DEF often
  <2>2. Min({20, often}) \in {20, often}
    BY <2>1, MinOfTwo
  <2>3. Min({20, often}) \in Nat
    BY <2>1, <2>2
  <2> QED
    BY <2>3 DEF often
<1>4. outcome \in {10, -5, 0} /\ (ep.outcome = "success" => outcome = 10)
  OBVIOUS
<1> HIDE DEF decay, access, outcome
<1>5. total \in Int /\ (ep.outcome = "success" => total >= 30)
  BY <1>2, <1>3, <1>4
<1> HIDE DEF total
<1>6. capped \in {100, total} /\ capped <= 100
  BY <1>5, MinOfTwo, 100 \in Int
<1> HIDE DEF capped
<1>7. CalculateImportance(ep) = Max({0, capped})
  BY DEF CalculateImportance, capped, total, decay, access, outcome
<1>8. Max({0, capped}) \in {0, capped} /\ Max({0, capped}) >= 0 /\ Max({0, capped}) >= capped
  <2>1. capped \in Int /\ 0 \in Int
    BY <1>5, <1>6
  <2> QED
    BY <2>1, MaxOfTwo
<1> QED
  BY <1>5, <1>6, <1>7, <1>8

LEMMA FirstBounds ==
  ASSUME NEW o \in Outcomes, NEW n \in Changes
  PROVE  NewEpisode(o, n) \in EpisodeRecords /\ NewEpisode(o, n).importance >= 30
<1> DEFINE total == 50 + 20 * n + (IF o = "success" THEN 10 ELSE 0)
<1>1. total \in Int /\ total >= 50
  BY MemoryAssumption
<1> HIDE DEF total
<1>2. Min({100, total}) \in {100, total} /\ Min({100, total}) <= 100
  BY <1>1, MinOfTwo, 100 \in Int
<1>3. FirstImportance(o, n) = Min({100, total})
  BY DEF FirstImportance, total
<1>4. FirstImportance(o, n) \in 0 .. 100 /\ FirstImportance(o, n) >= 30
  BY <1>1, <1>2, <1>3
<1> QED
  BY <1>4, MemoryAssumption DEF NewEpisode, EpisodeRecords

-----------------------------------------------------------------------------
(* What the actions do to the table and to what the gate has read.         *)
LEMMA NoScores == <<>> \in ScoresOf({}) /\ DOMAIN <<>> = {}
BY DEF ScoresOf

LEMMA ScoresGrow ==
  ASSUME NEW E \in SUBSET made, made \subseteq made'
  PROVE  ScoresOf(E) \subseteq UNION {ScoresOf(F) : F \in SUBSET made'}
BY DEF ScoresOf

(* An episode is looked up, pinned, unpinned or gets older.                *)
LEMMA RowsChange ==
  ASSUME MemoryInv, UNCHANGED <<made, gate>>,
         episodes' = [e \in DOMAIN episodes |-> episodes'[e]],
         \A e \in DOMAIN episodes :
           /\ episodes'[e] \in EpisodeRecords
           /\ episodes'[e].importance = episodes[e].importance
           /\ episodes'[e].outcome = episodes[e].outcome
  PROVE  MemoryInv'
<1>1. DOMAIN episodes' = DOMAIN episodes
  OBVIOUS
<1>2. episodes' \in [DOMAIN episodes -> EpisodeRecords]
  OBVIOUS
<1>3. MemoryTyped'
  BY <1>1, <1>2 DEF MemoryInv, MemoryTyped
<1>4. ScoresInPlace' /\ StillOver' /\ SuccessScores'
  BY <1>1 DEF MemoryInv, ScoresInPlace, StillOver, SuccessScores
<1> QED
  BY <1>3, <1>4 DEF MemoryInv

(* The gate goes on to a place where it relies on nothing.                 *)
LEMMA GateMoves ==
  ASSUME MemoryInv, UNCHANGED <<episodes, made>>, NEW l \in Labels \ {"delete", "trim"},
         gate' \in {GoTo(l), [Waiting EXCEPT !.at = l]}
  PROVE  MemoryInv'
<1>1. gate \in [at : Labels, scores : UNION {ScoresOf(E) : E \in SUBSET made}, excess : Nat]
  BY DEF MemoryInv, MemoryTyped
<1>2. CASE gate' = GoTo(l)
  <2>1. /\ gate' \in [at : Labels, scores : UNION {ScoresOf(E) : E \in SUBSET made}, excess : Nat]
        /\ gate'.at = l /\ gate'.scores = gate.scores
    BY <1>1, <1>2 DEF GoTo
  <2>2. gate'.at # "delete" /\ gate'.at # "trim"
    BY <2>1
  <2> QED
    BY <2>1, <2>2 DEF MemoryInv, MemoryTyped, ScoresInPlace, StillOver, SuccessScores
<1>3. CASE gate' = [Waiting EXCEPT !.at = l]
  <2>1. gate' = [at |-> l, scores |-> <<>>, excess |-> 0]
    BY <1>3 DEF Waiting
  <2>2. <<>> \in UNION {ScoresOf(E) : E \in SUBSET made}
    BY NoScores
  <2>3. /\ gate' \in [at : Labels, scores : UNION {ScoresOf(E) : E \in SUBSET made}, excess : Nat]
        /\ gate'.at = l /\ DOMAIN gate'.scores = {}
    BY <2>1, <2>2, NoScores
  <2>4. gate'.at # "delete" /\ gate'.at # "trim"
    BY <2>3
  <2> QED
    BY <2>3, <2>4 DEF MemoryInv, MemoryTyped, ScoresInPlace, StillOver, SuccessScores
<1> QED
  BY <1>2, <1>3

LEMMA SaveEpisodeInv ==
  ASSUME MemoryInv, NEW e \in Ids, NEW o \in Outcomes, NEW n \in Changes, SaveEpisode(e, o, n)
  PROVE  MemoryInv'
<1>1. /\ e \notin made /\ made' = made \cup {e} /\ gate' = gate
      /\ DOMAIN episodes \subseteq made /\ IsFiniteSet(DOMAIN episodes)
      /\ episodes \in [DOMAIN episodes -> EpisodeRecords]
      /\ gate \in [at : Labels, scores : UNION {ScoresOf(E) : E \in SUBSET made}, excess : Nat]
  BY DEF SaveEpisode, MemoryInv, MemoryTyped
<1>2. gate.scores \in UNION {ScoresOf(E) : E \in SUBSET made} /\ DOMAIN gate.scores \subseteq made
  BY <1>1 DEF ScoresOf
<1>3. gate' \in [at : Labels, scores : UNION {ScoresOf(E) : E \in SUBSET made'}, excess : Nat]
  <2>1. gate.scores \in UNION {ScoresOf(E) : E \in SUBSET made'}
    BY <1>1, <1>2, ScoresGrow
  <2> QED
    BY <1>1, <2>1
<1>4. CASE episodes' = episodes
  BY <1>1, <1>3, <1>4 DEF MemoryInv, MemoryTyped, ScoresInPlace, StillOver, SuccessScores
<1>5. CASE episodes' = [f \in DOMAIN episodes \cup {e} |->
                          IF f = e THEN NewEpisode(o, n) ELSE episodes[f]]
  <2>1. NewEpisode(o, n) \in EpisodeRecords /\ NewEpisode(o, n).importance >= 30
    BY FirstBounds
  <2>2. /\ DOMAIN episodes' = DOMAIN episodes \cup {e} /\ episodes'[e] = NewEpisode(o, n)
        /\ e \notin DOMAIN episodes /\ e \notin DOMAIN gate.scores
        /\ \A f \in DOMAIN episodes : episodes'[f] = episodes[f]
    BY <1>1, <1>2, <1>5
  <2>3. /\ IsFiniteSet(DOMAIN episodes')
        /\ Cardinality(DOMAIN episodes') = Cardinality(DOMAIN episodes) + 1
        /\ Cardinality(DOMAIN episodes) \in Nat
    BY <1>1, <2>2, FS_AddElement, FS_CardinalityType
  <2>4. episodes' \in [DOMAIN episodes' -> EpisodeRecords]
    BY <1>1, <1>5, <2>1
  <2>5. MemoryTyped'
    BY <1>1, <1>3, <2>2, <2>3, <2>4 DEF MemoryTyped
  <2>6. ScoresInPlace' /\ SuccessScores'
    BY <1>1, <2>1, <2>2 DEF MemoryInv, ScoresInPlace, SuccessScores
  <2>7. StillOver'
    BY <1>1, <2>3, MemoryAssumption DEF MemoryInv, StillOver
  <2> QED
    BY <2>5, <2>6, <2>7 DEF MemoryInv
<1> QED
  BY <1>4, <1>5 DEF SaveEpisode

LEMMA IncrementAccessCountInv ==
  ASSUME MemoryInv, NEW e \in Ids, IncrementAccessCount(e)
  PROVE  MemoryInv'
<1>1. /\ e \in DOMAIN episodes /\ episodes \in [DOMAIN episodes -> EpisodeRecords]
      /\ episodes' = [episodes EXCEPT ![e].accesses = @ + 1] /\ UNCHANGED <<made, gate>>
  BY DEF IncrementAccessCount, MemoryInv, MemoryTyped
<1>2. ASSUME NEW r \in EpisodeRecords
      PROVE  LET q == [r EXCEPT !.accesses = @ + 1]
             IN  q \in EpisodeRecords /\ q.importance = r.importance /\ q.outcome = r.outcome
  BY DEF EpisodeRecords
<1>3. ASSUME NEW f \in DOMAIN episodes
      PROVE  /\ episodes'[f] \in EpisodeRecords
             /\ episodes'[f].importance = episodes[f].importance
             /\ episodes'[f].outcome = episodes[f].outcome
  BY <1>1, <1>2
<1> QED
  BY <1>1, <1>3, RowsChange

LEMMA SetPinnedInv ==
  ASSUME MemoryInv, NEW e \in Ids, NEW p \in BOOLEAN, SetPinned(e, p)
  PROVE  MemoryInv'
<1>1. /\ e \in DOMAIN episodes /\ episodes \in [DOMAIN episodes -> EpisodeRecords]
      /\ episodes' = [episodes EXCEPT ![e].pinned = p] /\ UNCHANGED <<made, gate>>
  BY DEF SetPinned, MemoryInv, MemoryTyped
<1>2. ASSUME NEW r \in EpisodeRecords
      PROVE  LET q == [r EXCEPT !.pinned = p]
             IN  q \in EpisodeRecords /\ q.importance = r.importance /\ q.outcome = r.outcome
  BY DEF EpisodeRecords
<1>3. ASSUME NEW f \in DOMAIN episodes
      PROVE  /\ episodes'[f] \in EpisodeRecords
             /\ episodes'[f].importance = episodes[f].importance
             /\ episodes'[f].outcome = episodes[f].outcome
  BY <1>1, <1>2
<1> QED
  BY <1>1, <1>3, RowsChange

LEMMA TimePassesInv ==
  ASSUME MemoryInv, TimePasses
  PROVE  MemoryInv'
<1>1. /\ episodes \in [DOMAIN episodes -> EpisodeRecords] /\ UNCHANGED <<made, gate>>
      /\ episodes' = [e \in DOMAIN episodes |-> [episodes[e] EXCEPT !.age =
                        IF @ = Max(Ages) THEN @ ELSE Min({a \in Ages : a > @})]]
  BY DEF TimePasses, MemoryInv, MemoryTyped
<1>2. ASSUME NEW r \in EpisodeRecords, NEW a \in Ages
      PROVE  LET q == [r EXCEPT !.age = a]
             IN  q \in EpisodeRecords /\ q.importance = r.importance /\ q.outcome = r.outcome
  BY DEF EpisodeRecords
<1>3. ASSUME NEW f \in DOMAIN episodes
      PROVE  /\ episodes'[f] \in EpisodeRecords
             /\ episodes'[f].importance = episodes[f].importance
             /\ episodes'[f].outcome = episodes[f].outcome
  <2> DEFINE old == episodes[f].age
             new == IF old = Max(Ages) THEN old ELSE Min({a \in Ages : a > old})
  <2>1. episodes[f] \in EpisodeRecords /\ episodes[f].age \in Ages
    BY <1>1 DEF EpisodeRecords
  <2>2. new \in Ages
    BY <2>1, NextAge
  <2>3. episodes'[f] = [episodes[f] EXCEPT !.age = new]
    BY <1>1
  <2> HIDE DEF new
  <2> QED
    BY <1>2, <2>1, <2>2, <2>3
<1> QED
  BY <1>1, <1>3, RowsChange

-----------------------------------------------------------------------------
LEMMA SelectUnpinnedInv ==
  ASSUME MemoryInv, SelectUnpinned
  PROVE  MemoryInv'
<1> DEFINE unpinned == DOMAIN episodes \ Pinned
           scores == [e \in unpinned |-> CalculateImportance(episodes[e])]
           l == IF unpinned = {} THEN "delete" ELSE "update"
<1>1. /\ episodes \in [DOMAIN episodes -> EpisodeRecords] /\ DOMAIN episodes \subseteq made
      /\ gate \in [at : Labels, scores : UNION {ScoresOf(E) : E \in SUBSET made}, excess : Nat]
      /\ UNCHANGED <<episodes, made>>
  BY DEF SelectUnpinned, MemoryInv, MemoryTyped
<1>2. \A e \in DOMAIN episodes :
        /\ CalculateImportance(episodes[e]) \in 0 .. 100
        /\ episodes[e].outcome = "success" => CalculateImportance(episodes[e]) >= 30
  BY <1>1, ImportanceBounds
<1>3. scores \in ScoresOf(unpinned) /\ unpinned \in SUBSET made /\ DOMAIN scores = unpinned
  BY <1>1, <1>2 DEF ScoresOf
<1>4. gate' = [gate EXCEPT !.at = l, !.scores = scores]
  BY DEF SelectUnpinned
<1>5. \A e \in DOMAIN scores : episodes[e].outcome = "success" => scores[e] >= 30
  BY <1>2
<1>6. l \in Labels /\ l # "trim" /\ (l = "delete" => DOMAIN scores = {})
  BY DEF Labels
<1> HIDE DEF scores, l
<1>7. /\ gate' \in [at : Labels, scores : UNION {ScoresOf(E) : E \in SUBSET made}, excess : Nat]
      /\ gate'.at = l /\ gate'.scores = scores
  <2>1. scores \in UNION {ScoresOf(E) : E \in SUBSET made}
    BY <1>3
  <2> QED
    BY <1>1, <1>4, <1>6, <2>1
<1> QED
  BY <1>1, <1>5, <1>6, <1>7 DEF MemoryInv, MemoryTyped, ScoresInPlace, StillOver, SuccessScores

LEMMA UpdateImportanceInv ==
  ASSUME MemoryInv, UpdateImportance
  PROVE  MemoryInv'
<1>1. /\ episodes \in [DOMAIN episodes -> EpisodeRecords] /\ made' = made
      /\ gate \in [at : Labels, scores : UNION {ScoresOf(E) : E \in SUBSET made}, excess : Nat]
      /\ gate' = [gate EXCEPT !.at = "delete"]
  BY DEF UpdateImportance, GoTo, MemoryInv, MemoryTyped
<1>2. /\ gate' \in [at : Labels, scores : UNION {ScoresOf(E) : E \in SUBSET made}, excess : Nat]
      /\ gate'.at = "delete" /\ gate'.scores = gate.scores
  BY <1>1 DEF Labels
<1>3. \A e \in DOMAIN gate.scores : gate.scores[e] \in 0 .. 100
  BY <1>1 DEF ScoresOf
<1>4. ASSUME NEW r \in EpisodeRecords, NEW i \in 0 .. 100, NEW q,
             q = [r EXCEPT !.importance = i]
      PROVE  q \in EpisodeRecords /\ q.importance = i /\ q.outcome = r.outcome
  BY <1>4 DEF EpisodeRecords
<1>5. DOMAIN episodes' = DOMAIN episodes
  BY DEF UpdateImportance
<1>6. ASSUME NEW e \in DOMAIN episodes
      PROVE  /\ episodes'[e] \in EpisodeRecords
             /\ episodes'[e].outcome = episodes[e].outcome
             /\ IF e \in DOMAIN gate.scores THEN episodes'[e].importance = gate.scores[e]
                ELSE episodes'[e].importance = episodes[e].importance
  <2>1. episodes'[e] = IF e \in DOMAIN gate.scores
                         THEN [episodes[e] EXCEPT !.importance = gate.scores[e]]
                         ELSE episodes[e]
    BY DEF UpdateImportance
  <2>2. episodes[e] \in EpisodeRecords
    BY <1>1
  <2>3. CASE e \in DOMAIN gate.scores
    <3>1. /\ episodes'[e] = [episodes[e] EXCEPT !.importance = gate.scores[e]]
          /\ gate.scores[e] \in 0 .. 100
      BY <1>3, <2>1, <2>3
    <3>2. /\ episodes'[e] \in EpisodeRecords /\ episodes'[e].importance = gate.scores[e]
          /\ episodes'[e].outcome = episodes[e].outcome
      BY <1>4, <2>2, <3>1
    <3> QED
      BY <2>3, <3>2
  <2>4. CASE e \notin DOMAIN gate.scores
    BY <2>1, <2>2, <2>4
  <2> QED
    BY <2>3, <2>4
<1>7. episodes' \in [DOMAIN episodes' -> EpisodeRecords]
  <2>1. episodes' = [e \in DOMAIN episodes |-> episodes'[e]]
    BY DEF UpdateImportance
  <2> QED
    BY <1>5, <1>6, <2>1
<1>8. MemoryTyped'
  BY <1>1, <1>2, <1>5, <1>7 DEF MemoryInv, MemoryTyped
<1>9. ScoresInPlace' /\ StillOver' /\ SuccessScores'
  BY <1>2, <1>5, <1>6 DEF MemoryInv, ScoresInPlace, StillOver, SuccessScores
<1> QED
  BY <1>8, <1>9 DEF MemoryInv

(* The gate deletes some episodes and goes on.                             *)
LEMMA RowsDeleted ==
  ASSUME MemoryInv, NEW D \in SUBSET DOMAIN episodes, episodes' = Without(D), made' = made,
         NEW l \in Labels \ {"delete", "trim"}, gate' = GoTo(l)
  PROVE  MemoryInv'
<1>1. /\ episodes \in [DOMAIN episodes -> EpisodeRecords] /\ DOMAIN episodes \subseteq made
      /\ IsFiniteSet(DOMAIN episodes)
      /\ gate \in [at : Labels, scores : UNION {ScoresOf(E) : E \in SUBSET made}, excess : Nat]
  BY DEF MemoryInv, MemoryTyped
<1>2. /\ DOMAIN episodes' = DOMAIN episodes \ D
      /\ \A e \in DOMAIN episodes' : episodes'[e] = episodes[e]
      /\ episodes' \in [DOMAIN episodes' -> EpisodeRecords]
  BY <1>1 DEF Without
<1>3. IsFiniteSet(DOMAIN episodes')
  BY <1>1, <1>2, FS_Subset
<1>4. /\ gate' \in [at : Labels, scores : UNION {ScoresOf(E) : E \in SUBSET made}, excess : Nat]
      /\ gate'.at # "delete" /\ gate'.at # "trim" /\ gate'.scores = gate.scores
  BY <1>1 DEF GoTo
<1>5. MemoryTyped'
  BY <1>1, <1>2, <1>3, <1>4 DEF MemoryTyped
<1>6. ScoresInPlace' /\ StillOver' /\ SuccessScores'
  BY <1>2, <1>4 DEF MemoryInv, ScoresInPlace, StillOver, SuccessScores
<1> QED
  BY <1>5, <1>6 DEF MemoryInv

LEMMA DeletionsInv ==
  ASSUME MemoryInv, DeleteForgotten \/ DeleteExcess
  PROVE  MemoryInv'
<1>1. CASE DeleteForgotten
  <2>1. {e \in Expendable : episodes[e].importance < Threshold} \in SUBSET DOMAIN episodes
    BY DEF Expendable
  <2>2. "count" \in Labels \ {"delete", "trim"}
    BY DEF Labels
  <2> QED
    BY <1>1, <2>1, <2>2, RowsDeleted DEF DeleteForgotten
<1>2. CASE DeleteExcess
  <2>1. PICK D \in Lowest(Expendable) : episodes' = Without(D)
    BY <1>2 DEF DeleteExcess
  <2>2. D \in SUBSET DOMAIN episodes
    BY DEF Lowest, Expendable
  <2>3. "consolidate" \in Labels \ {"delete", "trim"}
    BY DEF Labels
  <2> QED
    BY <1>2, <2>1, <2>2, <2>3, RowsDeleted DEF DeleteExcess
<1> QED
  BY <1>1, <1>2

LEMMA CountEpisodesInv ==
  ASSUME MemoryInv, CountEpisodes
  PROVE  MemoryInv'
<1>1. /\ UNCHANGED <<episodes, made>>
      /\ gate' = IF Excess > 0 THEN [gate EXCEPT !.at = "trim", !.excess = Excess]
                               ELSE GoTo("consolidate")
      /\ gate \in [at : Labels, scores : UNION {ScoresOf(E) : E \in SUBSET made}, excess : Nat]
      /\ IsFiniteSet(DOMAIN episodes)
  BY DEF CountEpisodes, MemoryInv, MemoryTyped
<1>2. CASE ~(Excess > 0)
  <2>1. "consolidate" \in Labels \ {"delete", "trim"}
    BY DEF Labels
  <2> QED
    BY <1>1, <1>2, <2>1, GateMoves
<1>3. CASE Excess > 0
  <2>1. /\ Cardinality(DOMAIN episodes) \in Nat /\ Excess \in Nat
        /\ Cardinality(DOMAIN episodes) = MaxEpisodes + Excess
    BY <1>1, <1>3, FS_CardinalityType, MemoryAssumption DEF Excess
  <2> HIDE DEF Excess
  <2>2. /\ gate' \in [at : Labels, scores : UNION {ScoresOf(E) : E \in SUBSET made}, excess : Nat]
        /\ gate'.at = "trim" /\ gate'.excess = Excess /\ gate'.scores = gate.scores
    BY <1>1, <1>3, <2>1 DEF Labels
  <2>3. StillOver'
    BY <1>1, <1>3, <2>1, <2>2, MemoryAssumption DEF StillOver
  <2> QED
    BY <1>1, <2>2, <2>3 DEF MemoryInv, MemoryTyped, ScoresInPlace, SuccessScores
<1> QED
  BY <1>2, <1>3

-----------------------------------------------------------------------------
LEMMA MemoryInitInv == MemoryInit => MemoryInv
<1> SUFFICES ASSUME MemoryInit PROVE MemoryInv
  OBVIOUS
<1>1. /\ episodes = <<>> /\ made = {} /\ gate = [at |-> "wait", scores |-> <<>>, excess |-> 0]
  BY DEF MemoryInit, Waiting
<1>2. DOMAIN episodes = {} /\ episodes \in [{} -> EpisodeRecords] /\ IsFiniteSet({})
  BY <1>1, FS_EmptySet
<1>3. <<>> \in UNION {ScoresOf(E) : E \in SUBSET made}
  BY NoScores
<1> QED
  BY <1>1, <1>2, <1>3
  DEF MemoryInv, MemoryTyped, Labels, ScoresInPlace, StillOver, SuccessScores

LEMMA MemoryNextInv == MemoryInv /\ [MemoryNext]_memoryVars => MemoryInv'
<1> SUFFICES ASSUME MemoryInv, [MemoryNext]_memoryVars PROVE MemoryInv'
  OBVIOUS
<1>0. \A l \in {"wait", "select", "count", "consolidate", "generate", "save", "down"} :
        l \in Labels \ {"delete", "trim"}
  BY DEF Labels
<1>1. Waiting = [Waiting EXCEPT !.at = "wait"]
  BY DEF Waiting
<1>2. ASSUME NEW e \in Ids, NEW o \in Outcomes, NEW n \in Changes, SaveEpisode(e, o, n)
      PROVE  MemoryInv'
  BY <1>2, SaveEpisodeInv
<1>3. ASSUME NEW e \in Ids, IncrementAccessCount(e) PROVE MemoryInv'
  BY <1>3, IncrementAccessCountInv
<1>4. ASSUME NEW e \in Ids, NEW p \in BOOLEAN, SetPinned(e, p) PROVE MemoryInv'
  BY <1>4, SetPinnedInv
<1>5. ASSUME NEW s \in Sessions, SaveMessage(s) \/ CleanupExpired(s) PROVE MemoryInv'
  <2>1. UNCHANGED <<episodes, made, gate>>
    BY <1>5 DEF SaveMessage, CleanupExpired
  <2> QED
    BY <2>1 DEF MemoryInv, MemoryTyped, ScoresInPlace, StillOver, SuccessScores
<1>6. CASE RunForgetGate
  BY <1>0, <1>6, GateMoves DEF RunForgetGate
<1>7. CASE SelectUnpinned
  BY <1>7, SelectUnpinnedInv
<1>8. CASE UpdateImportance
  BY <1>8, UpdateImportanceInv
<1>9. CASE DeleteForgotten \/ DeleteExcess
  BY <1>9, DeletionsInv
<1>10. CASE CountEpisodes
  BY <1>10, CountEpisodesInv
<1>11. CASE StatementFails
  BY <1>0, <1>11, GateMoves DEF StatementFails
<1>12. CASE RunConsolidation
  BY <1>0, <1>1, <1>12, GateMoves DEF RunConsolidation
<1>13. CASE GenerateKnowledge
  BY <1>0, <1>1, <1>13, GateMoves DEF GenerateKnowledge
<1>14. CASE SaveKnowledge
  BY <1>0, <1>1, <1>14, GateMoves DEF SaveKnowledge
<1>15. CASE TimePasses
  BY <1>15, TimePassesInv
<1>16. CASE ProcessEnds
  BY <1>0, <1>16, GateMoves DEF ProcessEnds, NotRunning
<1>17. CASE ProcessStarts
  BY <1>0, <1>1, <1>17, GateMoves DEF ProcessStarts
<1>18. CASE UNCHANGED memoryVars
  BY <1>18 DEF memoryVars, MemoryInv, MemoryTyped, ScoresInPlace, StillOver, SuccessScores
<1> QED
  BY <1>2, <1>3, <1>4, <1>5, <1>6, <1>7, <1>8, <1>9, <1>10, <1>11, <1>12, <1>13, <1>14,
     <1>15, <1>16, <1>17, <1>18 DEF MemoryNext

(* What the gate has read is still true when it acts on it (UpdateAll-     *)
(* Importance, Cleanup), and scores are between 0 and 100.                 *)
THEOREM MemoryInvariant == MemorySpec => []MemoryInv
<1>1. MemoryInit => MemoryInv
  BY MemoryInitInv
<1>2. MemoryInv /\ [MemoryNext]_memoryVars => MemoryInv'
  BY MemoryNextInv
<1> QED
  BY <1>1, <1>2, PTL DEF MemorySpec

-----------------------------------------------------------------------------
(* Only the gate's two statements take rows out of the table.              *)
LEMMA OnlyGateDeletes ==
  ASSUME MemoryInv, [MemoryNext]_memoryVars, ~DeleteForgotten, ~DeleteExcess
  PROVE  DOMAIN episodes \subseteq DOMAIN episodes'
<1>1. ASSUME NEW e \in Ids, NEW o \in Outcomes, NEW n \in Changes, SaveEpisode(e, o, n)
      PROVE  DOMAIN episodes \subseteq DOMAIN episodes'
  BY <1>1 DEF SaveEpisode
<1>2. ASSUME NEW e \in Ids, IncrementAccessCount(e) \/ \E p \in BOOLEAN : SetPinned(e, p)
      PROVE  DOMAIN episodes \subseteq DOMAIN episodes'
  BY <1>2 DEF IncrementAccessCount, SetPinned
<1>3. CASE UpdateImportance \/ TimePasses
  BY <1>3 DEF UpdateImportance, TimePasses
<1>4. CASE episodes' = episodes
  BY <1>4
<1>5. ASSUME NEW s \in Sessions, SaveMessage(s) \/ CleanupExpired(s) PROVE episodes' = episodes
  BY <1>5 DEF SaveMessage, CleanupExpired
<1>6. ASSUME \/ RunForgetGate \/ SelectUnpinned \/ CountEpisodes \/ StatementFails
             \/ RunConsolidation \/ GenerateKnowledge \/ SaveKnowledge
             \/ ProcessEnds \/ ProcessStarts \/ UNCHANGED memoryVars
      PROVE  episodes' = episodes
  BY <1>6 DEF RunForgetGate, SelectUnpinned, CountEpisodes, StatementFails, RunConsolidation,
     GenerateKnowledge, SaveKnowledge, ProcessEnds, ProcessStarts, memoryVars
<1> QED
  BY <1>1, <1>2, <1>3, <1>4, <1>5, <1>6 DEF MemoryNext

LEMMA ForgottenStep ==
  ASSUME MemoryInv, DeleteForgotten, NEW e \in DOMAIN episodes \ DOMAIN episodes'
  PROVE  /\ e \in Expendable /\ episodes[e].importance < Threshold
         /\ e \in DOMAIN gate.scores => gate.scores[e] < Threshold
<1>1. e \in Expendable /\ episodes[e].importance < Threshold /\ gate.at = "delete"
  BY DEF DeleteForgotten, Without
<1>2. e \in DOMAIN gate.scores => episodes[e].importance = gate.scores[e]
  BY <1>1 DEF MemoryInv, ScoresInPlace
<1> QED
  BY <1>1, <1>2

LEMMA ExcessStep ==
  ASSUME MemoryInv, DeleteExcess
  PROVE  /\ gate.at = "trim" /\ gate.excess > 0
         /\ \A e \in DOMAIN episodes \ DOMAIN episodes' :
              /\ e \in Expendable
              /\ \A f \in DOMAIN episodes' \cap Expendable :
                   episodes[e].importance <= episodes[f].importance
         /\ Cardinality(DOMAIN episodes') >= MaxEpisodes
<1>1. gate.at = "trim" /\ gate.excess > 0 /\ gate.excess \in Nat
      /\ Cardinality(DOMAIN episodes) >= MaxEpisodes + gate.excess
      /\ IsFiniteSet(DOMAIN episodes)
  BY DEF DeleteExcess, MemoryInv, MemoryTyped, StillOver
<1>2. PICK D \in Lowest(Expendable) : episodes' = Without(D)
  BY DEF DeleteExcess
<1>3. /\ D \subseteq Expendable /\ Expendable \subseteq DOMAIN episodes
      /\ Cardinality(D) = Min({gate.excess, Cardinality(Expendable)})
      /\ \A d \in D, f \in Expendable \ D : episodes[d].importance <= episodes[f].importance
      /\ DOMAIN episodes' = DOMAIN episodes \ D
  BY <1>2 DEF Lowest, Expendable, Without
<1>4. Cardinality(DOMAIN episodes') >= MaxEpisodes
  <2>1. IsFiniteSet(Expendable) /\ IsFiniteSet(D) /\ DOMAIN episodes \cap D = D
    BY <1>1, <1>3, FS_Subset
  <2>2. /\ Cardinality(Expendable) \in Nat /\ Cardinality(D) \in Nat
        /\ Cardinality(DOMAIN episodes) \in Nat
    BY <1>1, <2>1, FS_CardinalityType
  <2>3. Cardinality(D) <= gate.excess
    <3>1. gate.excess \in Int /\ Cardinality(Expendable) \in Int
      BY <1>1, <2>2
    <3>2. Min({gate.excess, Cardinality(Expendable)}) <= gate.excess
      BY <3>1, MinOfTwo
    <3> QED
      BY <1>3, <3>2
  <2>4. Cardinality(DOMAIN episodes') = Cardinality(DOMAIN episodes) - Cardinality(D)
    BY <1>1, <1>3, <2>1, FS_Difference
  <2> QED
    BY <1>1, <2>2, <2>3, <2>4, MemoryAssumption
<1> QED
  BY <1>1, <1>3, <1>4

(* What leaves the table is neither pinned nor young, and was found below  *)
(* the threshold by this cleanup, or had no score because it was pinned    *)
(* then, or is the least important of a table over its limit (Cleanup).    *)
THEOREM ForgottenOnly == MemorySpec => OnlyForgotten
<1>1. ASSUME MemoryInv, [MemoryNext]_memoryVars, NEW e \in DOMAIN episodes \ DOMAIN episodes'
      PROVE  /\ e \in Expendable
             /\ \/ e \in DOMAIN gate.scores => gate.scores[e] < Threshold
                \/ /\ gate.excess > 0
                   /\ \A f \in DOMAIN episodes' \cap Expendable :
                        episodes[e].importance <= episodes[f].importance
  BY <1>1, OnlyGateDeletes, ForgottenStep, ExcessStep
<1>2. MemoryInv /\ [MemoryNext]_memoryVars =>
        [\A e \in DOMAIN episodes \ DOMAIN episodes' :
           /\ e \in Expendable
           /\ \/ e \in DOMAIN gate.scores => gate.scores[e] < Threshold
              \/ /\ gate.excess > 0
                 /\ \A f \in DOMAIN episodes' \cap Expendable :
                      episodes[e].importance <= episodes[f].importance]_memoryVars
  BY <1>1
<1> QED
  BY <1>2, MemoryInvariant, PTL DEF MemorySpec, OnlyForgotten

(* With the default threshold of 25, or any up to 30, no successful        *)
(* episode is ever forgotten for its score, however old and unused it is   *)
(* (CalculateImportance, Cleanup): only a table over its limit loses some. *)
THEOREM SuccessIsKept == Threshold <= 30 => (MemorySpec => SuccessKept)
<1> SUFFICES ASSUME Threshold <= 30 PROVE MemorySpec => SuccessKept
  OBVIOUS
<1>1. ASSUME MemoryInv, [MemoryNext]_memoryVars, NEW e \in DOMAIN episodes \ DOMAIN episodes',
             episodes[e].outcome = "success"
      PROVE  gate.at = "trim"
  <2>1. ~DeleteForgotten
    <3> SUFFICES ASSUME DeleteForgotten PROVE FALSE
      OBVIOUS
    <3>1. episodes[e].importance < Threshold
      BY <1>1, ForgottenStep
    <3>2. episodes[e].importance >= 30 /\ episodes[e].importance \in Int /\ Threshold \in Int
      BY <1>1, MemoryAssumption DEF MemoryInv, MemoryTyped, SuccessScores, EpisodeRecords
    <3> QED
      BY <3>1, <3>2
  <2> QED
    BY <1>1, <2>1, OnlyGateDeletes, ExcessStep
<1>2. MemoryInv /\ [MemoryNext]_memoryVars =>
        [\A e \in DOMAIN episodes \ DOMAIN episodes' :
           episodes[e].outcome = "success" => gate.at = "trim"]_memoryVars
  BY <1>1
<1> QED
  BY <1>2, MemoryInvariant, PTL DEF MemorySpec, SuccessKept

(* A deletion of excess does not take the table below its limit, although  *)
(* rows may have come in since the count (Cleanup).                        *)
THEOREM TrimmedToLimit == MemorySpec => NeverBelowLimit
<1>1. ASSUME MemoryInv, [MemoryNext]_memoryVars, gate.at = "trim"
      PROVE  Cardinality(DOMAIN episodes') >= MaxEpisodes
  <2>1. CASE DeleteExcess
    BY <1>1, <2>1, ExcessStep
  <2>2. CASE ~DeleteExcess
    <3>1. ~DeleteForgotten
      BY <1>1 DEF DeleteForgotten
    <3>2. DOMAIN episodes \subseteq DOMAIN episodes'
      BY <1>1, <2>2, <3>1, OnlyGateDeletes
    <3>3. MemoryInv'
      BY <1>1, MemoryNextInv
    <3>4. IsFiniteSet(DOMAIN episodes') /\ gate.excess \in Nat
      BY <1>1, <3>3 DEF MemoryInv, MemoryTyped
    <3>5. /\ Cardinality(DOMAIN episodes) <= Cardinality(DOMAIN episodes')
          /\ IsFiniteSet(DOMAIN episodes)
      BY <3>2, <3>4, FS_Subset
    <3>6. /\ Cardinality(DOMAIN episodes) \in Nat /\ Cardinality(DOMAIN episodes') \in Nat
          /\ Cardinality(DOMAIN episodes) >= MaxEpisodes + gate.excess
      BY <1>1, <3>4, <3>5, FS_CardinalityType DEF MemoryInv, StillOver
    <3> QED
      BY <3>4, <3>5, <3>6, MemoryAssumption
  <2> QED
    BY <2>1, <2>2
<1>2. MemoryInv /\ [MemoryNext]_memoryVars =>
        [gate.at = "trim" => Cardinality(DOMAIN episodes') >= MaxEpisodes]_memoryVars
  BY <1>1
<1> QED
  BY <1>2, MemoryInvariant, PTL DEF MemorySpec, NeverBelowLimit

=================================================================================
