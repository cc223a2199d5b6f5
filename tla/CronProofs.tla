----------------------------- MODULE CronProofs -----------------------------
(***************************************************************************)
(* The safety of the cron scheduler for any number of servers and jobs,    *)
(* any schedule and any horizon.                                           *)
(***************************************************************************)
EXTENDS Cron, TLAPS

\* A server that is down has nothing in flight: its loop claims nothing.
DownIsQuiet ==
  /\ \A t \in tasks : t.srv \in up
  /\ \A s \in Servers : tick[s].due # {} => s \in up

\* Completion times are in the past when they are used; a job that is not there
\* has no schedule.
PastIsPast ==
  /\ \A j \in Jobs : jobs[j].last <= now /\ (~Live(j) => jobs[j].next = Never)
  /\ \A t \in tasks : t.finished <= now

\* What an enable or disable that is not stale is about to write.
CommandInTime ==
  cli.busy /\ ~cli.stale /\ cli.job \notin raced /\ Live(cli.job)
    => cli.next = Never \/ jobs[cli.job].last < cli.next

\* The inductive invariant.
Inv ==
  /\ TypeOK
  /\ MarkerTracksRun
  /\ DownIsQuiet
  /\ RunsAreRecoverable
  /\ PastIsPast
  /\ CommandInTime
  /\ ScheduleAhead

-----------------------------------------------------------------------------
\* A command that is not running is a command.
LEMMA NoCommandTyped ==
  NoCommand \in [busy : BOOLEAN, job : Jobs, enabled : BOOLEAN,
                 next : Nat \cup {Never}, stale : BOOLEAN]
<1>1. (CHOOSE j \in Jobs : TRUE) \in Jobs
  BY JobsAssumption
<1>2. QED
  BY <1>1 DEF NoCommand

\* What is left of a tick is a tick.
LEMMA ClaimingTyped ==
  ASSUME NEW t \in Times, NEW due \in SUBSET Jobs
  PROVE  Claiming(t, due) \in [at : Times, due : SUBSET Jobs] /\ Claiming(t, due).due = due
BY TimeAssumption DEF Claiming, NoTick, Times

\* A task that moves on stays the same server's run of the same job.
LEMMA MovedTyped ==
  ASSUME NEW t \in Task, NEW stage \in {"run", "finish", "advance"}, NEW f \in Times
  PROVE  /\ Moved(t, stage, f) \in Task
         /\ Moved(t, stage, f).srv = t.srv
         /\ Moved(t, stage, f).job = t.job
         /\ Moved(t, stage, f).started = t.started
         /\ Moved(t, stage, f).at = stage
         /\ Moved(t, stage, f).finished = f
BY DEF Moved, Task

\* Everything is empty at the start.
LEMMA InvInit == Init => Inv
<1> SUFFICES ASSUME Init PROVE Inv
  OBVIOUS
<1> USE TimeAssumption, NoCommandTyped
<1>1. TypeOK
  BY DEF Init, TypeOK, Job, NoTick, Times
<1>2. MarkerTracksRun /\ DownIsQuiet /\ RunsAreRecoverable
  BY DEF Init, MarkerTracksRun, TaskOf, DownIsQuiet, RunsAreRecoverable, NoTick
<1>3. PastIsPast /\ CommandInTime /\ ScheduleAhead
  BY DEF Init, PastIsPast, CommandInTime, ScheduleAhead, NoCommand, Never, Live
<1>4. QED
  BY <1>1, <1>2, <1>3 DEF Inv

\* Every action keeps the types.
LEMMA TypeNext == TypeOK /\ [Next]_vars => TypeOK'
<1> SUFFICES ASSUME TypeOK, [Next]_vars PROVE TypeOK'
  OBVIOUS
<1> USE TimeAssumption, FireAssumption DEF TypeOK
<1>1. ASSUME NEW s \in Servers, StartTick(s) PROVE TypeOK'
  BY <1>1, ClaimingTyped DEF StartTick, DueJobs
<1>2. ASSUME NEW s \in Servers, NEW j \in Jobs, BeginRun(s, j) PROVE TypeOK'
  <2>1. tick' \in [Servers -> [at : Times, due : SUBSET Jobs]]
    BY <1>2, ClaimingTyped DEF BeginRun, NextDue
  <2>2. tick[s].at \in Times
    OBVIOUS
  <2>3. tasks' \subseteq Task
    BY <1>2, <2>2 DEF BeginRun, Task, Times
  <2>4. QED
    <3>1. running' \in [Servers -> SUBSET Jobs]
      BY <1>2 DEF BeginRun
    <3>2. rows' \subseteq [job : Jobs, started : Times]
      BY <1>2, <2>2 DEF BeginRun
    <3>3. QED
      BY <1>2, <2>1, <2>3, <3>1, <3>2 DEF BeginRun
<1>3. ASSUME NEW s \in Servers, NEW j \in Jobs, ClaimFails(s, j) PROVE TypeOK'
  <2>1. tick[s].at \in Times /\ tick[s].due \ {j} \in SUBSET Jobs
    OBVIOUS
  <2>2. tick' \in [Servers -> [at : Times, due : SUBSET Jobs]]
    <3>1. Claiming(tick[s].at, tick[s].due \ {j}) \in [at : Times, due : SUBSET Jobs]
      BY <2>1, ClaimingTyped
    <3>2. QED
      BY <1>3, <3>1 DEF ClaimFails, NextDue
  <2>3. QED
    BY <1>3, <2>2 DEF ClaimFails
<1>4. ASSUME NEW s \in Servers, Crash(s) PROVE TypeOK'
  BY <1>4 DEF Crash, NoTick, Times
<1>5. ASSUME NEW s \in Servers, NEW recovered \in BOOLEAN, Start(s, recovered) PROVE TypeOK'
  BY <1>5 DEF Start
<1>6. ASSUME NEW t \in tasks, TaskStep(t) PROVE TypeOK'
  <2>0. t \in Task
    OBVIOUS
  <2>1. CASE EndRun(t)
    <3>1. tasks' \subseteq Task
      BY <2>1, <2>0, MovedTyped DEF EndRun
    <3>2. QED
      BY <2>1, <3>1 DEF EndRun
  <2>2. CASE RunPanics(t)
    BY <2>2, <2>0 DEF RunPanics, Task
  <2>3. CASE FinishRow(t)
    <3>1. t.finished \in Times
      BY <2>0 DEF Task
    <3>2. tasks' \subseteq Task
      BY <2>3, <2>0, <3>1, MovedTyped DEF FinishRow
    <3>3. QED
      BY <2>3, <3>2 DEF FinishRow
  <2>4. CASE FinishRowFails(t)
    BY <2>4, <2>0 DEF FinishRowFails, Task
  <2>5. CASE AdvanceSchedule(t)
    <3>1. t.finished \in Times /\ t.job \in Jobs
      BY <2>0 DEF Task
    <3>2. jobs' \in [Jobs -> Job]
      BY <2>5, <3>1 DEF AdvanceSchedule, Job
    <3>3. QED
      BY <2>5, <3>2 DEF AdvanceSchedule
  <2>6. CASE AdvanceFails(t)
    BY <2>6 DEF AdvanceFails
  <2>7. QED
    BY <1>6, <2>1, <2>2, <2>3, <2>4, <2>5, <2>6 DEF TaskStep, FinishStep
<1>7. ASSUME NEW j \in Jobs, NEW enabled \in BOOLEAN, Add(j, enabled) PROVE TypeOK'
  BY <1>7 DEF Add, Job
<1>8. ASSUME NEW j \in Jobs, NEW enabled \in BOOLEAN, ReadJob(j, enabled) PROVE TypeOK'
  BY <1>8 DEF ReadJob, EnabledNext, Job
<1>9. ASSUME NEW j \in Jobs, Remove(j) PROVE TypeOK'
  BY <1>9 DEF Remove, Job
<1>10. ASSUME NEW failed \in BOOLEAN, WriteJob(failed) PROVE TypeOK'
  BY <1>10, NoCommandTyped DEF WriteJob, Job
<1>11. CASE Clock
  BY <1>11 DEF Clock, Times
<1>12. CASE UNCHANGED vars
  BY <1>12 DEF vars
<1>13. QED
  BY <1>1, <1>2, <1>3, <1>4, <1>5, <1>6, <1>7, <1>8, <1>9, <1>10, <1>11, <1>12
     DEF Next, TickStep, Command

-----------------------------------------------------------------------------
(* The running marker *)

\* MarkerTracksRun for one server and one job.
Marked(s, j) ==
  /\ \A t, u \in TaskOf(s, j) : t = u
  /\ j \in running[s] <=> \/ \E t \in TaskOf(s, j) : t.at # "advance"
                          \/ <<s, j>> \in leaked
  /\ <<s, j>> \in leaked => TaskOf(s, j) = {}

\* A step that leaves a server's run, marker and leak of a job alone.
Untouched(s, j) ==
  /\ TaskOf(s, j)' = TaskOf(s, j)
  /\ j \in running'[s] <=> j \in running[s]
  /\ <<s, j>> \in leaked' <=> <<s, j>> \in leaked

\* Such a step keeps the marker right.
LEMMA UntouchedMarked ==
  ASSUME NEW s \in Servers, NEW j \in Jobs, Marked(s, j), Untouched(s, j)
  PROVE  Marked(s, j)'
BY DEF Marked, Untouched

\* A claim finds no run of the job: the marker is not set, so no run is before
\* its row's update, and the mutex is free, so none is after it.
LEMMA ClaimFindsNoRun ==
  ASSUME TypeOK, MarkerTracksRun, NEW s \in Servers, NEW j \in Jobs, BeginRun(s, j)
  PROVE  TaskOf(s, j) = {} /\ <<s, j>> \notin leaked
BY DEF MarkerTracksRun, BeginRun, NextDue, Free, TaskOf

\* A run of a job is the only one, it is marked until its row is updated, and
\* its marker is not leaked.
LEMMA RunIsMarked ==
  ASSUME TypeOK, MarkerTracksRun, NEW t \in tasks
  PROVE  /\ t \in Task
         /\ TaskOf(t.srv, t.job) = {t}
         /\ <<t.srv, t.job>> \notin leaked
         /\ t.job \in running[t.srv] <=> t.at # "advance"
<1>1. t \in Task
  BY DEF TypeOK
<1>2. t.srv \in Servers /\ t.job \in Jobs
  BY <1>1 DEF Task
<1>3. t \in TaskOf(t.srv, t.job)
  BY DEF TaskOf
<1>4. QED
  BY <1>1, <1>2, <1>3 DEF MarkerTracksRun

\* Every action keeps markers and runs together.
LEMMA MarkerNext == TypeOK /\ MarkerTracksRun /\ [Next]_vars => MarkerTracksRun'
<1> SUFFICES ASSUME TypeOK, MarkerTracksRun, [Next]_vars,
                    NEW r \in Servers, NEW k \in Jobs
             PROVE  Marked(r, k)'
  BY DEF Marked, MarkerTracksRun
<1>0. Marked(r, k)
  BY DEF Marked, MarkerTracksRun
<1>1. ASSUME NEW s \in Servers, StartTick(s) PROVE Marked(r, k)'
  BY <1>0, <1>1, UntouchedMarked DEF StartTick, Untouched, TaskOf
<1>2. ASSUME NEW s \in Servers, NEW j \in Jobs, BeginRun(s, j) PROVE Marked(r, k)'
  <2>0. TaskOf(s, j) = {} /\ <<s, j>> \notin leaked
    BY <1>2, ClaimFindsNoRun
  <2> DEFINE new == [srv |-> s, job |-> j, started |-> tick[s].at, at |-> "run", finished |-> 0]
  <2>1. CASE r = s /\ k = j
    <3>1. TaskOf(s, j)' = {new}
      BY <1>2, <2>0 DEF BeginRun, TaskOf
    <3>2. j \in running'[s]
      BY <1>2 DEF BeginRun, TypeOK
    <3>3. <<s, j>> \notin leaked'
      BY <1>2, <2>0 DEF BeginRun
    <3>4. QED
      BY <2>1, <3>1, <3>2, <3>3 DEF Marked
  <2>2. CASE ~(r = s /\ k = j)
    <3>1. TaskOf(r, k)' = TaskOf(r, k)
      BY <1>2, <2>2 DEF BeginRun, TaskOf
    <3>2. k \in running'[r] <=> k \in running[r]
      BY <1>2, <2>2 DEF BeginRun, TypeOK
    <3>3. Untouched(r, k)
      BY <1>2, <3>1, <3>2 DEF Untouched, BeginRun
    <3>4. QED
      BY <1>0, <3>3, UntouchedMarked
  <2>3. QED
    BY <2>1, <2>2
<1>3. ASSUME NEW s \in Servers, NEW j \in Jobs, ClaimFails(s, j) PROVE Marked(r, k)'
  BY <1>0, <1>3, UntouchedMarked DEF ClaimFails, Untouched, TaskOf
<1>4. ASSUME NEW s \in Servers, Crash(s) PROVE Marked(r, k)'
  <2>1. CASE r = s
    <3>1. TaskOf(r, k)' = {}
      BY <1>4, <2>1 DEF Crash, TaskOf
    <3>2. k \notin running'[r] /\ <<r, k>> \notin leaked'
      BY <1>4, <2>1 DEF Crash, TypeOK
    <3>3. QED
      BY <3>1, <3>2 DEF Marked
  <2>2. CASE r # s
    <3>1. TaskOf(r, k)' = TaskOf(r, k)
      BY <1>4, <2>2 DEF Crash, TaskOf
    <3>2. /\ k \in running'[r] <=> k \in running[r]
          /\ <<r, k>> \in leaked' <=> <<r, k>> \in leaked
      BY <1>4, <2>2 DEF Crash, TypeOK
    <3>3. QED
      BY <1>0, <3>1, <3>2, UntouchedMarked DEF Untouched
  <2>3. QED
    BY <2>1, <2>2
<1>5. ASSUME NEW s \in Servers, NEW recovered \in BOOLEAN, Start(s, recovered) PROVE Marked(r, k)'
  BY <1>0, <1>5, UntouchedMarked DEF Start, Untouched, TaskOf
<1>6. ASSUME NEW t \in tasks, TaskStep(t) PROVE Marked(r, k)'
  <2>0. /\ t \in Task
        /\ TaskOf(t.srv, t.job) = {t}
        /\ <<t.srv, t.job>> \notin leaked
        /\ t.job \in running[t.srv] <=> t.at # "advance"
    BY RunIsMarked
  <2>t. t.srv \in Servers /\ t.job \in Jobs /\ t.finished \in Times
    BY <2>0 DEF Task
  <2>s. CASE ~(r = t.srv /\ k = t.job)
    <3>1. /\ \A stage \in {"finish", "advance"} : \A f \in Times :
               tasks' = (tasks \ {t}) \cup {Moved(t, stage, f)} => TaskOf(r, k)' = TaskOf(r, k)
          /\ tasks' = tasks \ {t} => TaskOf(r, k)' = TaskOf(r, k)
      BY <2>0, <2>s, MovedTyped DEF TaskOf
    <3>2. TaskOf(r, k)' = TaskOf(r, k)
      <4>1. now \in Times
        BY DEF TypeOK
      <4>2. QED
        BY <1>6, <2>t, <3>1, <4>1 DEF TaskStep, FinishStep, EndRun, RunPanics, FinishRow,
           FinishRowFails, AdvanceSchedule, AdvanceFails
    <3>3. k \in running'[r] <=> k \in running[r]
      BY <1>6, <2>s, <2>t DEF TaskStep, FinishStep, EndRun, RunPanics, FinishRow,
         FinishRowFails, AdvanceSchedule, AdvanceFails, TypeOK
    <3>4. <<r, k>> \in leaked' <=> <<r, k>> \in leaked
      BY <1>6, <2>s, <2>t DEF TaskStep, FinishStep, EndRun, RunPanics, FinishRow,
         FinishRowFails, AdvanceSchedule, AdvanceFails
    <3>5. QED
      BY <1>0, <3>2, <3>3, <3>4, UntouchedMarked DEF Untouched
  <2>u. CASE r = t.srv /\ k = t.job
    <3>1. CASE EndRun(t)
      <4>0. now \in Times
        BY DEF TypeOK
      <4>1. TaskOf(r, k)' = {Moved(t, "finish", now)}
        BY <2>0, <2>u, <3>1, <4>0, MovedTyped DEF EndRun, TaskOf
      <4>2. Moved(t, "finish", now).at = "finish"
        BY DEF Moved
      <4>3. QED
        BY <2>0, <2>u, <3>1, <4>1, <4>2 DEF EndRun, Marked
    <3>2. CASE RunPanics(t)
      <4>1. TaskOf(r, k)' = {}
        BY <2>0, <2>u, <3>2 DEF RunPanics, TaskOf
      <4>2. QED
        BY <2>0, <2>u, <3>2, <4>1 DEF RunPanics, Marked
    <3>3. CASE FinishRow(t)
      <4>1. TaskOf(r, k)' = {Moved(t, "advance", t.finished)}
        BY <2>0, <2>t, <2>u, <3>3, MovedTyped DEF FinishRow, TaskOf
      <4>2. Moved(t, "advance", t.finished).at = "advance"
        BY DEF Moved
      <4>3. k \notin running'[r]
        BY <2>t, <2>u, <3>3 DEF FinishRow, TypeOK
      <4>4. QED
        BY <2>0, <2>u, <3>3, <4>1, <4>2, <4>3 DEF FinishRow, Marked
    <3>4. CASE FinishRowFails(t)
      <4>1. TaskOf(r, k)' = {}
        BY <2>0, <2>u, <3>4 DEF FinishRowFails, TaskOf
      <4>2. QED
        BY <2>0, <2>u, <3>4, <4>1 DEF FinishRowFails, Marked
    <3>5. CASE AdvanceSchedule(t)
      <4>1. TaskOf(r, k)' = {}
        BY <2>0, <2>u, <3>5 DEF AdvanceSchedule, TaskOf
      <4>2. QED
        BY <2>0, <2>u, <3>5, <4>1 DEF AdvanceSchedule, Marked
    <3>6. CASE AdvanceFails(t)
      <4>1. TaskOf(r, k)' = {}
        BY <2>0, <2>u, <3>6 DEF AdvanceFails, TaskOf
      <4>2. QED
        BY <2>0, <2>u, <3>6, <4>1 DEF AdvanceFails, Marked
    <3>7. QED
      BY <1>6, <3>1, <3>2, <3>3, <3>4, <3>5, <3>6 DEF TaskStep, FinishStep
  <2>v. QED
    BY <2>s, <2>u
<1>7. CASE Command
  <2>1. UNCHANGED <<tasks, running, leaked>>
    BY <1>7 DEF Command, Add, ReadJob, Remove, WriteJob
  <2>2. QED
    BY <1>0, <2>1, UntouchedMarked DEF Untouched, TaskOf
<1>8. CASE Clock \/ UNCHANGED vars
  BY <1>0, <1>8, UntouchedMarked DEF Clock, vars, Untouched, TaskOf
<1>9. QED
  BY <1>1, <1>2, <1>3, <1>4, <1>5, <1>6, <1>7, <1>8 DEF Next, TickStep

-----------------------------------------------------------------------------
(* Recovery *)

\* What a step of a run does to the set of runs.
LEMMA TaskStepTasks ==
  ASSUME TypeOK, NEW t \in tasks, TaskStep(t)
  PROVE  \A u \in tasks' :
           \/ u \in tasks \ {t}
           \/ /\ u.srv = t.srv /\ u.job = t.job /\ u.started = t.started
              /\ \/ t.at = "run" /\ u.at = "finish" /\ u.finished = now
                 \/ t.at = "finish" /\ u.at = "advance" /\ u.finished = t.finished
BY DEF TaskStep, FinishStep, EndRun, RunPanics, FinishRow, FinishRowFails, AdvanceSchedule,
       AdvanceFails, Moved

\* A server that is down starts nothing.
LEMMA QuietNext == TypeOK /\ DownIsQuiet /\ [Next]_vars => DownIsQuiet'
<1> SUFFICES ASSUME TypeOK, DownIsQuiet, [Next]_vars PROVE DownIsQuiet'
  OBVIOUS
<1> USE DEF DownIsQuiet
<1>1. ASSUME NEW s \in Servers, StartTick(s) PROVE DownIsQuiet'
  BY <1>1 DEF StartTick, TypeOK
<1>2. ASSUME NEW s \in Servers, NEW j \in Jobs, NextDue(s, j), up' = up
      PROVE  \A r \in Servers : tick'[r].due # {} => r \in up'
  BY <1>2 DEF NextDue, TypeOK
<1>3. ASSUME NEW s \in Servers, NEW j \in Jobs, BeginRun(s, j) PROVE DownIsQuiet'
  <2>1. s \in up
    BY <1>3 DEF BeginRun, NextDue
  <2>2. \A r \in Servers : tick'[r].due # {} => r \in up'
    BY <1>2, <1>3 DEF BeginRun
  <2>3. QED
    BY <1>3, <2>1, <2>2 DEF BeginRun
<1>4. ASSUME NEW s \in Servers, NEW j \in Jobs, ClaimFails(s, j) PROVE DownIsQuiet'
  BY <1>2, <1>4 DEF ClaimFails
<1>5. ASSUME NEW s \in Servers, Crash(s) PROVE DownIsQuiet'
  BY <1>5 DEF Crash, NoTick, TypeOK
<1>6. ASSUME NEW s \in Servers, NEW recovered \in BOOLEAN, Start(s, recovered) PROVE DownIsQuiet'
  BY <1>6 DEF Start
<1>7. ASSUME NEW t \in tasks, TaskStep(t) PROVE DownIsQuiet'
  <2>1. UNCHANGED <<up, tick>>
    BY <1>7 DEF TaskStep, FinishStep, EndRun, RunPanics, FinishRow, FinishRowFails,
       AdvanceSchedule, AdvanceFails
  <2>2. QED
    BY <1>7, <2>1, TaskStepTasks
<1>8. CASE Command
  BY <1>8 DEF Command, Add, ReadJob, Remove, WriteJob
<1>9. CASE Clock \/ UNCHANGED vars
  BY <1>9 DEF Clock, vars
<1>10. QED
  BY <1>1, <1>3, <1>4, <1>5, <1>6, <1>7, <1>8, <1>9 DEF Next, TickStep

\* The row of a run.
Row(t) == [job |-> t.job, started |-> t.started]

\* A lone server recovers only when it has no runs, and finishes only the row of
\* the run that ends.
LEMMA RowsNext ==
  TypeOK /\ MarkerTracksRun /\ DownIsQuiet /\ RunsAreRecoverable /\ [Next]_vars
    => RunsAreRecoverable'
<1> SUFFICES ASSUME TypeOK, MarkerTracksRun, DownIsQuiet, RunsAreRecoverable, [Next]_vars,
                    NEW a \in Servers, Servers = {a},
                    NEW u \in tasks', u.at # "advance"
             PROVE  Row(u) \in rows'
  BY DEF RunsAreRecoverable, Row
<1>0. \A t \in tasks : t.srv = a /\ t.at # "advance" => Row(t) \in rows
  BY DEF RunsAreRecoverable, Row
<1>a. \A t \in tasks : t \in Task /\ t.srv = a
  BY DEF TypeOK, Task
<1>1. ASSUME NEW s \in Servers, StartTick(s) \/ \E j \in Jobs : ClaimFails(s, j)
      PROVE  Row(u) \in rows'
  BY <1>0, <1>1, <1>a DEF StartTick, ClaimFails
<1>2. ASSUME NEW s \in Servers, NEW j \in Jobs, BeginRun(s, j) PROVE Row(u) \in rows'
  BY <1>0, <1>2, <1>a DEF BeginRun, Row
<1>3. ASSUME NEW s \in Servers, Crash(s) PROVE Row(u) \in rows'
  BY <1>0, <1>3, <1>a DEF Crash
<1>4. ASSUME NEW s \in Servers, NEW recovered \in BOOLEAN, Start(s, recovered)
      PROVE  Row(u) \in rows'
  <2>1. u \in tasks /\ u.srv \in up /\ u.srv = s
    BY <1>4, <1>a DEF Start, DownIsQuiet
  <2>2. QED
    BY <1>4, <2>1 DEF Start
<1>5. ASSUME NEW t \in tasks, TaskStep(t) PROVE Row(u) \in rows'
  <2>1. TaskOf(a, t.job) = {t}
    BY <1>a, RunIsMarked
  <2>2. CASE FinishRow(t)
    <3>1. u \in tasks /\ u # t
      BY <1>5, <2>2, TaskStepTasks DEF FinishRow
    <3>2. u.job # t.job
      BY <1>a, <2>1, <3>1 DEF TaskOf
    <3>3. QED
      BY <1>0, <1>a, <2>2, <3>1, <3>2 DEF FinishRow, Row
  <2>3. CASE ~FinishRow(t)
    <3>1. rows' = rows
      BY <1>5, <2>3 DEF TaskStep, FinishStep, EndRun, RunPanics, FinishRowFails,
         AdvanceSchedule, AdvanceFails
    <3>2. \/ u \in tasks
          \/ t.at = "run" /\ u.job = t.job /\ u.started = t.started
      BY <1>5, TaskStepTasks
    <3>3. QED
      BY <1>0, <1>a, <3>1, <3>2 DEF Row
  <2>4. QED
    BY <2>2, <2>3
<1>6. CASE Command
  BY <1>0, <1>6, <1>a DEF Command, Add, ReadJob, Remove, WriteJob
<1>7. CASE Clock \/ UNCHANGED vars
  BY <1>0, <1>7, <1>a DEF Clock, vars
<1>8. QED
  BY <1>1, <1>2, <1>3, <1>4, <1>5, <1>6, <1>7 DEF Next, TickStep

-----------------------------------------------------------------------------
(* The schedule *)

\* What ScheduleAhead rests on.
ScheduleInv == PastIsPast /\ CommandInTime /\ ScheduleAhead

\* A step that changes no job, no command and no history, and no completion time
\* to a later one than the clock's, keeps the schedules.
LEMMA SameSchedule ==
  ASSUME TypeOK, TypeOK', ScheduleInv, UNCHANGED <<jobs, cli, raced>>, now' >= now,
         \A u \in tasks' : u.finished <= now'
  PROVE  ScheduleInv'
<1>1. PastIsPast'
  <2>1. \A j \in Jobs : jobs'[j].last <= now'
    BY DEF ScheduleInv, PastIsPast, TypeOK, Job, Times, Never
  <2>2. QED
    BY <2>1 DEF ScheduleInv, PastIsPast, Live
<1>2. CommandInTime' /\ ScheduleAhead'
  BY DEF ScheduleInv, CommandInTime, ScheduleAhead, Live
<1>3. QED
  BY <1>1, <1>2 DEF ScheduleInv

\* Every action keeps the schedules ahead of the completions.
LEMMA ScheduleNext == TypeOK /\ TypeOK' /\ ScheduleInv /\ [Next]_vars => ScheduleInv'
<1> SUFFICES ASSUME TypeOK, TypeOK', ScheduleInv, [Next]_vars PROVE ScheduleInv'
  OBVIOUS
<1>n. now \in Nat /\ now \in Times /\ \A t \in tasks : t \in Task /\ t.finished \in Nat /\ t.finished <= now
  BY TimeAssumption DEF TypeOK, Times, ScheduleInv, PastIsPast, Task
<1>j. \A j \in Jobs : /\ jobs[j].last \in Int /\ jobs[j].last <= now
                     /\ jobs[j].next \in Int
  BY TimeAssumption DEF TypeOK, Job, Times, Never, ScheduleInv, PastIsPast
<1>d. \A j \in Jobs : jobs[j].state # "live" => jobs[j].next = Never
  BY DEF ScheduleInv, PastIsPast, Live
<1>f. \A j \in Jobs : \A t \in Times : NextFire[j][t] = Never \/ NextFire[j][t] > t
  BY FireAssumption
<1>1. ASSUME NEW s \in Servers, TickStep(s) \/ Crash(s) \/ \E r \in BOOLEAN : Start(s, r)
      PROVE  ScheduleInv'
  <2>1. UNCHANGED <<jobs, cli, raced, now>>
    BY <1>1 DEF TickStep, StartTick, BeginRun, ClaimFails, Crash, Start
  <2>2. \A u \in tasks' : u \in tasks \/ u.finished = 0
    BY <1>1 DEF TickStep, StartTick, BeginRun, ClaimFails, Crash, Start
  <2>3. QED
    BY <1>n, <2>1, <2>2, SameSchedule
<1>2. ASSUME NEW t \in tasks, TaskStep(t) PROVE ScheduleInv'
  <2>1. now' = now /\ \A u \in tasks' : u.finished <= now
    <3>1. now' = now
      BY <1>2 DEF TaskStep, FinishStep, EndRun, RunPanics, FinishRow, FinishRowFails,
         AdvanceSchedule, AdvanceFails
    <3>2. QED
      BY <1>2, <1>n, <3>1, TaskStepTasks
  <2>2. CASE AdvanceSchedule(t)
    <3>1. t.job \in Jobs /\ t.finished \in Times /\ t.finished <= now
      BY <1>n DEF Task
    <3>2. CASE Live(t.job)
      <4>1. jobs' = [jobs EXCEPT ![t.job] = [state |-> "live", enabled |-> jobs[t.job].enabled,
                       last |-> t.finished, next |-> NextFire[t.job][t.finished]]]
        BY <2>2, <3>2 DEF AdvanceSchedule
      <4>2. /\ jobs'[t.job].state = "live"
            /\ jobs'[t.job].last = t.finished
            /\ jobs'[t.job].next = NextFire[t.job][t.finished]
            /\ \A j \in Jobs \ {t.job} : jobs'[j] = jobs[j]
        BY <3>1, <4>1 DEF TypeOK
      <4>3. PastIsPast'
        <5>1. \A j \in Jobs : jobs'[j].last <= now'
          BY <1>j, <1>d, <2>1, <3>1, <4>2
        <5>2. \A j \in Jobs : jobs'[j].state # "live" => jobs'[j].next = Never
          BY <1>j, <1>d, <2>1, <3>1, <4>2
        <5>3. \A u \in tasks' : u.finished <= now'
          BY <2>1
        <5>4. QED
          BY <5>1, <5>2, <5>3 DEF PastIsPast, Live
      <4>4. ScheduleAhead'
        BY <1>f, <2>2, <3>1, <4>2 DEF ScheduleAhead, ScheduleInv, AdvanceSchedule
      <4>5. CommandInTime'
        BY <2>2, <4>2 DEF CommandInTime, ScheduleInv, AdvanceSchedule, Live, TypeOK
      <4>6. QED
        BY <4>3, <4>4, <4>5 DEF ScheduleInv
    <3>3. CASE ~Live(t.job)
      <4>1. jobs' = jobs
        BY <2>2, <3>3 DEF AdvanceSchedule
      <4>2. PastIsPast'
        <5>1. \A j \in Jobs : jobs'[j].last <= now'
          BY <1>j, <1>d, <2>1, <4>1
        <5>2. \A j \in Jobs : jobs'[j].state # "live" => jobs'[j].next = Never
          BY <1>j, <1>d, <2>1, <4>1
        <5>3. \A u \in tasks' : u.finished <= now'
          BY <2>1
        <5>4. QED
          BY <5>1, <5>2, <5>3 DEF PastIsPast, Live
      <4>3. ScheduleAhead'
        <5>1. jobs'[t.job].next = Never
          BY <1>d, <3>1, <3>3, <4>1 DEF Live
        <5>2. \A j \in Jobs \ raced' : j = t.job \/ j \in Jobs \ raced
          BY <2>2 DEF AdvanceSchedule
        <5>3. QED
          BY <4>1, <5>1, <5>2 DEF ScheduleAhead, ScheduleInv
      <4>4. CommandInTime'
        BY <2>2, <3>3, <4>1 DEF CommandInTime, ScheduleInv, AdvanceSchedule, Live, TypeOK
      <4>5. QED
        BY <4>2, <4>3, <4>4 DEF ScheduleInv
    <3>4. QED
      BY <3>2, <3>3
  <2>3. CASE ~AdvanceSchedule(t)
    <3>1. UNCHANGED <<jobs, cli, raced>>
      BY <1>2, <2>3 DEF TaskStep, FinishStep, EndRun, RunPanics, FinishRow, FinishRowFails,
         AdvanceFails
    <3>2. QED
      BY <1>n, <2>1, <3>1, SameSchedule
  <2>4. QED
    BY <2>2, <2>3
<1>3. ASSUME NEW j \in Jobs, NEW enabled \in BOOLEAN, Add(j, enabled) PROVE ScheduleInv'
  <2>1. /\ jobs'[j].last = Never /\ jobs'[j].next = NextFire[j][now] /\ jobs'[j].state = "live"
        /\ \A k \in Jobs \ {j} : jobs'[k] = jobs[k]
    BY <1>3 DEF Add, TypeOK
  <2>2. PastIsPast'
    <3>1. \A i \in Jobs : jobs'[i].last <= now'
      BY <1>3, <1>j, <1>n, <1>d, <2>1 DEF Add, Never
    <3>2. \A i \in Jobs : jobs'[i].state # "live" => jobs'[i].next = Never
      BY <1>3, <1>j, <1>n, <1>d, <2>1
    <3>3. \A u \in tasks' : u.finished <= now'
      BY <1>3, <1>n DEF Add, Never
    <3>4. QED
      BY <3>1, <3>2, <3>3 DEF PastIsPast, Live
  <2>3. ScheduleAhead'
    <3>1. Never < NextFire[j][now]
      <4>1. NextFire[j][now] \in Nat \/ NextFire[j][now] = Never
        BY <1>n, FireAssumption
      <4>2. QED
        BY <1>3, <4>1 DEF Add, Never
    <3>2. QED
      BY <1>3, <2>1, <3>1 DEF Add, ScheduleAhead, ScheduleInv
  <2>4. CommandInTime'
    <3>1. CASE cli.job = j
      <4>1. cli.next \in Int /\ (cli.next = Never \/ Never < cli.next)
        BY DEF TypeOK, Never
      <4>2. QED
        BY <1>3, <2>1, <3>1, <4>1 DEF Add, CommandInTime
    <3>2. CASE cli.job # j
      BY <1>3, <2>1, <3>2 DEF Add, CommandInTime, ScheduleInv, Live, TypeOK
    <3>3. QED
      BY <3>1, <3>2
  <2>5. QED
    BY <2>2, <2>3, <2>4 DEF ScheduleInv
<1>4. ASSUME NEW j \in Jobs, NEW enabled \in BOOLEAN, ReadJob(j, enabled) PROVE ScheduleInv'
  <2>1. PastIsPast'
    BY <1>4 DEF ReadJob, PastIsPast, ScheduleInv, Live
  <2>2. ScheduleAhead'
    BY <1>4 DEF ReadJob, ScheduleAhead, ScheduleInv
  <2>3. CommandInTime'
    <3>1. cli'.job = j /\ cli'.next = EnabledNext(j, enabled) /\ jobs' = jobs /\ raced' = raced
      BY <1>4 DEF ReadJob
    <3>2. CASE enabled
      <4>1. EnabledNext(j, enabled) > now \/ EnabledNext(j, enabled) = Never
        BY <1>f, <1>n, <3>2 DEF EnabledNext
      <4>2. EnabledNext(j, enabled) \in Int
        <5>1. NextFire[j][now] \in Int
          BY <1>n, FireAssumption DEF Never
        <5>2. QED
          BY <1>j, <5>1 DEF EnabledNext
      <4>3. QED
        <5>1. jobs[j].last < EnabledNext(j, enabled) \/ EnabledNext(j, enabled) = Never
          BY <1>j, <1>n, <4>1, <4>2
        <5>2. QED
          BY <3>1, <5>1 DEF CommandInTime
    <3>3. CASE ~enabled
      <4>1. EnabledNext(j, enabled) = jobs[j].next
        BY <3>3 DEF EnabledNext
      <4>2. QED
        BY <3>1, <4>1 DEF CommandInTime, ScheduleAhead, ScheduleInv
    <3>4. QED
      BY <3>2, <3>3
  <2>4. QED
    BY <2>1, <2>2, <2>3 DEF ScheduleInv
<1>5. ASSUME NEW j \in Jobs, Remove(j) PROVE ScheduleInv'
  <2>1. /\ jobs'[j] = [state |-> "removed", enabled |-> FALSE, last |-> Never, next |-> Never]
        /\ \A k \in Jobs \ {j} : jobs'[k] = jobs[k]
    BY <1>5 DEF Remove, TypeOK
  <2>2. PastIsPast'
    <3>1. \A i \in Jobs : jobs'[i].last <= now'
      BY <1>5, <1>j, <1>n, <1>d, <2>1 DEF Remove, Never
    <3>2. \A i \in Jobs : jobs'[i].state # "live" => jobs'[i].next = Never
      BY <1>5, <1>j, <1>n, <1>d, <2>1
    <3>3. \A u \in tasks' : u.finished <= now'
      BY <1>5, <1>n DEF Remove, Never
    <3>4. QED
      BY <3>1, <3>2, <3>3 DEF PastIsPast, Live
  <2>3. ScheduleAhead'
    BY <1>5, <2>1 DEF Remove, ScheduleAhead, ScheduleInv
  <2>4. CommandInTime'
    BY <1>5, <2>1 DEF Remove, CommandInTime, ScheduleInv, Live, TypeOK
  <2>5. QED
    BY <2>2, <2>3, <2>4 DEF ScheduleInv
<1>6. ASSUME NEW failed \in BOOLEAN, WriteJob(failed) PROVE ScheduleInv'
  <2> DEFINE j == cli.job
  <2>0. j \in Jobs
    BY DEF TypeOK
  <2>1. CommandInTime'
    BY <1>6 DEF WriteJob, CommandInTime, NoCommand
  <2>2. CASE failed \/ ~Live(j)
    <3>1. jobs' = jobs /\ raced' = raced
      BY <1>6, <2>2 DEF WriteJob
    <3>2. PastIsPast' /\ ScheduleAhead'
      BY <1>6, <3>1 DEF WriteJob, PastIsPast, ScheduleAhead, ScheduleInv, Live
    <3>3. QED
      BY <2>1, <3>2 DEF ScheduleInv
  <2>3. CASE ~failed /\ Live(j)
    <3>1. /\ jobs'[j].last = jobs[j].last /\ jobs'[j].next = cli.next /\ jobs'[j].state = "live"
          /\ \A k \in Jobs \ {j} : jobs'[k] = jobs[k]
      BY <1>6, <2>0, <2>3 DEF WriteJob, TypeOK
    <3>2. PastIsPast'
      <4>1. \A i \in Jobs : jobs'[i].last <= now'
        BY <1>6, <1>j, <1>d, <2>0, <3>1 DEF WriteJob
      <4>2. \A i \in Jobs : jobs'[i].state # "live" => jobs'[i].next = Never
        BY <1>6, <1>j, <1>d, <2>0, <3>1
      <4>3. \A u \in tasks' : u.finished <= now'
        BY <1>6, <1>n DEF WriteJob
      <4>4. QED
        BY <4>1, <4>2, <4>3 DEF PastIsPast, Live
    <3>3. raced' = IF cli.stale THEN raced \cup {j} ELSE raced
      BY <1>6, <2>3 DEF WriteJob
    <3>4. ScheduleAhead'
      BY <1>6, <2>0, <2>3, <3>1, <3>3 DEF WriteJob, ScheduleAhead, CommandInTime, ScheduleInv
    <3>5. QED
      BY <2>1, <3>2, <3>4 DEF ScheduleInv
  <2>4. QED
    BY <2>2, <2>3
<1>7. CASE Clock
  <2>1. now' >= now /\ UNCHANGED <<jobs, cli, raced, tasks>>
    BY <1>7, <1>n DEF Clock
  <2>2. \A u \in tasks' : u.finished <= now'
    BY <1>7, <1>n DEF Clock
  <2>3. QED
    BY <2>1, <2>2, SameSchedule
<1>8. CASE UNCHANGED vars
  BY <1>8 DEF vars, ScheduleInv, PastIsPast, CommandInTime, ScheduleAhead, Live
<1>9. QED
  BY <1>1, <1>2, <1>3, <1>4, <1>5, <1>6, <1>7, <1>8 DEF Next, Command

-----------------------------------------------------------------------------
(* Theorems *)

\* The scheduler's inductive invariant holds in every reachable state.
THEOREM Invariance == Spec => []Inv
<1>1. Inv /\ [Next]_vars => Inv'
  <2> SUFFICES ASSUME Inv, [Next]_vars PROVE Inv'
    OBVIOUS
  <2>1. TypeOK'
    BY TypeNext DEF Inv
  <2>2. MarkerTracksRun' /\ DownIsQuiet' /\ RunsAreRecoverable'
    BY MarkerNext, QuietNext, RowsNext DEF Inv
  <2>3. ScheduleInv'
    BY <2>1, ScheduleNext DEF Inv, ScheduleInv
  <2>4. QED
    BY <2>1, <2>2, <2>3 DEF Inv, ScheduleInv
<1>2. QED
  BY InvInit, <1>1, PTL DEF Spec

\* Type correctness of the store, the loops and the runs.
THEOREM TypeCorrect == Spec => []TypeOK
BY Invariance, PTL DEF Inv

\* Overlap prevention within a server: one run per job, and the running marker
\* is set exactly for the runs and for the markers a failed finish left behind.
THEOREM NoOverlap == Spec => []MarkerTracksRun
BY Invariance, PTL DEF Inv

\* The next fire time lies strictly after the last recorded completion, unless an
\* enable or disable raced with that completion.
THEOREM SchedulesStayAhead == Spec => []ScheduleAhead
BY Invariance, PTL DEF Inv

\* A lone server that dies at any point leaves a row for each run it lost.
THEOREM NothingLostSilently == Spec => []RunsAreRecoverable
BY Invariance, PTL DEF Inv

-----------------------------------------------------------------------------
(* What a tick has seen is still so when it is used *)

\* A job that server s saw due, and has still to claim, has no run there.
ClaimsAreFresh ==
  \A s \in Servers : \A j \in tick[s].due : TaskOf(s, j) = {} /\ j \notin running[s]

\* Steps of runs start none and mark nothing.
LEMMA TaskStepFrees ==
  ASSUME TypeOK, NEW t \in tasks, TaskStep(t), NEW s \in Servers, NEW j \in Jobs,
         TaskOf(s, j) = {}, j \notin running[s]
  PROVE  TaskOf(s, j)' = {} /\ j \notin running'[s] /\ tick' = tick
<1>1. ~(t.srv = s /\ t.job = j)
  BY DEF TaskOf
<1>2. \A u \in tasks' : ~(u.srv = s /\ u.job = j)
  BY <1>1, TaskStepTasks DEF TaskOf
<1>3. j \notin running'[s] /\ tick' = tick
  BY DEF TaskStep, FinishStep, EndRun, RunPanics, FinishRow, FinishRowFails, AdvanceSchedule,
         AdvanceFails, TypeOK
<1>4. QED
  BY <1>2, <1>3 DEF TaskOf

\* due_jobs leaves out what runs, and only the loop itself starts runs.
LEMMA FreshNext == Inv /\ ClaimsAreFresh /\ [Next]_vars => ClaimsAreFresh'
<1> SUFFICES ASSUME Inv, ClaimsAreFresh, [Next]_vars, NEW r \in Servers, NEW k \in tick'[r].due
             PROVE  TaskOf(r, k)' = {} /\ k \notin running'[r]
  BY DEF ClaimsAreFresh
<1> DEFINE Fresh == TaskOf(r, k)' = {} /\ k \notin running'[r]
<1>i. TypeOK /\ MarkerTracksRun
  BY DEF Inv
<1>k. k \in Jobs
  <2>1. TypeOK'
    BY TypeNext DEF Inv
  <2>2. QED
    BY <2>1 DEF TypeOK
<1>0. ASSUME k \in tick[r].due, UNCHANGED <<tasks, running>> PROVE Fresh
  BY <1>0 DEF ClaimsAreFresh, TaskOf
<1>1. ASSUME NEW s \in Servers, StartTick(s) PROVE Fresh
  <2>1. CASE r = s
    <3>1. k \in DueJobs(s) /\ UNCHANGED <<tasks, running>> /\ Free(s)
      BY <1>1, <1>i, <2>1 DEF StartTick, Claiming, NoTick, TypeOK
    <3>2. k \notin running[s] /\ \A t \in TaskOf(s, k) : t.at # "advance"
      BY <3>1 DEF DueJobs, Free, TaskOf
    <3>3. TaskOf(s, k) = {}
      BY <1>i, <1>k, <3>2 DEF MarkerTracksRun
    <3>4. QED
      BY <2>1, <3>1, <3>2, <3>3 DEF TaskOf
  <2>2. CASE r # s
    BY <1>0, <1>1, <1>i, <2>2 DEF StartTick, TypeOK
  <2>3. QED
    BY <2>1, <2>2
<1>2. ASSUME NEW s \in Servers, NEW j \in Jobs, NextDue(s, j)
      PROVE  k \in tick[r].due /\ ~(r = s /\ k = j)
  BY <1>2, <1>i DEF NextDue, Claiming, NoTick, TypeOK
<1>3. ASSUME NEW s \in Servers, NEW j \in Jobs, BeginRun(s, j) PROVE Fresh
  <2>1. k \in tick[r].due /\ ~(r = s /\ k = j)
    BY <1>2, <1>3 DEF BeginRun
  <2>2. TaskOf(r, k) = {} /\ k \notin running[r]
    BY <2>1 DEF ClaimsAreFresh
  <2>3. TaskOf(r, k)' = {}
    BY <1>3, <2>1, <2>2 DEF BeginRun, TaskOf
  <2>4. k \notin running'[r]
    BY <1>3, <1>i, <2>1, <2>2 DEF BeginRun, TypeOK
  <2>5. QED
    BY <2>3, <2>4
<1>4. ASSUME NEW s \in Servers, NEW j \in Jobs, ClaimFails(s, j) PROVE Fresh
  BY <1>0, <1>2, <1>4 DEF ClaimFails
<1>5. ASSUME NEW s \in Servers, Crash(s) PROVE Fresh
  <2>1. r # s /\ k \in tick[r].due
    BY <1>5, <1>i DEF Crash, NoTick, TypeOK
  <2>2. TaskOf(r, k) = {} /\ k \notin running[r]
    BY <2>1 DEF ClaimsAreFresh
  <2>3. QED
    BY <1>5, <1>i, <2>1, <2>2 DEF Crash, TaskOf, TypeOK
<1>6. ASSUME NEW t \in tasks, TaskStep(t) PROVE Fresh
  <2>1. tick' = tick
    BY <1>6 DEF TaskStep, FinishStep, EndRun, RunPanics, FinishRow, FinishRowFails,
       AdvanceSchedule, AdvanceFails
  <2>2. TaskOf(r, k) = {} /\ k \notin running[r]
    BY <2>1 DEF ClaimsAreFresh
  <2>3. QED
    BY <1>6, <1>i, <1>k, <2>2, TaskStepFrees
<1>7. CASE \E s \in Servers, recovered \in BOOLEAN : Start(s, recovered)
  BY <1>0, <1>7 DEF Start
<1>8. CASE Command \/ Clock \/ UNCHANGED vars
  BY <1>0, <1>8 DEF Command, Add, ReadJob, Remove, WriteJob, Clock, vars
<1>9. QED
  BY <1>1, <1>3, <1>4, <1>5, <1>6, <1>7, <1>8 DEF Next, TickStep

\* begin_run never finds the job running: between due_jobs and the claim nobody
\* else in this process starts it, whatever runs, commands and other servers do.
\* A claim fails only when its INSERT does.
THEOREM SnapshotHolds == Spec => []ClaimsAreFresh
<1>1. Init => ClaimsAreFresh
  BY DEF Init, ClaimsAreFresh, NoTick
<1>2. QED
  BY <1>1, FreshNext, Invariance, PTL DEF Spec

\* "The same job can never fire twice concurrently" (cron.rs:281) is true of a
\* server that has its data directory to itself: the run cron_overlap has two.
THEOREM LoneServerNeverOverlaps ==
  ASSUME NEW s, Servers = {s}
  PROVE  Spec => []NeverTwiceAtOnce
<1>1. Inv => NeverTwiceAtOnce
  <2> SUFFICES ASSUME Inv, NEW t \in tasks, NEW u \in tasks, t.job = u.job PROVE t = u
    BY DEF NeverTwiceAtOnce
  <2>1. t \in Task /\ u \in Task
    BY DEF Inv, TypeOK
  <2>2. t.srv = s /\ u.srv = s
    BY <2>1 DEF Task
  <2>3. TaskOf(t.srv, t.job) = {t} /\ TaskOf(u.srv, u.job) = {u}
    BY RunIsMarked DEF Inv
  <2>4. QED
    BY <2>2, <2>3
<1>2. QED
  BY <1>1, Invariance, PTL
=============================================================================
