-------------------------------- MODULE Cron --------------------------------
(***************************************************************************)
(* User-level cron: the durable job store (orchestration/schedule/cron.rs), *)
(* the server's tick loop and runs (acp/background.rs) and the go-on cron   *)
(* command (cli/cron.rs).                                                   *)
(*                                                                         *)
(* The store's mutex and its set of running jobs belong to one process;    *)
(* the SQLite file is shared by every server started on the same data      *)
(* directory and by the command. SQLite makes each statement atomic, not   *)
(* each operation, so an operation of two statements is two actions here,  *)
(* the mutex held in between. Any statement may fail.                      *)
(***************************************************************************)
EXTENDS Integers

CONSTANTS
  Servers,   \* server processes that share the data directory
  Jobs,      \* job ids (UUIDs: a removed id never comes back)
  MaxTime,   \* bound on the clock
  NextFire   \* next_fire_after: job and time to the next match, or Never

Times == 0..MaxTime

\* next_run_at or last_run_at is NULL.
Never == -1

ASSUME TimeAssumption == MaxTime \in Nat
ASSUME JobsAssumption == Jobs # {}

\* A fire time is strictly after the time it is asked for.
ASSUME FireAssumption ==
  /\ NextFire \in [Jobs -> [Times -> Nat \cup {Never}]]
  /\ \A j \in Jobs : \A t \in Times : NextFire[j][t] = Never \/ NextFire[j][t] > t

VARIABLES
  now,      \* the wall clock, in seconds
  jobs,     \* cron_jobs
  rows,     \* the rows of cron_runs whose finished_at is NULL
  up,       \* servers whose tick loop is running
  running,  \* CronStoreInner.running of each server
  tick,     \* the tick each server's loop is working on
  tasks,    \* run_cron_job tasks in flight
  cli,      \* go-on cron enable or disable, between its two statements
  leaked,   \* history: <<server, job>> whose run ended without releasing the
            \* running marker
  raced     \* history: jobs whose schedule a stale enable or disable overwrote
            \* since their last run

vars == <<now, jobs, rows, up, running, tick, tasks, cli, leaked, raced>>

Job == [state : {"unborn", "live", "removed"}, enabled : BOOLEAN,
        last : Times \cup {Never}, next : Nat \cup {Never}]

\* A task runs its workflow, waits for the store's mutex to finish, and holds it
\* between the two updates of finish_run.
Task == [srv : Servers, job : Jobs, started : Times,
         at : {"run", "finish", "advance"}, finished : Times]

TypeOK ==
  /\ now \in Times
  /\ jobs \in [Jobs -> Job]
  /\ rows \subseteq [job : Jobs, started : Times]
  /\ up \subseteq Servers
  /\ running \in [Servers -> SUBSET Jobs]
  /\ tick \in [Servers -> [at : Times, due : SUBSET Jobs]]
  /\ tasks \subseteq Task
  /\ cli \in [busy : BOOLEAN, job : Jobs, enabled : BOOLEAN,
              next : Nat \cup {Never}, stale : BOOLEAN]
  /\ leaked \subseteq Servers \X Jobs
  /\ raced \subseteq Jobs

NoTick == [at |-> 0, due |-> {}]

NoCommand == [busy |-> FALSE, job |-> CHOOSE j \in Jobs : TRUE, enabled |-> FALSE,
              next |-> Never, stale |-> FALSE]

Init ==
  /\ now = 0
  /\ jobs = [j \in Jobs |-> [state |-> "unborn", enabled |-> FALSE,
                             last |-> Never, next |-> Never]]
  /\ rows = {}
  /\ up = {}
  /\ running = [s \in Servers |-> {}]
  /\ tick = [s \in Servers |-> NoTick]
  /\ tasks = {}
  /\ cli = NoCommand
  /\ leaked = {}
  /\ raced = {}

-----------------------------------------------------------------------------
\* The mutex of server s is free: no finish_run is between its statements.
Free(s) == \A t \in tasks : t.srv = s => t.at # "advance"

Live(j) == jobs[j].state = "live"

Due(j, t) ==
  /\ Live(j)
  /\ jobs[j].enabled
  /\ jobs[j].next # Never
  /\ jobs[j].next <= t

TaskOf(s, j) == {t \in tasks : t.srv = s /\ t.job = j}

Moved(t, stage, finished) ==
  [srv |-> t.srv, job |-> t.job, started |-> t.started, at |-> stage, finished |-> finished]

-----------------------------------------------------------------------------
(* The tick loop of server s *)

\* What is left of a tick taken at t: the jobs still to be claimed.
Claiming(t, due) == IF due = {} THEN NoTick ELSE [at |-> t, due |-> due]

\* due_jobs: what is due now and not running here.
DueJobs(s) == {j \in Jobs : Due(j, now)} \ running[s]

\* The loop takes the time once and asks for what is due.
StartTick(s) ==
  /\ s \in up
  /\ tick[s].due = {}
  /\ Free(s)
  /\ tick' = [tick EXCEPT ![s] = Claiming(now, DueJobs(s))]
  /\ UNCHANGED <<now, jobs, rows, up, running, tasks, cli, leaked, raced>>

NextDue(s, j) ==
  /\ j \in tick[s].due
  /\ Free(s)
  /\ tick' = [tick EXCEPT ![s] = Claiming(tick[s].at, tick[s].due \ {j})]

\* Mutant: begin_run marks the job running and records no row.
BeginRunUnrecorded(s, j) ==
  /\ NextDue(s, j)
  /\ j \notin running[s]
  /\ running' = [running EXCEPT ![s] = running[s] \cup {j}]
  /\ tasks' = tasks \cup {[srv |-> s, job |-> j, started |-> tick[s].at,
                           at |-> "run", finished |-> 0]}
  /\ UNCHANGED <<now, jobs, rows, up, cli, leaked, raced>>

\* begin_run, and the run is spawned. The job's row is not looked at again.
BeginRun(s, j) ==
  /\ NextDue(s, j)
  /\ j \notin running[s]
  /\ rows' = rows \cup {[job |-> j, started |-> tick[s].at]}
  /\ running' = [running EXCEPT ![s] = running[s] \cup {j}]
  /\ tasks' = tasks \cup {[srv |-> s, job |-> j, started |-> tick[s].at,
                           at |-> "run", finished |-> 0]}
  /\ UNCHANGED <<now, jobs, up, cli, leaked, raced>>

\* begin_run finds the job running, or its INSERT fails.
ClaimFails(s, j) ==
  /\ NextDue(s, j)
  /\ UNCHANGED <<now, jobs, rows, up, running, tasks, cli, leaked, raced>>

-----------------------------------------------------------------------------
(* A run: run_cron_job and finish_run *)

\* Mutant: the completion time is not taken.
EndRunUntimed(t) ==
  /\ t.at = "run"
  /\ tasks' = (tasks \ {t}) \cup {Moved(t, "finish", Never)}
  /\ UNCHANGED <<now, jobs, rows, up, running, tick, cli, leaked, raced>>

\* The workflow ended, well or not; finish_run reads the clock.
EndRun(t) ==
  /\ t.at = "run"
  /\ tasks' = (tasks \ {t}) \cup {Moved(t, "finish", now)}
  /\ UNCHANGED <<now, jobs, rows, up, running, tick, cli, leaked, raced>>

\* The workflow panics: spawn_background_task logs it and finish_run is not
\* called.
RunPanics(t) ==
  /\ t.at = "run"
  /\ tasks' = tasks \ {t}
  /\ leaked' = leaked \cup {<<t.srv, t.job>>}
  /\ UNCHANGED <<now, jobs, rows, up, running, tick, cli, raced>>

\* Mutant: finish_run forgets to release the marker.
FinishRowMarked(t) ==
  /\ t.at = "finish"
  /\ Free(t.srv)
  /\ rows' = rows \ {[job |-> t.job, started |-> t.started]}
  /\ tasks' = (tasks \ {t}) \cup {Moved(t, "advance", t.finished)}
  /\ UNCHANGED <<now, jobs, up, running, tick, cli, leaked, raced>>

\* First statement: the run's row gets its finished_at; the marker is released.
FinishRow(t) ==
  /\ t.at = "finish"
  /\ Free(t.srv)
  /\ rows' = rows \ {[job |-> t.job, started |-> t.started]}
  /\ running' = [running EXCEPT ![t.srv] = running[t.srv] \ {t.job}]
  /\ tasks' = (tasks \ {t}) \cup {Moved(t, "advance", t.finished)}
  /\ UNCHANGED <<now, jobs, up, tick, cli, leaked, raced>>

\* The first statement fails: finish_run returns before it releases the marker.
FinishRowFails(t) ==
  /\ t.at = "finish"
  /\ Free(t.srv)
  /\ tasks' = tasks \ {t}
  /\ leaked' = leaked \cup {<<t.srv, t.job>>}
  /\ UNCHANGED <<now, jobs, rows, up, running, tick, cli, raced>>

\* Mutant: the schedule advances from the start of the run.
AdvanceFromStart(t) ==
  LET j == t.job IN
  /\ t.at = "advance"
  /\ tasks' = tasks \ {t}
  /\ jobs' = IF Live(j)
             THEN [jobs EXCEPT ![j] = [state |-> "live", enabled |-> jobs[j].enabled,
                                       last |-> t.finished, next |-> NextFire[j][t.started]]]
             ELSE jobs
  /\ cli' = [busy |-> cli.busy, job |-> cli.job, enabled |-> cli.enabled, next |-> cli.next,
             stale |-> cli.stale \/ (cli.busy /\ cli.job = j)]
  /\ raced' = raced \ {j}
  /\ UNCHANGED <<now, rows, up, running, tick, leaked>>

\* Second statement: the schedule advances from the completion time. A job
\* removed meanwhile stays removed.
AdvanceSchedule(t) ==
  LET j == t.job IN
  /\ t.at = "advance"
  /\ tasks' = tasks \ {t}
  /\ jobs' = IF Live(j)
             THEN [jobs EXCEPT ![j] = [state |-> "live", enabled |-> jobs[j].enabled,
                                       last |-> t.finished, next |-> NextFire[j][t.finished]]]
             ELSE jobs
  /\ cli' = [busy |-> cli.busy, job |-> cli.job, enabled |-> cli.enabled, next |-> cli.next,
             stale |-> cli.stale \/ (cli.busy /\ cli.job = j)]
  /\ raced' = raced \ {j}
  /\ UNCHANGED <<now, rows, up, running, tick, leaked>>

\* The second statement fails: the job is due again at once.
AdvanceFails(t) ==
  /\ t.at = "advance"
  /\ tasks' = tasks \ {t}
  /\ UNCHANGED <<now, jobs, rows, up, running, tick, cli, leaked, raced>>

-----------------------------------------------------------------------------
(* A server starts and dies *)

\* start_background_tasks: a failing recovery is logged and the loop started.
Start(s, recovered) ==
  /\ s \notin up
  /\ up' = up \cup {s}
  /\ rows' = IF recovered THEN {} ELSE rows
  /\ UNCHANGED <<now, jobs, running, tick, tasks, cli, leaked, raced>>

Crash(s) ==
  /\ s \in up
  /\ up' = up \ {s}
  /\ running' = [running EXCEPT ![s] = {}]
  /\ tick' = [tick EXCEPT ![s] = NoTick]
  /\ tasks' = {t \in tasks : t.srv # s}
  /\ leaked' = {l \in leaked : l[1] # s}
  /\ UNCHANGED <<now, jobs, rows, cli, raced>>

-----------------------------------------------------------------------------
(* The go-on cron command; one enable or disable at a time *)

\* cron add: a schedule that never matches is refused.
Add(j, enabled) ==
  /\ jobs[j].state = "unborn"
  /\ NextFire[j][now] # Never
  /\ jobs' = [jobs EXCEPT ![j] = [state |-> "live", enabled |-> enabled,
                                  last |-> Never, next |-> NextFire[j][now]]]
  /\ UNCHANGED <<now, rows, up, running, tick, tasks, cli, leaked, raced>>

Remove(j) ==
  /\ Live(j)
  /\ jobs' = [jobs EXCEPT ![j] = [state |-> "removed", enabled |-> FALSE,
                                  last |-> Never, next |-> Never]]
  /\ raced' = raced \ {j}
  /\ UNCHANGED <<now, rows, up, running, tick, tasks, cli, leaked>>

\* The next_run_at that set_enabled writes: enabling keeps a future one.
EnabledNext(j, enabled) ==
  IF ~enabled \/ jobs[j].next > now THEN jobs[j].next ELSE NextFire[j][now]

\* set_enabled reads the job; it returns an error when enabling finds no match.
ReadJob(j, enabled) ==
  /\ ~cli.busy
  /\ Live(j)
  /\ enabled => EnabledNext(j, enabled) # Never
  /\ cli' = [busy |-> TRUE, job |-> j, enabled |-> enabled,
             next |-> EnabledNext(j, enabled), stale |-> FALSE]
  /\ UNCHANGED <<now, jobs, rows, up, running, tick, tasks, leaked, raced>>

\* set_enabled's UPDATE of enabled and next_run_at, or its failure.
WriteJob(failed) ==
  LET j == cli.job IN
  /\ cli.busy
  /\ cli' = NoCommand
  /\ jobs' = IF failed \/ ~Live(j) THEN jobs
             ELSE [jobs EXCEPT ![j] = [state |-> "live", enabled |-> cli.enabled,
                                       last |-> jobs[j].last, next |-> cli.next]]
  /\ raced' = IF cli.stale /\ ~failed /\ Live(j) THEN raced \cup {j} ELSE raced
  /\ UNCHANGED <<now, rows, up, running, tick, tasks, leaked>>

-----------------------------------------------------------------------------
Clock ==
  /\ now < MaxTime
  /\ now' = now + 1
  /\ UNCHANGED <<jobs, rows, up, running, tick, tasks, cli, leaked, raced>>

TickStep(s) ==
  StartTick(s) \/ \E j \in Jobs : BeginRun(s, j) \/ ClaimFails(s, j)

FinishStep(t) == AdvanceSchedule(t) \/ AdvanceFails(t)

TaskStep(t) ==
  EndRun(t) \/ RunPanics(t) \/ FinishRow(t) \/ FinishRowFails(t) \/ FinishStep(t)

Command ==
  \/ \E j \in Jobs, enabled \in BOOLEAN : Add(j, enabled) \/ ReadJob(j, enabled)
  \/ \E j \in Jobs : Remove(j)
  \/ \E failed \in BOOLEAN : WriteJob(failed)

Next ==
  \/ \E s \in Servers : TickStep(s) \/ Crash(s) \/ \E recovered \in BOOLEAN : Start(s, recovered)
  \/ \E t \in tasks : TaskStep(t)
  \/ Command
  \/ Clock

Spec == Init /\ [][Next]_vars

\* The loop keeps ticking, a statement in progress ends, and the store does not
\* refuse the same claim for ever. Runs may hang and servers stay down.
FairSpec ==
  /\ Spec
  /\ \A s \in Servers : /\ WF_vars(TickStep(s))
                        /\ WF_vars(\E t \in tasks : t.srv = s /\ FinishStep(t))
                        /\ \A j \in Jobs : SF_vars(BeginRun(s, j))

-----------------------------------------------------------------------------
(* Safety *)

\* Within a server the running marker and the runs agree: a job has at most one
\* run, it is marked from begin_run until its row is finished, and no marker
\* stays behind but that of a run that ended without releasing it.
MarkerTracksRun ==
  \A s \in Servers, j \in Jobs :
    /\ \A t, u \in TaskOf(s, j) : t = u
    /\ j \in running[s] <=> \/ \E t \in TaskOf(s, j) : t.at # "advance"
                            \/ <<s, j>> \in leaked
    /\ <<s, j>> \in leaked => TaskOf(s, j) = {}

\* A completion that is recorded moves the schedule: the next fire time of a job
\* lies strictly after its last recorded completion, whatever crashes, runs of two
\* servers that overlap, failing statements and commands do. Only an enable or
\* disable that read the job before the run finished and wrote it afterwards can
\* set it back. (It does not say that a fire time is run once: when the advance
\* fails, the server dies before it, or a second server claims the job, the
\* completion is not recorded yet and the same fire time is run again.)
ScheduleAhead ==
  \A j \in Jobs \ raced :
    jobs[j].next = Never \/ jobs[j].last < jobs[j].next

\* A server alone on its data directory has an unfinished row for every run in
\* flight: whenever it dies, recovery finds the run.
RunsAreRecoverable ==
  (\E s \in Servers : Servers = {s}) =>
    \A t \in tasks : t.at # "advance" => [job |-> t.job, started |-> t.started] \in rows

(* Liveness *)

\* A due job is run by a server that stays up, unless it is taken off the
\* schedule or its marker was left behind by a run that could not finish.
DueJobsRun ==
  \A s \in Servers, j \in Jobs :
    (s \in up /\ Due(j, now)) ~>
      (s \notin up \/ ~Due(j, now) \/ TaskOf(s, j) # {} \/ <<s, j>> \in leaked)

-----------------------------------------------------------------------------
(* What the code's documentation claims *)

\* "the same job can never fire twice concurrently".
NeverTwiceAtOnce == \A t, u \in tasks : t.job = u.job => t = u
=============================================================================
