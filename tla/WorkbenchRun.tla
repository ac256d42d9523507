----------------------------- MODULE WorkbenchRun -----------------------------
(* The execution of a test case: facade.run_case stores the run and starts a   *)
(* worker thread, the worker drives a pytest subprocess to its end or kills    *)
(* it, and the result is kept in three places that are written one after the   *)
(* other: the job in memory (_RUN_JOBS), the row of workbench_runtime_runs,    *)
(* and the case center (test_case_executions and the last result of the case). *)
(*                                                                             *)
(* Time is counted in steps of the order of the job cache's time to live; what *)
(* the worker does between two waits takes less than one (Tick), and the time  *)
(* of the setup SQL and of Allure counts as the runner's.                      *)
EXTENDS Integers

CONSTANTS
    Runs, Cases, CaseOf,            \* every run executes one case
    Ttl,                            \* RUN_JOB_TTL_SECONDS
    Timeout,                        \* WORKBENCH_RUN_TIMEOUT_SECONDS
    Disturbances,                   \* what may go wrong, see below
    None

ASSUME RunAssumption ==
    /\ CaseOf \in [Runs -> Cases]
    /\ Ttl \in Nat \ {0} /\ Timeout \in Nat \ {0}
    /\ Disturbances \subseteq {"db", "setup", "raise", "stall", "crash"}

(* "db": a database call fails; "setup": the setup SQL fails; "raise": the     *)
(* worker raises (no page_url, no pytest, no Allure, undecodable output);      *)
(* "stall": the runner writes a line in pieces; "crash": the server restarts.  *)
May(d) == d \in Disturbances

Attempts == 3
Verdicts == {"passed", "failed", "timeout"}
Statuses == {"queued", "running", "setup_failed"} \cup Verdicts

(* A missing job, row, result or time is no status and no time.               *)
ASSUME NoneAssumption ==
    None \notin Statuses \cup {"unknown"} /\ None \notin 0..(Ttl + 1)

(* What persist_runtime_run_to_case_center accepts, of the statuses runs have. *)
Persistable == Verdicts

VARIABLES
    pc, tries, verdict,             \* the worker of each run
    runner, elapsed,                \* its subprocess and the time since it was started
    job, age,                       \* _RUN_JOBS and the time since _cache_updated_at
    row,                            \* workbench_runtime_runs
    executions,                     \* test_case_executions
    case,                           \* last_execution_result and the run of last_report_url
    loaded,                         \* what the worker's session holds of run and case
    view                            \* what get_run last answered about the run

worker == <<pc, tries, verdict>>
process == <<runner, elapsed>>
memory == <<job, age>>
center == <<executions, case, loaded>>
vars == <<worker, process, memory, row, center, view>>

Init ==
    /\ pc      = [r \in Runs |-> "new"]
    /\ tries   = [r \in Runs |-> 0]
    /\ verdict = [r \in Runs |-> None]
    /\ runner  = [r \in Runs |-> None]
    /\ elapsed = [r \in Runs |-> 0]
    /\ job     = [r \in Runs |-> None]
    /\ age     = [r \in Runs |-> None]
    /\ row     = [r \in Runs |-> None]
    /\ executions = [r \in Runs |-> None]
    /\ case    = [c \in Cases |-> [result |-> "unknown", run |-> None]]
    /\ loaded  = [r \in Runs |-> None]
    /\ view    = [r \in Runs |-> None]

Goto(r, label) == pc' = [pc EXCEPT ![r] = label]
-------------------------------------------------------------------------------
(* The job cache.                                                              *)

(* update_run_job: an update of a job that was evicted is dropped.             *)
UpdateJob(r, status) ==
    IF job[r] = None
    THEN UNCHANGED memory
    ELSE /\ job' = [job EXCEPT ![r] = status]
         /\ age' = [age EXCEPT ![r] = 0]

(* get_run_job: reading a job whose time is over evicts it.  A job that was    *)
(* stored and never updated has no time.                                       *)
Stale(r)  == age[r] # None /\ age[r] > Ttl
Cached(r) == IF Stale(r) THEN None ELSE job[r]
ReadJob(r) ==
    /\ job' = [job EXCEPT ![r] = Cached(r)]
    /\ age' = [age EXCEPT ![r] = IF Stale(r) THEN None ELSE age[r]]
-------------------------------------------------------------------------------
(* start_run, in the request's thread.                                         *)

StartRun(r) ==
    /\ pc[r] = "new"
    /\ job' = [job EXCEPT ![r] = "queued"]
    /\ Goto(r, "append")
    /\ UNCHANGED <<tries, verdict, process, age, row, center, view>>

AppendRow(r) ==
    /\ pc[r] = "append"
    /\ row' = [row EXCEPT ![r] = "queued"]
    /\ Goto(r, "launch")
    /\ UNCHANGED <<tries, verdict, process, memory, center, view>>

(* append_runtime_run or append_history raises: the request fails, the job and *)
(* perhaps the row stay queued, and no worker is ever started.                 *)
StartFails(r) ==
    /\ May("db")
    /\ pc[r] \in {"append", "launch"}
    /\ Goto(r, "refused")
    /\ UNCHANGED <<tries, verdict, process, memory, row, center, view>>

Launch(r) ==
    /\ pc[r] = "launch"
    /\ Goto(r, "prepare")
    /\ UNCHANGED <<tries, verdict, process, memory, row, center, view>>
-------------------------------------------------------------------------------
(* execute_run, in the worker thread.                                          *)

MarkJob(r) ==
    /\ pc[r] = "prepare"
    /\ UpdateJob(r, "running")
    /\ tries' = [tries EXCEPT ![r] = 1]
    /\ Goto(r, "mark")
    /\ UNCHANGED <<verdict, process, row, center, view>>

(* Mutant: the attempts are counted from zero.                                 *)
UpdateRowOnceMore(r, status, next) ==
    \/ /\ row' = [row EXCEPT ![r] = status]
       /\ Goto(r, next)
       /\ tries' = [tries EXCEPT ![r] = 0]
    \/ /\ May("db") /\ tries[r] <= Attempts
       /\ tries' = [tries EXCEPT ![r] = tries[r] + 1]
       /\ UNCHANGED <<row, pc>>

(* update_runtime_run_with_retry: a failed update is tried again, and the      *)
(* failure of the last attempt is swallowed.                                   *)
UpdateRow(r, status, next) ==
    \/ /\ \/ row' = [row EXCEPT ![r] = status]
          \/ May("db") /\ tries[r] >= Attempts /\ UNCHANGED row
       /\ Goto(r, next)
       /\ tries' = [tries EXCEPT ![r] = 0]
    \/ /\ May("db") /\ tries[r] < Attempts
       /\ tries' = [tries EXCEPT ![r] = tries[r] + 1]
       /\ UNCHANGED <<row, pc>>

(* Mutant: only the job is marked as running.                                  *)
MarkRowSkipped(r) ==
    /\ pc[r] = "mark"
    /\ Goto(r, "setup")
    /\ UNCHANGED <<tries, verdict, process, memory, row, center, view>>

MarkRow(r) ==
    /\ pc[r] = "mark"
    /\ UpdateRow(r, "running", "setup")
    /\ UNCHANGED <<verdict, process, memory, center, view>>

(* The setup SQL fails: only the job is told, and the worker returns.          *)
SetupFails(r) ==
    /\ May("setup")
    /\ pc[r] = "setup"
    /\ UpdateJob(r, "setup_failed")
    /\ Goto(r, "persist")
    /\ UNCHANGED <<tries, verdict, process, row, center, view>>

StartRunner(r) ==
    /\ pc[r] = "setup"
    /\ runner' = [runner EXCEPT ![r] = "silent"]
    /\ Goto(r, "poll")
    /\ UNCHANGED <<tries, verdict, elapsed, memory, row, center, view>>

Exited(r)  == runner[r] \in {"passed", "failed"}
Expired(r) == elapsed[r] >= Timeout

Conclude(r, v) ==
    /\ verdict' = [verdict EXCEPT ![r] = v]
    /\ Goto(r, "report")
    /\ UNCHANGED <<tries, elapsed, memory, row, center, view>>

RunnerEnded(r) ==
    /\ pc[r] = "poll"
    /\ Exited(r)
    /\ Conclude(r, runner[r])
    /\ UNCHANGED runner

(* Mutant: the deadline is looked at when the runner writes something.         *)
KillRunnerOnOutput(r) ==
    /\ pc[r] = "poll"
    /\ runner[r] = "partial" /\ Expired(r)
    /\ runner' = [runner EXCEPT ![r] = "killed"]
    /\ Conclude(r, "timeout")

(* process.kill; an exit code of 0 that slips in before it becomes 124.        *)
KillRunner(r) ==
    /\ pc[r] = "poll"
    /\ ~Exited(r) /\ Expired(r)
    /\ runner' = [runner EXCEPT ![r] = "killed"]
    /\ Conclude(r, "timeout")

(* selector.select reports output, and readline waits for the end of the line. *)
ReadLine(r) ==
    /\ pc[r] = "poll"
    /\ runner[r] = "partial" /\ ~Expired(r)
    /\ Goto(r, "readline")
    /\ UNCHANGED <<tries, verdict, process, memory, row, center, view>>

ReadLineReturns(r) ==
    /\ pc[r] = "readline"
    /\ runner[r] # "partial"
    /\ Goto(r, "poll")
    /\ UNCHANGED <<tries, verdict, process, memory, row, center, view>>

Report(r) ==
    /\ pc[r] = "report"
    /\ UpdateJob(r, verdict[r])
    /\ tries' = [tries EXCEPT ![r] = 1]
    /\ Goto(r, "record")
    /\ UNCHANGED <<verdict, process, row, center, view>>

(* Mutant: the final update gives up when the job has been evicted.            *)
RecordIfCached(r) ==
    /\ pc[r] = "record"
    /\ IF job[r] = None THEN Goto(r, "persist") /\ UNCHANGED <<row, tries>>
                        ELSE UpdateRow(r, verdict[r], "persist")
    /\ UNCHANGED <<verdict, process, memory, center, view>>

Record(r) ==
    /\ pc[r] = "record"
    /\ UpdateRow(r, verdict[r], "persist")
    /\ UNCHANGED <<verdict, process, memory, center, view>>

(* Any statement before the final updates raises: `finally` goes on with the   *)
(* job as it is.                                                               *)
WorkerRaises(r) ==
    /\ May("raise")
    /\ pc[r] \in {"prepare", "setup", "poll", "report"}
    /\ Goto(r, "persist")
    /\ UNCHANGED <<tries, verdict, process, memory, row, center, view>>
-------------------------------------------------------------------------------
(* finally: persist_runtime_run_to_case_center.                                *)

(* Mutant: a run that is not in memory is taken to have passed.                *)
FinalStatusOptimistic(r) == IF Cached(r) = None THEN "passed" ELSE Cached(r)

(* Mutant: the thread's own job is taken.                                      *)
FinalStatusOwn(r) == "queued"

(* The job in memory or, when there is none, the queued job the thread was     *)
(* started with.                                                               *)
FinalStatus(r) == IF Cached(r) = None THEN "queued" ELSE Cached(r)

LoadCase(r) ==
    /\ pc[r] = "persist"
    /\ ReadJob(r)
    /\ IF FinalStatus(r) \in Persistable
       THEN /\ loaded' = [loaded EXCEPT ![r] = [status |-> FinalStatus(r),
                                                result |-> case[CaseOf[r]].result]]
            /\ Goto(r, "commit")
       ELSE /\ Goto(r, "over")
            /\ UNCHANGED loaded
    /\ UNCHANGED <<tries, verdict, process, row, executions, case, view>>

(* The flush writes the columns that differ from what the session has loaded:  *)
(* last_report_url always, last_execution_result only if it is another one.    *)
CommitCase(r) ==
    LET c == CaseOf[r]  s == loaded[r].status IN
    /\ pc[r] = "commit"
    /\ executions' = [executions EXCEPT ![r] = s]
    /\ case' = [case EXCEPT ![c] = [result |-> IF s # loaded[r].result THEN s ELSE @.result,
                                    run    |-> r]]
    /\ loaded' = [loaded EXCEPT ![r] = None]
    /\ Goto(r, "over")
    /\ UNCHANGED <<tries, verdict, process, memory, row, view>>

PersistFails(r) ==
    /\ May("db")
    /\ pc[r] \in {"persist", "commit"}
    /\ loaded' = [loaded EXCEPT ![r] = None]
    /\ Goto(r, "over")
    /\ UNCHANGED <<tries, verdict, process, memory, row, executions, case, view>>
-------------------------------------------------------------------------------
(* The environment: the runner, the clients, the clock, restarts.              *)

Live(r) == pc[r] \in {"poll", "readline"} /\ runner[r] \in {"silent", "partial"}

RunnerExits(r) ==
    /\ Live(r)
    /\ \E v \in {"passed", "failed"} : runner' = [runner EXCEPT ![r] = v]
    /\ UNCHANGED <<worker, elapsed, memory, row, center, view>>

RunnerWrites(r) ==
    /\ May("stall")
    /\ Live(r)
    /\ runner' = [runner EXCEPT ![r] = IF @ = "partial" THEN "silent" ELSE "partial"]
    /\ UNCHANGED <<worker, elapsed, memory, row, center, view>>

(* facade.get_run about a run that list_runs has shown: the job, or the row.   *)
GetRun(r) ==
    /\ row[r] # None
    /\ ReadJob(r)
    /\ view' = [view EXCEPT ![r] = IF Cached(r) # None THEN Cached(r) ELSE row[r]]
    /\ UNCHANGED <<worker, process, row, center>>

(* Time passes while the workers wait for a runner.                            *)
Waiting(r) ==
    \/ pc[r] \in {"new", "refused", "over", "lost", "readline"}
    \/ pc[r] = "poll" /\ ~Exited(r) /\ ~Expired(r)

Aged(t, cap) == IF t < cap THEN t + 1 ELSE t

Tick ==
    /\ \A r \in Runs : Waiting(r)
    /\ elapsed' = [r \in Runs |-> IF pc[r] \in {"poll", "readline"}
                                  THEN Aged(elapsed[r], Timeout) ELSE elapsed[r]]
    /\ age' = [r \in Runs |-> IF age[r] = None THEN None ELSE Aged(age[r], Ttl + 1)]
    /\ UNCHANGED <<worker, runner, job, row, center, view>>

(* The server restarts: threads, jobs and open transactions are gone.          *)
Crash ==
    /\ May("crash")
    /\ pc' = [r \in Runs |-> IF pc[r] \in {"new", "refused", "over"} THEN pc[r] ELSE "lost"]
    /\ job' = [r \in Runs |-> None]
    /\ age' = [r \in Runs |-> None]
    /\ loaded' = [r \in Runs |-> None]
    /\ tries' = [r \in Runs |-> 0]
    /\ UNCHANGED <<verdict, process, row, executions, case, view>>

Step(r) ==
    \/ AppendRow(r) \/ StartFails(r) \/ Launch(r)
    \/ MarkJob(r) \/ MarkRow(r) \/ SetupFails(r) \/ StartRunner(r)
    \/ RunnerEnded(r) \/ KillRunner(r) \/ ReadLine(r) \/ ReadLineReturns(r)
    \/ Report(r) \/ Record(r) \/ WorkerRaises(r)
    \/ LoadCase(r) \/ CommitCase(r) \/ PersistFails(r)

Next ==
    \/ \E r \in Runs : StartRun(r) \/ Step(r) \/ RunnerExits(r) \/ RunnerWrites(r) \/ GetRun(r)
    \/ Tick \/ Crash

Spec == Init /\ [][Next]_vars

(* Started threads run and time passes; nothing makes a runner exit or a       *)
(* client ask.                                                                 *)
FairSpec == Spec /\ \A r \in Runs : WF_vars(Step(r)) /\ WF_vars(Tick)
-------------------------------------------------------------------------------
TypeOK ==
    /\ pc \in [Runs -> {"new", "append", "launch", "prepare", "mark", "setup", "poll",
                        "readline", "report", "record", "persist", "commit",
                        "refused", "over", "lost"}]
    /\ tries \in [Runs -> 0..Attempts]
    /\ verdict \in [Runs -> Verdicts \cup {None}]
    /\ runner \in [Runs -> {None, "silent", "partial", "passed", "failed", "killed"}]
    /\ elapsed \in [Runs -> 0..Timeout]
    /\ job \in [Runs -> Statuses \cup {None}]
    /\ age \in [Runs -> (0..(Ttl + 1)) \cup {None}]
    /\ row \in [Runs -> (Statuses \ {"setup_failed"}) \cup {None}]
    /\ executions \in [Runs -> Verdicts \cup {None}]
    /\ case \in [Cases -> [result: Verdicts \cup {"unknown"}, run: Runs \cup {None}]]
    /\ loaded \in [Runs -> [status: Verdicts, result: Verdicts \cup {"unknown"}] \cup {None}]
    /\ view \in [Runs -> Statuses \cup {None}]

(* The result of a run is in up to three places, written by two retry loops    *)
(* and a finally; wherever a final result has arrived, whatever failed on the  *)
(* way, it is the one the worker concluded, and the case shows a result only   *)
(* some run of that case ended with (execute_run, _execute_run's finally).     *)
OneVerdict ==
    /\ \A r \in Runs : \A s \in {job[r], row[r], executions[r]} \cap Verdicts : s = verdict[r]
    /\ \A c \in Cases : case[c].result # "unknown" =>
         \E r \in Runs : CaseOf[r] = c /\ executions[r] = case[c].result

(* Rank of what a client is told about a run.                                  *)
Rank(s) == CASE s = None -> 0
             [] s = "queued" -> 1
             [] s = "running" -> 2
             [] OTHER -> 3

(* Unless a database call or the setup fails or the server restarts, what      *)
(* get_run says of a run never goes back, although it answers from the job     *)
(* first and, when reading evicts the job, from the row, which the worker      *)
(* updates later than the job.                                                 *)
ReadsNeverGoBack == [][\A r \in Runs : Rank(view'[r]) >= Rank(view[r])]_view

(* Unless a database call fails or the worker raises, a worker that came to a  *)
(* result leaves it in workbench_runtime_runs, even when the job was evicted   *)
(* while the runner was at work (execute_run's last update does not depend on  *)
(* the job).                                                                   *)
ResultReachesRow ==
    \A r \in Runs : pc[r] = "over" /\ verdict[r] # None => row[r] = verdict[r]

(* Under the same conditions, a worker that came to a result while its job was *)
(* in memory leaves it in test_case_executions as well (_execute_run's         *)
(* finally).                                                                   *)
CachedRunsAreRecorded ==
    \A r \in Runs : pc[r] = "over" /\ verdict[r] # None /\ job[r] # None
                   => executions[r] = verdict[r]

(* README, 2.2: finally, the result is put into test_case_executions.          *)
FinishedRunsAreRecorded ==
    \A r \in Runs : verdict[r] # None ~> executions[r] = verdict[r]

(* Every accepted run is given up or comes to an end: a silent runner is       *)
(* killed and the retries of the row's updates are bounded.                    *)
EveryRunEnds == \A r \in Runs : pc[r] = "append" ~> pc[r] \in {"refused", "over"}
===============================================================================
