# Verification of the AI test platform

TLA+ models of the parts of this repository where several actors share state: threads of
the web service, database transactions, a subprocess, clients that poll. Each model is
translated from the code under `src/apps/web-ui-service/app/`; below, file names are
relative to that directory. `PROJECT.json` names, for every definition, the lines it stands
for.

Run TLC on one instance with `tlc -workers 4 -config MCGate.cfg MCExecutionGate.tla`, and the
proofs with `tlapm ExecutionGateProofs.tla`.

## 1. The system

The platform generates UI and API test cases from requirements with language models, has
people review them, runs them and shows the results. One FastAPI process
(`Dockerfile:59`, one uvicorn worker) serves the workbench; request handlers and run workers
are threads of it. Agents and the orchestrator are pipelines called over HTTP; runners are
pytest subprocesses.

| Part | State | Operations | Interacts with | Hard about it | Must hold |
|---|---|---|---|---|---|
| **EvieAi intake** `services/evie_ai/test_asset_intake_service.py`, `repositories/evie_ai/` | idempotency records, content claims, assets, versions, sources, audit events | `execute` (one command) | database only; clients retry it | races on two unique keys, a second attempt, expiring records, failing statements, PostgreSQL and SQLite | one asset per content, one decision per key and generation, agreeing answers, no trace of failures, everything ends |
| **Run execution** `services/workbench_runtime_service.py`, `api/workbench/store.py`, `api/workbench/facade_test_point_assets.py:1456-1657` | job cache with a time to live, run rows, case center | `run_case`, worker, `get_run` | runner, store, test case center | three copies of a result, eviction by readers, timeouts, a hanging runner, restarts | one verdict, it arrives everywhere, readers do not go back, every run ends |
| **Gate decisions** `services/workbench_gate_service.py`, `api/workbench/service.py:500-800` | the list of decisions | save, approve, revoke, show | store, run views | lock around a read-modify-write, a write in two commits, truncation | two persons for a block, no lost decision |
| **State store** `services/workbench_state_store.py` | six lists, in a database or in JSON files | read, rewrite, append, upsert, clean-up | everything above | not atomic, unlocked readers, unreadable files | what is written is read |
| **Test point assets** `api/workbench/facade_test_point_assets.py`, `services/test_point_asset_store.py`, `services/workbench_asset_state.py`, `services/workbench_generation_api/save_test_point_assets_service.py` | a row, an asset file and a plan file per asset; rows of points; preview snapshots | save, edit, batch review, delete, list, generate; import by the case center | case center, generation, review page | three copies, files without locks, a request of several assets of which one fails, a commit between two file writes | no approval outlives its content, points follow their asset, the copies agree, no wait for ever |
| **Test cases** `services/test_case_service.py`, `services/workbench_generation_api/repository.py`, `services/workbench_generation_compiler/runtime/` | cases, steps, versions; YAML files | generate, create, script, edit, switch, delete | test point assets, run execution | numbers and versions read before they are taken, two commits for one generation, statement snapshots, files after commits | one case per point, steps of one writer, nothing that was stored gets lost |
| **Page objects** `services/page_object_service.py`, `page_object_elements.py`, `page_object_import_service.py` | a page row with counters, elements, version histories, import files | create, edit, rename, approve, version, purge, delete, import | runners and generation read locators | stale sessions, unlocked version numbers, locks on rows and on unique and foreign keys in any order | whole histories, recorded locators, counters that recover, deadlocks that end |
| **Clean-up** `api/workbench/facade_reporting.py:331` | none | remove records of unknown cases | store, case center | stale set of case ids | removes orphans only |
| **Reviews** `services/workbench_review_service.py` | decisions | upsert | store | as gate decisions, without a second approver | no lost review |
| **Recorder** `services/page_object_recorder_*.py` | sessions, processes in memory | create, sync, stop | codegen subprocess | restarts, double stop | a stopped session has its candidates once |
| **Candidates** `services/page_object_candidates.py` | candidates, groups | promote, merge, reject | page objects | long sequences | group status tells its candidates |
| **Data pools** `services/test_data_pool_service.py` | pools, items, audit log | create, upsert, delete | cases refer to items | references checked without a lock | no case refers to a deleted item |
| Views, reports, governance, compiler, rules | none | pure | | | |
| Orchestrator, agents, runners, shared schemas, scripts, static pages | none that changes what a request does, or outside this process | | | | |

Intake, runs, gate decisions with the store under them, test point assets, test cases and page
objects are modelled; section 11 says what is not, and why.

## 2. Modules

| Module | What it is |
|---|---|
| `IntakeData` | commands, rows and audit events of the intake; pure rules (expiry, fresh and completed records) |
| `IntakeContract` | abstract: every request takes effect at one instant, or not at all |
| `TestAssetIntake` | the service over a database with transactions and locks; implements `IntakeContract` |
| `MCTestAssetIntake` | instances: race commands, source commands |
| `TestAssetIntakeProofs` | types, one asset per content |
| `IntakeContractProofs` | the service implements the contract; records, decisions, answers, audits |
| `WorkbenchRun` | starting, running, recording and reading runs |
| `MCWorkbenchRun` | instances: runs of one case |
| `WorkbenchRunProofs` | types, one verdict, results that arrive, readers that go forward |
| `GateData` | who may decide; what saving, approving and revoking make of a record |
| `GateContract` | abstract: one record per subject, changed by one call at a time |
| `ExecutionGate` | the service over the non-atomic store; implements `GateContract` |
| `MCExecutionGate` | instances: an admin, a lead and a tester |
| `ExecutionGateProofs` | types, two persons for every block; the store implements the contract |
| `TestPointAssets` | saving, editing, reviewing, deleting and listing assets over rows and files |
| `MCTestPointAssets` | instances: two assets, a sound and a doubtful point |
| `TestPointAssetsProofs` | types, sound approvals, points that follow their asset, copies that agree |
| `TestCases` | generating, editing and deleting cases with steps, versions and files |
| `MCTestCases` | instances: two test points, a case from before |
| `TestCasesProofs` | types, steps of one flush, edits that stay, whole histories and matching files |
| `PageLocators` | the locator of an element, and which elements count as duplicates |
| `PagePurge` | the loop of the purge, row by row |
| `PagePurgeProofs` | what the loop deletes and keeps |
| `PageObjects` | a page, its elements and their histories under concurrent sessions |
| `MCPageObjects` | instances: two codes, locators by role and of the import, fourteen kinds of request |
| `PageObjectsProofs` | types, whole histories, recorded locators, recovered counters, purges |

The modules meet where the components do: `TestPointAssets` has the generation and the calls of
the case center as far as they touch assets (they scan and import the asset files), and
`TestCases` has the other half of both; `WorkbenchRun` has the case center's last result.
`ExecutionGate` is composed with the list of the state store. `PageObjects` takes what a purge may
delete from `PageLocators`, and the theorems about `PagePurge` show that the loop in the code keeps to it.

Operators named with a mutant comment (`CreateAssetUnguarded`, `KeptOneMore`, ...) are not
part of the models: each is a plausible bug of one definition, and the run of the property it
is listed with in `PROJECT.json` fails when it takes that definition's place.

## 3. TestAsset intake

**Correspondence.** `tx[r]` is what the attempt of request `r` has written and not committed.
`Receive` is `execute`; `BeginAttempt` opens the session and checks the project;
`SelectRecord`, `InsertRecord`, `Reoccupy` and `RereadRecord` are `_claim_idempotency` and its
helpers; `SelectClaim` is the `FOR UPDATE` read of the content claim; `CreateAsset` and
`ReuseDuplicate` are the two paths; `Commit` and `RejectOutcome` are the end of
`_run_attempt`. `Retry` is the one clean second attempt, allowed for two named unique
constraints only and bound to an outcome (`expected`). Statements on rows nobody else can see
are part of the action of the statement they surround.

**The database** is external. With `RowLocks` it is PostgreSQL at READ COMMITTED: `FOR
UPDATE` locks an existing row, inserting a key that is inserted but not committed elsewhere
waits. Without, it is SQLite: `FOR UPDATE` does nothing, the first write takes the one writer
lock, reads before it see whatever is committed. `Fault` is any other exception, `Crash` the
death of the process before or after the commit. `clock` is the service's UTC clock.

**Runs.**

| Run | Question | Bounds and why they are enough |
|---|---|---|
| `intake_races` | types, one asset per content, replayable records, one decision per generation, agreeing answers, no trace of errors, first attempts do not fail of themselves, refinement of the contract, and that no request waits or retries for ever | PostgreSQL; 3 requests: a winner, a loser and one that meddles between the loser's two attempts; commands that share key and content, key only, content only; clock to 1 with retention 1, so that records expire; faults and crashes anywhere |
| `intake_sqlite` | source rows are announced once, records are only reoccupied after they expired, refinement, on SQLite | as above with a requirement's source, another project's requirement and an archived project; clock to 2, so that records expire twice |

`FairSpec` is weak fairness of the steps of each received request: the server schedules its
threads, and the database grants a lock that stays free. Requests are interchangeable in the
commands and in the fresh ids, so `intake_sqlite`, which checks no liveness, uses symmetry. Ids
of assets are (request, attempt) because they are random and unique in the code.

## 4. Run execution

**Correspondence.** Every action is a statement or block of `start_run` (`StartRun` to
`Launch`), `execute_run` (`MarkJob` to `Record`), `persist_runtime_run_to_case_center` in the
`finally` of the worker (`LoadCase`, `CommitCase`), or `get_run` (`GetRun`). A result is
written to the job, then to the row, then to the case center.
- The *job* lives in memory. `get_run_job` evicts a job that nobody updated for
  `RUN_JOB_TTL_SECONDS`; `update_run_job` drops an update of an evicted job.
- The *row* is updated with up to three attempts; the failure of the last is swallowed.
- The *case center* gets the status of the cached job, or of the job the thread was started
  with, which is still `queued`. The flush writes the columns that differ from what the
  session loaded: `last_report_url` always, `last_execution_result` only if it is another one.

**Time** counts in units of the order of the cache's time to live. What a worker does between
two waits takes less than a unit, so `Tick` happens only while all workers wait; setup SQL and
report generation count as the runner's time. `Disturbances` selects what may go wrong:
failing database calls, failing setup SQL, a raising worker, a runner that writes half a line,
a restart.

**Runs.**

| Run | Question | Bounds and why they are enough |
|---|---|---|
| `run_reads` | results reach the row although the job was evicted; a run whose job is cached is recorded; what clients are told never goes back; every run ends | 2 runs of one case, no disturbances; timeout 3 against time to live 1, so a job can be read, evicted and missed while its runner works (by default 600 s and 300 s) |
| `run_disturbed` | types; one verdict in all places | 2 runs, every disturbance, the code's 3 attempts; timeout 2 against time to live 1, so that jobs are evicted here too |
| `run_long` | violation, section 9 | no disturbances; the bounds of `run_reads` |

`FairSpec` is weak fairness of each worker's next step (threads are scheduled) and of time.
Nothing makes a runner exit, an output line end or a client ask. `EveryRunEnds` therefore
rests on the timeout alone, and is claimed without stalling output only.

Seen in the model and not claimed as properties, because nothing in the repository says what
should hold: after a failed setup the row stays `running`; a worker that raises between
verdict and final update leaves job and row `running`; a refused start leaves a `queued` job,
and perhaps a row; after a restart nothing reconciles the rows of lost runs; after three failed updates the row stays
behind job and case center. The kill of a
runner is its end in the model. In the code the worker then reads the rest of its output and waits
for it (`readlines()`, `wait()`, without a deadline), which ends only if no process that the
runner started keeps its output open: `EveryRunEnds` takes this for granted.

## 5. Gate decisions

**Correspondence.** `Receive` is everything before the lock (case check, login, permission,
with the refusals that are written to the history); `ReadAndDecide` is the locked read and the
change in memory; `Erase` and `Rewrite` are the two halves of `write_json_list`: in the
database `delete_all` and commit, then insert and commit; in a file truncate, then write.
`Report` is the history event after the lock. `Show` is the unlocked read of a run's view.
`Reread` is the order the database lists rows in: by `updated_at` and id, both descending, so
that each rewrite reverses the list, which decides what `items[:1000]` (`Kept`) drops.

The lock is a `threading` lock in one process; with one uvicorn worker this is enough, and the
model has one process. The check against the case center is an external refusal. `InForce` is
for runs that have a system gate of their own. The scoring behind the system gate is not
modelled.

**Runs.**

| Run | Question | Bounds and why they are enough |
|---|---|---|
| `gate_decisions` | types (at most `Limit`, one per subject), two persons for each block in force, refinement of `GateContract` | 3 calls: save, approve, save again by another; an admin who may bypass, a lead who is privileged, a tester who is not, and nobody; 3 subjects with room for 2, so that truncation happens; failing writes and restarts |
| `gate_approver` | violation, section 9 | no disturbances |

The contract's `Lose` step is allowed only where writes may fail half-way or the server may
restart: then every decision is lost at once, which is what the code does. A reader's empty
view is not part of the contract (section 9).

Requests, runs and calls are used once in all models and the systems then really stop, so
deadlock is not checked; that nobody waits for ever is checked as liveness
(`EveryRequestEnds`, `EveryRunEnds`).

## 6. Test point assets

**Correspondence.** An asset is a row of `test_point_assets`, an asset file and a plan file
(`rows`, `assetFile`, `planFile`), and `pointRows` says whose save the rows of `test_points`
come from. A request is a thread with a session: `tx` and `synced` are what it has flushed,
which others wait for (`FreeRow`, `FreePoints`) and do not see; `Commit` makes it visible. A
*save* flushes points and row, commits, then writes the two files. An *edit* and a *review* read
the files, decide, write the plan file, then the asset file, read both again and store the row:
`ReadAssetFile` to `StoreRow`, one action for each file operation and statement, because the
files are locked by nobody. A request on several assets goes through them in the order of its
payload (`Advance`); a deletion goes on after an asset that it does not find. A *delete* unlinks the files and then deletes the row; a *list* writes each
row into its asset file (`QueryRows`, `Resync`); the *case* calls and a *generate* first import
every asset file into its row (`Scan`, `ImportFile`, `ImportRow`), as `ensure_seed_data` does.
`WriteFails`, `FlushFails`, `CommitFails` follow the `except` clauses: what a save rolls back and
what it leaves. `Deadlocked` is the database ending one of two sessions that wait for each other.

**Data.** A plan is who supplied its points, which of them the quality gate lets through, who
approved each, and the preview it came from; titles, versions and references are left out. There
is one asset per page, all plans have the same points, and all assets start with the same plan
or none. A file is replaced as a whole. That a listing sees no file and writes it (`Resync`) are
two file operations and one step: a file that another request writes in between is overwritten by
the older row, which matters only while requests overlap.

| Run | Question | Bounds and why they are enough |
|---|---|---|
| `assets` | types; approved points passed the gate; the copies agree when nothing overlapped or failed; points change only with their asset; every request is answered | 2 requests among 11 jobs, 2 assets, so that a batch has a second asset to fail at and two sessions can lock in opposite orders; 2 points, one that the gate lets through and one that it may not; one failing call or restart anywhere |
| `assets_cache` | violation, section 9 | 2 requests, no fault needed |

`FairSpec` is weak fairness of each request that has arrived: its thread runs, and a row that
stays free is granted. An import takes the files in the order of their names (`Rank`); a
listing writes missing files in any order.

## 7. Test cases

**Correspondence.** A case is a row by its number, with its script, the rows of its steps and of
its versions; its file is named after the number. A *generate* job goes through its points:
`Lookup` searches a case of the point among rows, `Collect` the numbers in use among rows and
files, `Allocate` chooses one, `WriteFile` writes the file, `Match` searches the row again, and
then it inserts or updates. An update is the statements of `_sync_test_case_steps`: `DeleteSteps`
deletes the rows that were committed when the statement started and waits for those that are
locked (`Unblock`), `CommitUpdate` writes row, new steps and a version, and `Collides` is the
unique key of steps. A generation adds its version in a transaction after that (`Refresh`,
`AddVersion`), an edit in the same. A delete commits and then unlinks (`CommitDelete`, `Unlink`).
*script*, *edit*, *retag* and *status* are the case center's updates, by the columns that they
set.

**Data.** A script, and the steps derived from it, is the point it is for and who wrote it.
The last flush and the commit are one action; when several cases match, which one is found is a
free choice; two reads of numbers (rows, then files) are one. A generated case has the number that
was looked up or the next one: that is so for a point with steps, whose case is compiled from them.
A case written by an agent may bring a number of its own (`generate_pipeline_orchestrate.py:520`),
which is not modelled. `MaxNumber` and `MaxVersion` are
above what two requests can reach.

| Run | Question | Bounds and why they are enough |
|---|---|---|
| `cases` | types; steps of one writer; acknowledged scripts stay in the history; histories and cases in order when nothing overlapped or failed; every request is answered | 2 requests among 9 jobs, one of which generates for two points; 2 points; a case from before or none; one failing call or restart |
| `cases_twice` | violation, section 9 | 2 requests, no fault needed |

Fairness as in section 6.

## 8. Page objects

**Correspondence.** `page` is the row of `page_objects` with two of its counters, `elements` the
rows of `page_elements` with their `page_element_versions`. `seen` and `loaded` are the page and
the element in the session of a request, as they were when it read them; `flushed` is what it has
written and not committed, column by column, since the ORM writes only those that differ from
what was loaded. `Load` is the lookup with its 404 and 409; `Flush` writes the changed columns
and the next version (`_snapshot_element`); `Insert` a new element; `CountElements` and `Commit`
are `_sync_page_object_metrics` and the commit. A `version` job reads its number first and locks
the element afterwards (`ReadNumber`, `NumberTaken`). Deletions and purges commit twice: the
rows, then the counters, for which the session reads the page again (`Delete`, `Reload`). An
import looks up each of its elements (`LookUp`; the session still holds the element of the item
before, as it was), flushes as it goes, commits once and marks its file afterwards
(`WriteStatus`). Deleting a page deletes the elements it has found, then flushes the page's
deletion, which reads the elements again (`FlushPage`), then everything that refers to the page by
the time it goes (`Drop`).

**Locators** are three columns, type, value and role, written one by one; texts are trimmed and in
lower case, as they are compared, and a value given as an empty text counts as not given. Two
elements are duplicates (`Rivals`) if all three columns are the same. If the type is `role`, it is
enough that the values are: a link may stand for a button. Of rivals a purge leaves one, with a
role if one of them has a role (`Purges`); which one depends on the order of their last updates,
which `PageObjects` leaves free. `PagePurge` is the loop of `_purge_duplicate_page_elements`
itself, over rows in that order; the branches together do what `Purges` says (section 10),
although a row that was kept may give way to a later one.

**Locks** are external: `Needs` names the rows and unique keys a statement takes, `Acquire`
takes one of them at a time in any order, `Locked` holds when it has all and no foreign key
stands against it. `BreakDeadlock` ends one session of a minimal set that wait for each other.

**Data.** One page. An element is its code, its locator, whether it is approved, and its
versions. An import may upgrade an element for a column that is not modelled. `alone` is the
request that arrived last, if no other was under way, and until another arrives or something
fails. What is claimed of it holds whatever ran, overlapped or failed before.

| Run | Question | Bounds and why they are enough |
|---|---|---|
| `page_objects` | types; whole histories; recorded locators; counters that recover; purges keep one of each; every request is answered | 2 requests among 14 jobs; 2 codes, enough for duplicates, renames onto each other, and imports in opposite orders that deadlock; no page, or one with no element, one, or two that are rivals of which one has a role; counters right or wrong; one failing call or restart |

Fairness as in section 6. With two requests, counters that an overlap left wrong are never seen to
recover: that is why they may be wrong at first, and why the theorem is of any number of requests.
The loop of the purge has no run of its own: what it does is proved, for every list of rows.

## 9. Where the code and what is said of it differ

Shown by a run:

1. `run_long`: a polled run longer than the cache's time to live never reaches the case
   center: its job is evicted, the final status is dropped, and `finally` persists the queued
   job, which is ignored.
2. `gate_approver`: saving a decision that needs no approval keeps the second approver of the
   one before; an admin who approved a block and then decides himself is his own second
   approver. (`TwoPersonRule` holds nevertheless: such decisions are the admin's to make.)
3. `assets_cache`: the case center copies every asset file over its row, also when the file is
   older, although the database is called the source of truth and the files a cache.
4. `cases_twice`: two generations of one test point that overlap give it two cases.

Met while modelling, without a run of their own:

- Intake: an attempt that lost the content claim and then reads the winner's completed record of
  its own key is rejected (`RejectOutcome`), though the intake plan fails closed only when the
  winner cannot be read (`docs/evie-ai/implementation/phase-1-slice-6-intake-plan.md:279`).
- Runs: two runs of one case that end together leave the report of one with the result of the
  other (`workbench_runtime_service.py:913`); a runner that hangs after half a line blocks
  `readline()`, where no deadline is looked at (`:730`; the repository's `README.md:122` says
  that a timeout kills it).
- Gate: a reader between the two commits of a rewrite is told there is no decision
  (`workbench_state_store.py:217`).
- Assets: a batch review that is refused at a later asset has written the files of the earlier
  ones (`docs/architecture/2026-07-07_phase4.2_review_gate_audit.md:146` says that they are not
  written); a save that is repeated answers `preview_not_found`, because the search for a preview
  looks where saving never puts it (`TopLevelPreview`); of two reviews that overlap the later one
  drops the earlier (`facade_test_point_assets.py:478`).
- Cases: two generations for different points may take one number, and the second overwrites the
  first; two updates may take one version number, after which reading that version fails; a case whose generation stops between its two transactions, or
  whose number an edit takes in between, lacks the generation's version. A file that a crash
  leaves behind a deletion occupies its number for ever (`test_case_service.py:2264`).
- Page objects: deleting a page without `cascade_elements`, while an element is being created,
  deletes the new element, although both requests answer that they succeeded
  (`page_object_service.py:849`); two edits of different columns that overlap leave a locator
  that nobody asked for, half of each; two purges with an edit in between may delete both of two
  rivals (`page_object_service.py:404`); the *last* version may show an older locator than the row's,
  when a rename overlaps an edit; a purge deletes the references of the elements it removes.
  The clean-up of legacy layout pages (`page_object_import_service.py:641-672`) changes a
  reference in the session and then deletes its row by a query, so that the flush finds no row
  and the whole import fails whenever a legacy element with a reference has a namesake in
  `layout`; `docs/core/page_object_data_testid_import_plan.md:1161` has it migrate the reference.

## 10. Proved

Every safety invariant, every action property and both refinements that a passing run checks are
also theorems. They are of `Spec`, for every value of the constants that satisfies the named
assumptions (`ProjectAssumption`, `NoneAssumption`, ..., `GateAssumption`, `CallAssumption`:
subsets, types, and that `None` is no value). Four theorems have a hypothesis about the
environment beside these; it is given with each, and says when the code promises the property at
all.

**Intake** (`TestAssetIntakeProofs`, `IntakeContractProofs`).

- `TypeCorrect`: `TypeOK`. It is not inductive: that `Commit` writes a row and not `None` depends
  on what earlier steps left in the transaction. `TypeInv` adds, per program point, which of a
  request's columns are filled (`Bound`).
- `OneAssetPerContent`: `AssetsMatchClaims`. `ClaimInv` adds what makes it inductive: a
  transaction with a new asset holds the unique key of its claim, that claim is not committed
  (`Pending`), and committed ids belong to requests that are over (`Unborn`). The heart is that no
  move of another request takes a held key (`LocksKept`), so two pending assets of one content
  are impossible. It holds for PostgreSQL and for SQLite.
- `ImplementsContract`: `ContractSpec`, with `IntakeInv`. `TxInv` says what a transaction is about
  to commit: from its claim on it holds the record's key, and that claim is the next generation of
  a vacant scope (`Claiming`); at the commit it carries that claim, completed, with either a new
  asset and its event or exactly the source that is missing and its events (`Writing`). The commit
  is then the contract's step, and every other step shows only an error, a replay or nothing.
- `RecordsAreReplayable`, `OneDecision`, `CallersAgree`, `SourcesAreAudited`, `NoTraceOfErrors`:
  `TablesInv` relates the committed tables with each other and with the answers: a record repeats
  the decision of its generation, an event is of a generation its scope has reached and by a
  request that did not end in an error, an answer repeats a decision. `CallersAgree` follows
  because a decision is unique per generation.
- `OnlyReoccupied`: `RecordsOnlyReoccupied`, of every step, from the same invariant.
- `NoFailureOfItself`: `FirstAttemptNeverFails`, assuming `RowLocks`: `FOR UPDATE` keeps the
  selected record what it was until it is reoccupied (`Selected`). SQLite has no such lock, and
  its compare-and-swap may find another record than was read.

**Runs** (`WorkbenchRunProofs`).

- `RunTypeCorrect`, `OneVerdictEverywhere`: under every disturbance. No copy is final before the
  worker concludes, it concludes once, and afterwards every copy, the one in its session too, can
  only be of that conclusion (`Consistent`); a case has its result of one of its runs
  (`Attributed`).
- `ResultsReachRows`, `CachedResultsAreRecorded`: assuming that no database call fails (after
  three failures the result is given up) and no worker raises. The runner may stall, setup may
  fail, jobs may be evicted and the server may restart. `Arrived` follows the result from place to
  place.
- `ReadersGoForward`: `ReadsNeverGoBack`, assuming that neither database calls nor setup fail and
  the server does not restart. A job is ahead of its row only between two updates of the worker,
  and then it has just been updated and is not evicted; otherwise the row has caught up
  (`Synchronized`). What was shown is never ahead of what would be told now (`Forward`).

**Gate decisions** (`ExecutionGateProofs`).

- `GateTypeCorrect` and `BlocksHaveTwoPersons`: the store's shape and `TwoPersonRule`. The rule
  about the stored list is not inductive, because a list is written two steps after it was made;
  `Inv` says the same of every list a request is about to write, that it has one record per
  subject, and that calls past admission were admitted. The lemmas say what `Put`, `Kept` and
  `Reread` do to such lists and what `Outcome` makes of a record.
- `StoreImplementsContract`: `ContractSpec`. `StoreInv` adds that from the read to the last write
  a request holds `FILE_LOCK` and that its list is its call's change of what is stored
  (`Planned`). The lemmas read a list as a function from subjects to decisions: reading it back
  in another order changes nothing, `Put` changes one subject, and `Kept` drops one, the last,
  only when the list is longer than `Limit`, which is when the contract's count is full.

**Test point assets** (`TestPointAssetsProofs`).

- `AssetsTypeCorrect` and `ApprovalsAreSound`: approvals move between files, a request's memory, a
  transaction and the row, so `Shape` says of every one of these places that it holds only sound
  plans (`SoundPlan`), and `Located` that a request points at one of its assets.
- `PointsFollowTheirAsset`: `PointsChangeWithAsset`. `SaveInv` adds that points are flushed only
  by saves, and only together with a row that is of the same save.
- `CalmCopiesStayTheSame`: `CalmCopiesAgree`. See below.

**Test cases** (`TestCasesProofs`).

- `CasesTypeCorrect`, `StepsAreOfOneFlush` and `EditsStay`: `Inv` joins the order of primary keys
  (`Keys`), what a request has read at each point (`Fits`), the steps, and where an acknowledged
  script is (`Kept`). The argument for the steps: a writer that found a committed row has deleted
  exactly the rows of the one flush before it, or collides.
- `CalmHistoriesAreWhole` and `CalmCasesMatch`: `CalmHistory` and `CalmCases`.

**Page objects** (`PageObjectsProofs`, `PagePurgeProofs`).

- `PageTypeCorrect`, `HistoriesAreWhole` and `LocatorsAreRecorded`. A history is whole in the
  database only because it is whole in every session that may commit (`AllWhole`), and a session's
  remains so only because nobody else may touch a row it has flushed: `FlushedIsHeld` (it is
  locked, or new), `LocksApart`, and `Elders` (what others can see was created by a request that
  has committed). A number that was read without a lock is at most one beyond the history
  (`Numbered`), so that the unique key decides.
- `CountersAreRecovered` and `PurgesKeepOneEach`. See below.
- `LoopPurgesDuplicates` and `LoopKeepsTheLatest`: `LoopInv` says of the rows that were
  looked at what `Purges` says of all: two that are kept are no rivals, and each duplicate has one
  that is kept and stands for it. When one that is kept gives way, the one that takes its place
  stands for all it stood for.

**One request at a time.** What is claimed of calm times (`Calm...`) and of a request that runs
alone (`CountersRecover`, `PurgeKeepsOneEach`) is still about every job and any number of them, so
its proof needs what each job does from its first step to its last. The invariant `OneAtATime` of
each of the three modules has the same parts: at most one request is under way; what it has read
is what there is (`WithFiles` and `WithRows`; `UpToDate` and `Aimed`; `Current`); where it is in
its job (`Course`; `Fresh`), and so how far it has carried its change (`Halfway`; `Lacks` and
`Strays`; `Counting`); everything it has not yet touched is in order (`Even`; `Tidy`). In
`PageObjects` the last is not needed, since nothing is assumed of what ran before: whoever is not
in flight has left neither locks nor writes (`Rests`), so that what a request reads while it is
alone stays, and what it counts is right whatever the counters were. In `TestCases` the invariant
is what shows that between the two transactions of a generation nothing but the last version is
missing.

**Model-checked only:** that requests, runs and callers end (`EveryRequestEnds`, `EveryRunEnds`):
liveness under fairness, beyond the prover. The violations of section 9 are TLC's
counterexamples.

## 11. Not modelled

- **Recorder**: `create_recorder_session` and the persisting of candidates
  (`page_object_recorder_cases.py:96, 147, 280, 435`) use names that the module neither imports
  nor defines. Starting a session raises `NameError` before anything is started, so that no state
  of a session can be reached.
- **Candidates**: every writing operation calls `test_project_service`, which
  `page_object_candidates.py` does not import; it ends the same way.
- **Clean-up and reviews**: the same store as the gate decisions; the lists the clean-up filters
  are read by no decision, and a review is a gate decision without permissions.
- **Data pools**: each operation is one transaction over unique keys. Its one hazard is a delete
  that looks for cases which refer to the item and then deletes it, without a lock, while a case
  that refers to it is being stored (`test_data_pool_service.py:321-332`).
- **Left out of modelled components**: heal-and-rerun and the log files of runs; plans of a page
  without an asset and the endpoints of single points; the expiry of previews; batch tags and
  renumbering of cases; editing the page row, references, secondary locators, health checks and
  the governance log; a COMMIT whose acknowledgement is lost.
- **No state of their own**: views and reports, the generation compiler and its rules (functions
  of text), agents (calls to language models), shared schemas. The orchestrator's requests share
  a circuit breaker (`orchestration_flow_support.py:73-101`), but nothing calls
  `_record_timeout`, so that it never opens. **Outside this
  process**: runners, migrations, scripts, static pages.

What would come next: the lost acknowledgement of a COMMIT in the intake; the state store's
other lists, which are written the same way; and for each of the three `OneAtATime` invariants
an abstract specification of the component without overlap, which it would implement.
