# Task scheduling board: a TLA+ verification project

The program is a task scheduler on one SQLite file (`src/app`): a FastAPI server
with a dashboard, and worker processes that compete for tasks through database
transactions alone. This directory models the part of it that decides whether a
task is executed once, in order, by one holder and with frozen parameters, checks
the model on small instances with TLC, and proves with TLAPS, for every instance, all of
it that is not liveness.

## 1. The system and its components

| component | where | state | operations |
|---|---|---|---|
| Task service | `app/services.py` on the schema of `app/db.py` | tables `groups`, `tasks`, `steps`, `execution_logs`, `operation_logs`; AUTOINCREMENT counters | `create_group`, `update_group`, `create_task`, `claim_next_task` (with `_reclaim_expired_leases`), `start_task`, `complete_step`, `requeue_task`, `reset_all`, `seed_demo` |
| Parameter resolution | `services.resolve_parameter_chain` | none (pure) | L1 base, L2 group snapshot, sticky L3 step overrides |
| Read side | `list_tasks`, `get_task`, `list_groups`, `list_operation_logs` | none | queries; the log has a cursor (`after_id`, newest `limit` rows) |
| Worker loop | `app/worker.py`, `scripts/run_worker.py` | locals of the process: task, token, current step | poll, claim, start, sleep (the side effect), report, abandon on `ConflictError` |
| Worker manager | `app/worker_manager.py` | table of child processes, a name counter, a lock | `spawn`, `describe`, `stop_all`, pruning |
| HTTP API | `app/main.py`, `app/schemas.py` | the proof lock | one route per service operation; `reset_board` = stop the workers, then wipe |
| Dashboard | `app/static/app.js` | tokens of this tab, the worker id in its input, the ledger rows shown and their cursor, the load under way, the action under way | polling every 1.5 s, forced loads after an action or a click on retry, buttons that call the API, the five-fold verification, a 10 s abort |
| Concurrency and idempotency proof scripts | `scripts/run_*_proof.py` | barriers and queues between spawned processes | rounds of simultaneous claims or reports on a temporary database |
| Tests | `tests/` | | read for the intended behaviour |

**How they interact.** Every process opens its own connection. Each writing
operation takes SQLite's single write lock with `BEGIN IMMEDIATE` (waiting up to
30 s), checks, writes, appends its rows to `operation_logs`, and commits; when it
raises, it rolls back. So the tables are the only shared state and a committed
transaction is atomic. Between two transactions anything may happen: another
worker's claim, the operator's requeue or reset, a kill, or nothing for hours.
The worker's *execution* of a step happens outside any transaction, and no rollback
undoes it.

**What is hard.**

- *Interleaving and staleness*: `claim_next_task` computes the lease deadline before
  it waits for the lock and reads the granted task after it has committed; a worker
  acts on a token that may have been revoked since; several processes may run under
  one `worker_id`.
- *Retries and reordering*: a report may come twice, late, contradicting the first,
  or after the task was given to somebody else.
- *Crashes*: a worker may die after its claim (the lease gives the task back), or
  after its start (nothing does, by design: a side effect may have happened).
- *Time*: leases compare wall-clock strings, and the clock may be set back.
- *Operations of several transactions*: `seed_demo`, `create_group`, `claim_next_task`
  and `reset_board` can be interrupted between two of theirs.
- *Lost answers*: a browser gives up after 10 s on a request that the server carries
  out all the same.
- *Liveness*: nothing reclaims by itself; a dead worker's task moves on only
  inside somebody else's claim.

**What makes each component correct.**

- Task service: one holder per task and one task per credential; a revoked
  credential stays dead; steps strictly in order, the row and the log telling the
  same story; first report wins; done and failed are final; the L2 snapshot is taken
  once; the operations ledger adds up.
- Worker loop: no step is executed twice without the operator asking for it; the
  ledger never claims a step that was not executed; a worker that is on time is not
  refused; queued tasks get started and started ones finish.
- Parameter resolution: the left-to-right loop equals "the last non-empty override
  wins, else group, else base".
- Worker manager: never more than ten live managed workers, none forgotten.
- Dashboard: no stale button succeeds on somebody else's task; a verification that
  passes is true and one that fails has a cause; the ledger is shown in order, without
  gaps or repeats; what an action did is shown after it.
- Proof scripts: a pass certifies one winner per round, a failure is the service's or
  the machine's, and the parent comes to an end whichever child hangs, unless one dies
  inside a barrier.

`PROJECT.json` lists every hazard with the line where it bites and the
properties that look for it.

## 2. The modules

| module | what it is |
|---|---|
| `TaskBoard` | the task service: tables as functions from ids to rows, one action per committed transaction |
| `TaskLifecycle` | the abstract promise of the service: a task is queued, granted, executed, ended, withdrawn or wiped |
| `Workers` | `EXTENDS TaskBoard`; worker processes with their program counter and locals, kills, restarts, the operator |
| `Parameters` | `resolve_parameter_chain` iteration by iteration, inside the first and later starts of one task |
| `WorkerManager` | the manager's lock, its table, the requests that drive it and the processes it started |
| `DashboardFeed` | one tab of the dashboard following the board and the operations ledger |
| `DashboardSession` | `EXTENDS TaskBoard`; a tab as a worker: its tokens, its clicks, its requests on their way through the server, `seed_demo` transaction by transaction |
| `ProofHarness` | the two multiprocess proofs: parent, children, barriers, queues, verdict |
| `MCTaskBoard`, `MCWorkers`, `MCParameters`, `MCWorkerManager`, `MCDashboardFeed`, `MCDashboardSession`, `MCProofHarness` | the model values for TLC |
| `TaskBoardProofs` | the invariants and action properties of `TaskBoard`, proved |
| `TaskBoardRefinement` | `TaskBoard` implements `TaskLifecycle`, proved |
| `ParametersProofs` | the resolved parameters are the documented ones and never change, proved |
| `WorkersProofs` | the safety of worker processes on the board, and that with them it still implements `TaskLifecycle`, proved |
| `WorkerManagerProofs` | limit, names, nobody forgotten, stop before wipe, proved |
| `DashboardSessionProofs` | what a verification of the dashboard is worth, and where tokens are, proved |
| `DashboardFeedProofs` | order and completeness of the ledger panel, and the age of the board, proved |
| `ProofHarnessProofs` | a multiprocess proof that passes certifies what it says, and one that fails has a cause, proved |

`Parameters`, `WorkerManager`, `DashboardFeed` and `ProofHarness` stand beside
`TaskBoard`: what they need of it is small. To `Parameters` a task is its inputs and its starts (that no group
edit comes inside a start is the write lock, that the frozen snapshot stays is
`SnapshotFrozen` of `TaskBoard`); to `WorkerManager` a worker is a process that lives
or not (what its death means for the board is `Kill` in `Workers`); to `DashboardFeed`
the board is its version, the number of ledger rows written so far; to `ProofHarness` the
service is sound (`TokensUnique` and `FirstWriteWins` of `TaskBoard`) or does anything, and
that is what a proof has to find out.

### TaskBoard and the code

A row of `tasks` is a record with the columns that steer the program; a row that is
not there has status `"absent"`. `steps[t][s]` is the status of a step, `logs[t][s]`
the `success` column of its `execution_logs` row or `NULL`, `audit[t][e]` the number
of `operation_logs` rows of an event. Ids come from AUTOINCREMENT counters that
survive a reset (`sqlite_sequence` is not deleted). A claim token is a number the
generator has not returned before: 256 random bits do not repeat. `clock` is the wall
clock that all processes of the host read; `Tick` moves it on and `ClockSetBack` back.

| action | code |
|---|---|
| `CreateGroup`, `UpdateGroup`, `CreateTask` | the operations of the same name; `GroupKnown` is the group lookup |
| `SeedRunning` | the transaction of `seed_demo` that inserts a task already claimed by `demo-worker`; its ledger row is a `task_created` row naming a worker, counted as `task_created_held`. The other transactions of `seed_demo` are `CreateGroup`, `CreateTask` and `StartTask`; `DashboardSession` puts them in their order |
| `ClaimTask`, `ClaimNothing` | `claim_next_task`: reclaim every expired claim, take the oldest free task by `created_at, id`, issue a token; or commit the reclaims alone. The deadline is an input, computed up to `MaxLockWait` earlier (`LeaseExpiry`) |
| `StartTask`, `RetryStart` | `start_task`: credentials, then status; freeze L2 unless a snapshot is there, open the first pending step, clear the deadline |
| `CompleteStep`, `DuplicateReport` | `complete_step`: credentials, then the log row; the inserted row drives step, next step and task; otherwise the ledger notes a repeat or a contradiction |
| `RequeueTask` | `requeue_task`: clear the credentials and rewind the running step |
| `ResetAll` | `reset_all` |

A call that raises changes nothing and is a stuttering step. The caller is
unconstrained: any worker id and any token may come with any request at any
time, which covers delayed, repeated, reordered and stale requests.

Abstracted: names, messages and timestamps nobody compares; the parameter values
(an override dictionary is a model value, `resolved_parameters` is a function of
inputs that the properties show to be frozen); JSON validation.

Definitions that end in `Fault` are not part of the model. Each is a mistake that
could be made in the code its neighbour models (a dropped guard, a missing reset,
an off-by-one); replacing the neighbour by it must break a property, which
shows that the property can fail.

### Workers and the code

`proc[p]` is one process of `run_worker_loop`: `pc` says between which two
transactions it is, `deadline`, `task`, `token` and `step` are its locals.
`AskForTask` / `Claim` / `ReadGrant` are the three parts of `claim_next_task` that
are not atomic with each other; `Start`, `Perform` and `Report` are
`_execute_task`, where `Perform` is the side effect the sleep stands for, counted in
the history variable `effects` that no code reads. `overdue` is the other history variable:
the processes whose deadline the clock has been past, at any moment since they asked. While a
process waits for its start any other one may have reclaimed its task in such a moment, and when
the clock is set back (`NoteDeadlines` goes with `Tick` and `ClockSetBack`) it reads itself as
punctual and is refused. `PunctualWorkersKeepTheirClaim` is therefore about the processes
outside `overdue`. `Continue` reads the task *as the
transaction just committed returned it*, as the code does. A `ConflictError` sends the
loop back to polling; a `NotFoundError` is not caught and ends the process
(`Rejected`). `Kill` is `terminate`, a power cut or a lock wait that ran out;
`Respawn` starts another process under the same `worker_id`.

### Parameters and the code

An object maps every key to a value or to `Absent`. `BeginStart` reads the inputs and
merges L1 and L2, `ApplyKey` is one pass of the inner loop (for any key left, so the
order of an override's keys is arbitrary), `TakeSnapshot` ends a pass of the outer one,
`CommitStart` stores the result for all steps together with the frozen group, `RollBack`
is a start that raised or died. Values are compared only with the empty string; nested
objects are values, as they are to the code.

### WorkerManager and the code

`workers` is the dict as the set of pids in it, keyed by their names; `processes`
remembers every process ever started, `outlived` those that a `join(timeout=5)` gave up
on. A request takes the lock in `EnterSpawn` or `EnterStop` and holds it over the
actions that follow, while processes die and the server may crash; the terminate loop
is one step, since what comes between two of its calls is seen by nobody. `StartFails`
is a `process.start()` that raises. `reset_board` is a stop whose request goes on to
`Wipe`, the lifespan's end one that goes on to `Exit`, where multiprocessing's exit
handler joins what is left. After `Crash` the children live on and the next server knows
nothing of them.

### DashboardFeed and the code

`loads[l]` is one call of `loadTasks`: waiting for the load that was active when it was
made, or sent, with the two answers it has so far; `activeLoad` is the variable of that
name. The server reads tasks and ledger at two different times (`ReadTasks`,
`ReadLogs`; the answer to a query that has a `LIMIT` is `NewestFirst` of the rows after the
cursor, each at the place given by how many are newer). `Finish` is what follows
`Promise.all`, `Fail` its rejection; in both (`Ended`) `activeLoad` becomes null whichever load it named, and every call that waited
for this one starts at once, as the microtasks do before any timer or click. `ForceLoad`
is `loadTasks({force: true})`, from `runAction` (one at a time) and from the retry
button, which is shown after a failure without tasks and which nothing disables.

### DashboardSession and the code

`requests[r]` is one request on its way: what was asked with which credentials, how far
the server is with it (`at`), and whether the tab still waits (`mine`). The tab has one
action under way (`busy`, the code's `busyAction`). `ClickClaim`, `ClickDemo`,
`ClickStart` and `ClickReport` send; `Receive` is what `runAction` does with an answer,
storing token and, for the demo, worker id, and then the forced load, which may fail;
`Judge` is the end of `completeFiveTimes`. `GiveUp` is a request that fails or is
aborted after ten seconds: the server goes on with it and nobody hears the answer.
`StorageRefuses` is the error of `saveClaimToken` (`app.js:165-171`), which ends the action before
the worker id is set and the board loaded; it may meet any answer with a token. `Reload` keeps
`sessionStorage` and takes whatever worker id `localStorage` has; `CloseTab` loses both board and
tokens, and opens another tab. The history variable `dropped` has the tokens that the tab could
not keep.

The server's actions are those of `TaskBoard`, one transaction at a time:
`ServeClaim` commits the claim and then reads the task; `SeedGroup`, `SeedTasks` and `SeedStart` are
the six steps of `seed_demo`, with `create_group`'s second statement among them, and
`SeedFails` those that a reset in between, or a late start, makes fail. Others claim
and work under the same worker ids with tokens of their own, the operator requeues and
resets. `offer` is the board as last loaded: which button a task's card, or its dialog,
has room for. That an unchanged payload is not rendered again (`app.js:874`) is left out.

### ProofHarness and the code

`parent` and `child[c]` are program counters and rounds; `kind` says which script runs:
the idempotency proof is the claim proof with one round and the first barrier alone. A
barrier fills, opens when all parties are inside (`Open`), drains as they leave, and may
be broken by a timeout or by `abort`; who then has not left it raises, as
`threading.Barrier` does it. Whoever opens, breaks or aborts one calls `notify_all` of
`multiprocessing`'s condition, which waits for every sleeper to wake, and that without a
timeout. A child that is killed in its sleep there, or stopped for good, or killed with the lock
of the barrier in its hands, can so jam it: `Crash` sets it to `"jammed"`, and nobody opens,
leaves, breaks or aborts it any more. It jams at once in the model and with the next `notify_all`
in the program, but in between nobody can leave it in either. A child that dies before it has
entered, or between waking and leaving, jams nothing. `Clean` aborts the barriers in the
code's order and, where one is jammed, ends at `"aborting"`, where the parent stays. The parent's
other waits may all time out. Children crash
anywhere (`Crash`; messages of a killed child may be lost), fail to connect (`Boot`) or get an
exception for an answer (`Call`). `Clean` is the `finally` block, `Terminate`
`_shutdown_started_processes`, `Judge` the statistics and the verdict. `wins` and
`owner` are what the service really did. That a child is killed while it
holds the lock of a queue, which nothing could repair either, is left out.

## 3. What is checked

| run | instance | what it shows |
|---|---|---|
| `queue` | 2 workers, 2 tasks of up to 2 steps, 1 group, 2 tokens, clock 0..1 | `TokensUnique`, `ClaimColumnsAgree`, `ClaimedIsStartable`, `HoldersKeepTheirTask`, `CredentialsNeverReturn`, and `TaskBoard` implements `TaskLifecycle` |
| `resume` | 1 worker, 1 task of up to 3 steps, 3 tokens, 3 override dictionaries, leases 0 and 1, clock 0..2, lock waits of 0 or 1, 2 repeated reports | `TypeOK`, `StepsFollowTask`, `LedgerAgrees`, `FrozenFromFirstStart`, `AuditBalances`, `SnapshotFrozen`, `FirstWriteWins`, `TerminalIsFinal` |
| `workers` | 2 processes under one id, 1 task of up to 2 steps, 3 tokens, 1 kill, clock 0..2 that may be set back, resets | `EffectsAreCounted`, `OneExecutor`, `ReportsFollowEffects`, `PunctualWorkersKeepTheirClaim`, `OnlyResetAborts` |
| `workers_live` | as above with one process never killed, lease 0, clock 0..3 | `QueuedTasksAreStarted`, `StartedTasksFinish` |
| `parameters` | 2 keys, 1 to 3 steps, 2 starts, a value of its own for each layer and two for the steps, empty strings at L2 and L3 | `ResolvedAsDocumented`, `ResolvingIsIdempotent` |
| `manager` | 2 request threads, limit 2, counts 1 and 2, 4 calls, 1 crash | `NoWorkerForgotten`, `LimitHolds`, `NamesIdentifyWorkers`, `StoppedBeforeWipe`, `RequestsReturn` |
| `feed` | 2 loads at a time, 3 ledger rows, answers of 1 row, 2 rows shown, 1 failure, 1 click on retry | `LogbookInOrder`, `NoSilentGap`, `ActionsShowTheirEffect`, `BoardNeverGoesBack`, `RowsReachTheTab` |
| `session` | a tab and a worker under the same id, 2 tasks of 1 step, 2 tokens, 2 requests at a time, 2 equal reports, 1 trouble (a lost answer, a failed load, a page opened anew, a reset or a set-back of the clock), any refusal of sessionStorage, lease 0, clock 0..1 | `PassCertifies`, `AlarmsHaveACause`, `DemoTaskIsNotSnatched`, `StartedTasksAreReachable` |
| `harness` | 2 children, 2 rounds, a sound or an arbitrary service, 2 faults of the machine, any barrier jammed by a child that dies in it, any timeout | `PassMeansOneWinner`, `FailuresHaveACause`, `ProofEnds` |
| `half_executed`, `feed_reset`, `harness_alarm` | small instances | each violates what the program says of itself (section 4) |

**Bounds and why they are enough.** Two tasks and two tokens are the least with which
a credential can open the wrong task, an expired claim can be reclaimed inside the
claim of another task, and order in the queue matters. Three tokens for one
task let it be claimed, lost and claimed again twice, so that a resumed execution
is itself interrupted; three steps have a first, a middle and a last one. Clock
readings matter only by comparison with deadlines: with leases 0 and 1 and a clock
of three values a deadline is before, at and after the present. Two repeats per
task record both an agreeing and a contradicting report. The proofs of section 5
remove all of these bounds from everything but the five liveness properties.

A limit of two is the least at which two spawns that fit alone do not fit together and
a worker can be left over beside the one that dies; four calls are a spawn, a stop or
reset, another spawn and one more that competes with any of them. The feed's limits keep
the order of the real ones (150 and 200 rows asked for, 300 shown: 1, 1 and 2): three
rows overrun an answer, and the panel. Two loads are all that can be under way while
nobody clicks retry, one active and one waiting for it.

`LogbookInOrder`, `NoSilentGap` and `BoardNeverGoesBack` hold only as long as no two
loads overlap, which two clicks on the retry button can bring about (`app.js:850-854`:
a forced load that waited does not look at `activeLoad` again); they say so by
`retries = 0`. The other two properties of the run hold after clicks on retry, too.

A session needs two tasks, because the demo creates two and a token of one must not
open the other; two tokens, one for the tab and one for whoever claims next; two
equal reports, the least of which one can be the insertion and one the no-op. `MaxTrouble`
counts lost requests, failed loads, pages opened anew (reloaded or closed), resets
and set-backs of the clock together; the run has one of them, and what two of them do together the
theorems cover. The properties name `lost` and `resets` where these change what they promise; a
set-back of the clock excuses nothing. One kill in `workers` suffices to have
two processes with the same task before them; the theorems take any number. In the harness the second round
is the first with results of an earlier one, and two faults are a crash and a second
thing going wrong in the cleanup. The harness ends, so its runs do not check for deadlock;
that it ends is `ProofEnds`.

`MaxGroup`, `MaxTask`, `MaxToken`, `MaxClock`, `MaxKill`, `MaxTrouble` and `MaxDuplicate` stop the counters;
`MaxStep` and `MaxLockWait` limit inputs. All of them are constants of the
specification and arbitrary in the proofs.

**Fairness.** In `workers_live`: `WF(WorkerStep(p))` for a process that is not
killed: its loop has no blocking step besides the lock wait, which ends. Time passes:
`WF(LeaseRunsDown)`, where the clock moves only while an unexpired claim waits to be
started, so that a fair clock stays within `MaxClock`; it may be set back finitely often
(`<>[][~SetBack]_allVars`), as a clock that goes back again and again never reaches a deadline. No fairness is assumed of
the operator, of kills or of restarts. A reset removes every task and with it
the promise, so it is not among the fair behaviours. When the tokens of the bound
are spent a process goes on polling (`BoundReached`), and both liveness properties
say so or are about a claim already made. In `manager` every thread of a running
server keeps running (`WF(RequestStep(r))`); `threading.Lock` is not fair, but `MaxCall`
lets nobody overtake for ever. In `feed` the timer of a foreground tab ticks and
requests are answered, but for `MaxFail` of them. In `harness` the parent
keeps running (`WF(ParentStep)`): its own waits are bounded by `_remaining_timeout`, and of the
children only this is asked, that one asleep in a barrier which is neither dead nor stopped for
good wakes when it is signalled. At a jammed barrier no step of the parent is enabled, and fairness
asks for none: `ProofEnds` says that the parent ends or is held up there, or in `abort()`, by a child
that died at this barrier. Children may hang anywhere else. Deadlock checking is on in every run but those of the harness.

## 4. Where the code and its documentation disagree

- `half_executed` / `HalfExecutedTasksAreReclaimed`: the dashboard tells whoever
  stops the workers that half-executed tasks are reclaimed when the lease expires
  (`app.js:1132`). Only claims that were not started are; a running task waits
  for a manual requeue.
- `feed_reset` / `ClearedMeansCleared`: the reset handler empties the panel but lets the
  load under way go on, and the rows it read before the wipe come back.
- `harness_alarm` / `SoundServicePasses`: when the last results are read the parent
  aborts the barriers at once (`run_concurrency_proof.py:342`); a child that is still on its
  way out of the last one sends an error, and the proof of a sound service fails.
  `FailuresHaveACause` shows that this is the only false alarm there is.

Three more were met and have no run of their own. "Bound cleanup by phase deadlines"
(`run_concurrency_proof.py:71`) is true of the joins, but neither it nor the global timeout bounds
the `abort()` before them (`:65`, `:342`) or a barrier that opens or times out (`:46`): each
waits for the sleepers of the barrier, and for ever if one of them was killed (`ProofEnds`
excepts exactly this). DESIGN.md section 5.2 promises that a repeated
report is always a gentle success; `complete_step` compares credentials before it looks
for the log row, so a repeat after a requeue is answered with a conflict
(`AlarmsHaveACause` counts it as a cause). And DESIGN.md section 6 says that the buttons
appear only where the tab holds the credential; `app.js:440` asks only whether a token is
stored, and tokens are never removed.

## 5. What is proved

Every invariant and every action property that a run of section 3 expects to hold, and
the refinement, is a theorem. Only liveness is not (end of this section).

Assumptions: the bounds are natural numbers and `MaxStep` is at least 1
(`BoundsAssumption`), leases are natural numbers, `NULL` is none of the values it
is compared with (`NullAssumption`), and `demo-worker` is a worker id
(`DemoAssumption`). Every process runs under some worker id (`ProcessAssumption`), the
tab and the other clients do, and a tab has finitely many requests under way
(`SessionAssumption`, `RequestAssumption`); a spawn is asked for 1 to `Limit` workers, which
is what the request schema admits (`schemas.py:43`; `ManagerAssumption`); an answer has no
more rows than the panel shows, as 150 and 200 are no more than 300 (`FeedAssumption`). Nothing else: any number of
workers, processes, requests, tasks, steps, groups, tokens, rows and children, any leases,
any clock.

The argument of `TaskBoardProofs`:

1. `TypeCorrect`: each action preserves `TypeOK`.
2. All that follows is proved of `BoardStep`, which is `Next` or a claim with any deadline
   at all (`AnyClaim`): a process that was stopped between computing its deadline and
   getting the lock may ask for one that is long past. This is what lets the modules that
   extend `TaskBoard` take its theorems over.
   `NextChange`: from a well-typed state, whatever a step does to the rows, steps,
   log and ledger of one task is one of eight changes (`TaskChange(t)`: kept,
   created, reclaimed, requeued, granted, started, reported, wiped). Everything
   after this is proved change by change, for one task at a time.
3. `CredentialInv` = `TypeOK` + no row under an id still to be handed out
   (`UnusedIds`) + `ClaimColumnsAgree` + `TokensUnique`. `UnusedIds` is needed because a
   creation must not overwrite a row; the bound `token < nextToken` inside
   `TokensUnique` is what makes it inductive: the token just issued is on no row.
   Only one task can receive it (`OneGrantee`). Gives `TokensAreUnique` and
   `ColumnsCorrect`.
4. `StepInv` adds `StepsFollowTask` and `LedgerAgrees`. That the next step after a report
   is `s + 1` and still pending (`NextStep`, `AroundRunning`) needs the order of
   the steps; that a requeue never rewinds a reported step needs the ledger. Gives
   `StepsCorrect` and `LedgerCorrect`.
5. The action properties follow from `StepInv` and `TaskChange`: `CredentialsDie`,
   `HoldersAreSafe`, `SnapshotIsFrozen`, `FirstReportStands`, `TerminalStays`.
6. `BoardInv` adds `GroupsKnown` (a task's group exists: groups go only in a reset,
   which takes every task along), `AuditBalances` and `FrozenFromFirstStart`. Gives
   `AuditCorrect`, `FrozenCorrect` and `ClaimsAreStartable`.

`TaskBoardRefinement` proves `Spec => Lifecycle!Spec`: each action maps to one
action of `TaskLifecycle` (`ClaimTask` to `Grant` with the set of lapsed claims,
`SeedRunning` to `SubmitGranted`, `CompleteStep` to `Report`, and so on) or to a
stutter. The phase of a task is its status; "no row yet" and "wiped" are told apart by
the id counter, the spent credentials are the tokens below `nextToken`.

`WorkersProofs`. A step of `Workers` is a `BoardStep` or leaves the board alone, so
`BoardInv` holds, the board still implements `TaskLifecycle` (`WorkersImplementLifecycle`) and
`WorkersKeepTheirTask`. `WorkersInv` adds what ties a process to the board:

- `Equipped` and `TokensApart`: the token a process has is its own and opens no other task.
- `Waits`: until it starts, its claim is as granted, unless the operator took it or the clock
  has been past its deadline, and the clock is past it only where `overdue` says so. Hence
  `PunctualityPays`, also where the clock was set back in between.
- `Executes`: while it executes, its step is the one under way, unless the operator took
  the task. Hence `OneExecutorAtATime`: two who execute cannot both hold the only token.
- `PaidFor(t, s)`: the executions of a step that there were, those under way and the one
  still to come (the step is pending) are at most one more than the manual requeues. It is
  inductive where the plain count is not: an execution is charged when it is made possible,
  so that a crash, a lost lease or a late report has nothing to add. Hence
  `ExecutionsArePaidFor`; that a log row is there only after an execution, with `Executes`,
  gives `LedgerFollowsTheWorld`.
- `RowsStay`: rows go only in a reset, hence `LoopsEndByResetOnly`.

`WorkerManagerProofs`. `ManagerInv` says who has the lock and what for (`LockHeld`), that
the numbers of this server's workers have been spent (`NumbersSpent`, hence `NamesAreUnique`), that a
stop has signalled all it has to wait for (`StopUnderWay`, hence `WipesComeAfterStops`), and
that a spawn which was let in still fits (`RoomKept`, hence `LimitIsKept`): room is only
given back while it holds the lock, by processes that die, never taken.

`DashboardSessionProofs`. On top of `BoardInv`, `SessionInv` follows tokens and answers:

- a token on its way to the tab is known to nobody else, and younger than every token the
  tab has or uses as long as the tab waits for it (`Apart`). So what an arriving token
  replaces in `sessionStorage` opens nothing. What the tab cannot keep is in `dropped`: the
  token of a demo whose answer finds nobody who waits, or that `sessionStorage` refuses, and the
  tokens of a tab that is closed. No other step makes a running task unreachable, hence
  `RunningTasksAreReachable`;
- the row agrees with the request (`UserAgrees`, `GrantAgrees`): if the token still opens the
  task, the task is as far as the request says. Hence `DemoKeepsItsTask`;
- `AnswersTell`: an "inserted" was the success the ledger has, and there are at least as
  many duplicates in the ledger as answers that say so. Hence `PassesAreTrue`, however the
  reports of an earlier verification that nobody waits for mix with those of this one;
- `OffersAreNew` and `Undisputed`: nothing lost, the button reports the step under way, and
  the first report that is served is the insertion and the rest are duplicates. Hence
  `AlarmsAreJust`.

`DashboardFeedProofs`. `FeedInv` says of an answer on its way that it has every row of the
table between its cursor and its newest row but for those it had no room for (`AnswerTells`),
and that the cursor is the newest row shown (`CursorShown`). While nobody has clicked retry,
one load is under way at a time (`OneAtATime`) and its cursor is still the panel's, unless
the panel was cleared (`UpToDate`). So merging its rows (`NewestFirst`) keeps the panel
sorted and without a gap: `LogbookStaysInOrder`, `GapsAreAnnounced`, `BoardIsMonotonic`. `ActionsAreShown`
needs none of this: the load an action asks for reads the board after it was asked for,
which is part of `LoadSound`, retry clicked or not.

`ParametersProofs` assumes only that the empty string is a value, that `Absent` is none
and that `NULL` is no object or sequence of objects (`ParametersAssumption`). The
documented rule is `Expected(g, k, i)`. Two lemmas say how it starts (`ExpectedAtStart`)
and how it moves from one step to the next (`ExpectedAtStep`); `LoopInv` says that between
any two iterations `effective` has, for keys already applied or not overridden, the
expected value of this step and for the others that of the step before. Hence
`ParametersAreResolved`; and since a later start takes the frozen group, what it stores
equals, value by value, what is stored already: `ResumeIsIdempotent`.

`ProofHarnessProofs` assumes finitely many children, at least one, and that `NULL` is neither
a child nor a verdict (`HarnessAssumption`); the service may do anything. `Placed` is the type
invariant and that a child is in a round exactly when its program counter says so.
`CallsAreOver` says that a call that won, or a message without an error, belongs to a round
the child has called in: since no step takes a child back (`NobodyGoesBack`), it calls at
most once a round, so that a message once sent stays true (`MessagesTell`: its `won` is what
the service did). When the verdict is "pass" every child has ended (`PassIsLast`): the
cleanup left no survivor and nobody died. So nothing moves after it, and what the parent
counted (`CompleteTells`: a message of every child for every round, none an error) is
exactly `wins`. Together they are `HarnessInv`; hence `PassCorrect`.

The other way round, `HealthyInv` is about a sound service on a machine that does its work
(`Healthy`: no fault, no timeout). No barrier is jammed, and they open one at a time (`BarriersTurn`), so no child
gets into a round before the parent (`InStep`) and every message read is of a round begun
(`OneMessageEach`). The parent takes as many messages a round as there are children
(`Counted`); since they are all different, when it cleans up they are exactly one of each
child and round (`AllThere`, by counting). Only then are the barriers broken, so a child
that complains had made its last call (`LateOnlyComplain`), and a parent without complaints
finds one winner in each round, the one in the table (`SoundTable`, `SoundPasses`). Hence
`FailuresAreExplained`.

**Only model-checked**: the liveness properties, `QueuedTasksAreStarted`,
`StartedTasksFinish`, `RequestsReturn`, `RowsReachTheTab` and `ProofEnds`. They rest on
fairness, whose `ENABLED` is beyond the prover, so they stay with TLC and the bounds of
section 3. The three disagreements of section 4 are counterexamples of TLC and need no more.

## 6. Not modelled

- `list_*`/`get_*` queries change nothing; where their result is used later (the ledger
  panel, the verification, the grant that is read after its commit) the reading is modelled.
- Request schemas, status codes, rendering, styles, logging and text are outside every
  property; so are the buttons that only pass a call on (requeue, workers, proofs).
- A database file from before the lease column (`db.py:140`) is not among the initial
  states: its claimed tasks have no deadline, and no claim takes them back.
- Edits of the worker id by hand between two clicks; `Reload` covers that it changes. A `getItem`
  that fails is a button that is not there. A tab that is duplicated gives its copy the same
  tokens, and either may then report what the other verifies: the session has one tab with its
  tokens, and `AlarmsHaveACause` is about that.
- Of the values of a parameter only the empty string is told apart (`Blank`), as in the code
  (`services.py:125`); 0, false, null and empty containers are among the others, unnamed.
- The proofs set `TASKBOARD_DB_PATH` for their children and restore it, one proof at a time
  (`_proof_lock`); the server has read it before and does not look again.

## 7. Plan

Of what is modelled the safety is proved. What could be added is an abstract specification
of its own for the worker manager and for the ledger panel, implemented by the modules as
`TaskBoard` implements `TaskLifecycle`; and the rendering of an unchanged board
(`app.js:874`), which the session leaves out.
