------------------------------ MODULE TaskBoard ------------------------------
(***************************************************************************)
(* The service layer of the task scheduling board (src/app/services.py)    *)
(* over its SQLite tables (src/app/db.py).                                 *)
(*                                                                         *)
(* Every public operation that writes opens its own connection, takes the  *)
(* database's only write lock with BEGIN IMMEDIATE, checks, writes and     *)
(* commits, or rolls everything back when it raises.  One committed        *)
(* transaction is therefore one action; a call that raises changes nothing *)
(* and is the stuttering step.  The callers are not modelled here: a       *)
(* request may carry any worker id and any token that was ever issued, so  *)
(* late, repeated and reordered requests are all among the behaviours.     *)
(*                                                                         *)
(* A table is a function from the ids that AUTOINCREMENT can hand out to   *)
(* rows; a row that is not there has the status "absent".                  *)
(***************************************************************************)
EXTENDS Integers, FiniteSets

CONSTANTS
  Workers,        \* worker_id strings
  DemoWorker,     \* the string "demo-worker" of seed_demo
  Overrides,      \* parameter dictionaries a group can carry (L2)
  EmptyOverride,  \* the dictionary {} used for a task without a group
  NULL,           \* SQL NULL
  Leases,         \* lease durations a claim can be given
  MaxGroup,       \* bound: groups ever created
  MaxTask,        \* bound: tasks ever created
  MaxStep,        \* bound: steps of a task
  MaxToken,       \* bound: claim tokens ever issued
  MaxClock,       \* bound: latest wall-clock reading
  MaxLockWait,    \* bound: how long BEGIN IMMEDIATE waits for the write lock
  MaxDuplicate    \* bound: duplicate reports recorded per task

ASSUME BoundsAssumption ==
  /\ MaxGroup \in Nat /\ MaxTask \in Nat /\ MaxToken \in Nat /\ MaxClock \in Nat
  /\ MaxStep \in Nat \ {0} /\ MaxLockWait \in Nat /\ MaxDuplicate \in Nat
  /\ Leases \subseteq Nat

ASSUME NullAssumption ==
  /\ NULL \notin Workers /\ NULL \notin Overrides /\ NULL \notin Nat
  /\ NULL \notin {"success", "failure"}
  /\ EmptyOverride \in Overrides

ASSUME DemoAssumption == DemoWorker \in Workers

VARIABLES
  clock,        \* the host's wall clock, which every process reads
  groups,       \* groups.override_parameters, NULL when there is no such row
  tasks,        \* the tasks table
  steps,        \* steps.status, "absent" beyond the task's last step
  logs,         \* execution_logs.success, NULL when there is no row
  audit,        \* operation_logs: how many rows of each event a task has
  resetLogged,  \* operation_logs holds the row a reset leaves behind
  nextGroup,    \* sqlite_sequence of groups
  nextTask,     \* sqlite_sequence of tasks
  nextToken     \* the next token secrets.token_urlsafe(32) returns

vars == <<clock, groups, tasks, steps, logs, audit, resetLogged,
          nextGroup, nextTask, nextToken>>

-----------------------------------------------------------------------------
(* The tables.  A definition named ...Fault is not part of the model: it   *)
(* is a mistake that could be made in the code the next definition models, *)
(* kept to see that the properties below notice it.                        *)

GroupId == 1..MaxGroup
TaskId  == 1..MaxTask
StepSeq == 1..MaxStep
Token   == 1..MaxToken

TaskStatus == {"pending", "claimed", "running", "done", "failed"}
StepStatus == {"pending", "running", "done", "failed"}
Outcome    == {"success", "failure"}
(* "task_created_held" is the task_created row that names demo-worker.     *)
Event      == {"task_created", "task_created_held", "claim", "lease_reclaim", "start",
               "step_report", "duplicate_report", "duplicate_conflict", "manual_requeue"}

TaskRow == [status           : TaskStatus \cup {"absent"},
            claimed_by       : Workers \cup {NULL},
            claim_token      : Token \cup {NULL},
            lease_expires_at : Nat \cup {NULL},
            group_id         : GroupId \cup {NULL},
            snapshot         : Overrides \cup {NULL},
            created_at       : Nat]

NoTask == [status |-> "absent", claimed_by |-> NULL, claim_token |-> NULL,
           lease_expires_at |-> NULL, group_id |-> NULL, snapshot |-> NULL,
           created_at |-> 0]

NoSteps == [s \in StepSeq |-> "absent"]
NoLogs  == [s \in StepSeq |-> NULL]
NoAudit == [e \in Event |-> 0]

Exists(t) == tasks[t].status # "absent"

(* _record_operation: one row appended inside the caller's transaction.    *)
RecordOperation(rows, t, event) == [rows EXCEPT ![t][event] = @ + 1]

-----------------------------------------------------------------------------
(* Groups and task creation.                                               *)

CreateGroup(params) ==
  /\ nextGroup <= MaxGroup
  /\ groups' = [groups EXCEPT ![nextGroup] = params]
  /\ nextGroup' = nextGroup + 1
  /\ UNCHANGED <<clock, tasks, steps, logs, audit, resetLogged, nextTask, nextToken>>

UpdateGroup(g, params) ==
  /\ groups[g] # NULL
  /\ groups' = [groups EXCEPT ![g] = params]
  /\ UNCHANGED <<clock, tasks, steps, logs, audit, resetLogged, nextGroup, nextTask, nextToken>>

(* A task may name no group, or one that exists.                           *)
GroupKnownFault(g) == TRUE
GroupKnown(g) == g # NULL => groups[g] # NULL

(* A task is born pending, with n pending steps and no snapshot.           *)
Born(g) == [NoTask EXCEPT !.status = "pending", !.group_id = g, !.created_at = clock]

BornSteps(n) == [s \in StepSeq |-> IF s <= n THEN "pending" ELSE "absent"]

CreateTask(g, n) ==
  /\ nextTask <= MaxTask
  /\ GroupKnown(g)
  /\ tasks' = [tasks EXCEPT ![nextTask] = Born(g)]
  /\ steps' = [steps EXCEPT ![nextTask] = BornSteps(n)]
  /\ audit' = RecordOperation(audit, nextTask, "task_created")
  /\ nextTask' = nextTask + 1
  /\ UNCHANGED <<clock, groups, logs, resetLogged, nextGroup, nextToken>>

-----------------------------------------------------------------------------
(* Claiming.                                                               *)

(* The deadline a claim brings along: the clock as it was before the call  *)
(* waited for the write lock, plus the lease duration.                     *)
LeaseExpiryFault(lease, wait) == clock - wait - lease
LeaseExpiry(lease, wait) == clock - wait + lease

(* The credential columns are cleared whenever a task returns to the queue.*)
ReleasedFault(row) == [row EXCEPT !.status = "pending", !.claim_token = NULL,
                                  !.lease_expires_at = NULL]
Released(row) == [row EXCEPT !.status = "pending", !.claimed_by = NULL,
                             !.claim_token = NULL, !.lease_expires_at = NULL]

(* A claim is taken back only while it has not been started.               *)
ExpiredFault(t) ==
  /\ tasks[t].status \in {"claimed", "running"}
  /\ tasks[t].lease_expires_at = NULL \/ tasks[t].lease_expires_at < clock
ExpiredWhileRunningFault(t) ==
  /\ tasks[t].status = "running"
  /\ tasks[t].lease_expires_at # NULL
  /\ tasks[t].lease_expires_at < clock
ExpiredEarlyFault(t) ==
  /\ tasks[t].status = "claimed"
  /\ tasks[t].lease_expires_at # NULL
  /\ tasks[t].lease_expires_at <= clock
Expired(t) ==
  /\ tasks[t].status = "claimed"
  /\ tasks[t].lease_expires_at # NULL
  /\ tasks[t].lease_expires_at < clock

ReclaimExpiredLeases ==
  [t \in TaskId |-> IF Expired(t) THEN Released(tasks[t]) ELSE tasks[t]]

ReclaimAuditFault == audit
ReclaimAudit ==
  [t \in TaskId |-> IF Expired(t)
                    THEN [audit[t] EXCEPT !["lease_reclaim"] = @ + 1]
                    ELSE audit[t]]

(* ORDER BY created_at, id.                                                *)
Before(t, u) ==
  \/ tasks[t].created_at < tasks[u].created_at
  \/ tasks[t].created_at = tasks[u].created_at /\ t < u

Unclaimed(row) ==
  row.status = "pending" /\ row.claimed_by = NULL /\ row.claim_token = NULL

(* The row of a task that is claimed with the next token.                  *)
ClaimedSharedTokenFault(row, w, expiry) ==
  [row EXCEPT !.status = "claimed", !.claimed_by = w, !.claim_token = 1,
              !.lease_expires_at = expiry]
ClaimedStaleTokenFault(row, w, expiry) ==
  [row EXCEPT !.status = "claimed", !.claimed_by = w,
              !.claim_token = IF nextToken = 1 THEN 1 ELSE nextToken - 1,
              !.lease_expires_at = expiry]
Claimed(row, w, expiry) ==
  [row EXCEPT !.status = "claimed", !.claimed_by = w, !.claim_token = nextToken,
              !.lease_expires_at = expiry]

(* seed_demo: one task is inserted already claimed, by demo-worker and for  *)
(* the default lease; its other transactions are a CreateGroup, a          *)
(* CreateTask and the StartTask of this one.                               *)
SeedQueuedFault(g, n, lease) ==
  /\ nextTask <= MaxTask /\ nextToken <= MaxToken
  /\ groups[g] # NULL
  /\ tasks' = [tasks EXCEPT ![nextTask] = Born(g)]
  /\ steps' = [steps EXCEPT ![nextTask] = BornSteps(n)]
  /\ audit' = RecordOperation(audit, nextTask, "task_created")
  /\ nextTask' = nextTask + 1
  /\ UNCHANGED <<clock, groups, logs, resetLogged, nextGroup, nextToken>>
SeedRunning(g, n, lease) ==
  /\ nextTask <= MaxTask /\ nextToken <= MaxToken
  /\ groups[g] # NULL
  /\ tasks' = [tasks EXCEPT ![nextTask] =
                 Claimed(Born(g), DemoWorker, LeaseExpiry(lease, 0))]
  /\ steps' = [steps EXCEPT ![nextTask] = BornSteps(n)]
  /\ audit' = RecordOperation(audit, nextTask, "task_created_held")
  /\ nextTask' = nextTask + 1 /\ nextToken' = nextToken + 1
  /\ UNCHANGED <<clock, groups, logs, resetLogged, nextGroup>>

(* claim_next_task: reclaim, pick the oldest unclaimed task, issue a token. *)
(* The lease deadline was computed before the write lock was requested.    *)
ClaimTask(w, expiry, t) ==
  LET table == ReclaimExpiredLeases
  IN  /\ nextToken <= MaxToken
      /\ Unclaimed(table[t])
      /\ \A u \in TaskId \ {t} : Unclaimed(table[u]) => Before(t, u)
      /\ tasks' = [table EXCEPT ![t] = Claimed(@, w, expiry)]
      /\ nextToken' = nextToken + 1
      /\ audit' = RecordOperation(ReclaimAudit, t, "claim")
      /\ UNCHANGED <<clock, groups, steps, logs, resetLogged, nextGroup, nextTask>>

(* Nothing to hand out: the transaction commits what it reclaimed.         *)
ClaimNothing ==
  /\ \A t \in TaskId : ~Unclaimed(ReclaimExpiredLeases[t])
  /\ tasks' = ReclaimExpiredLeases
  /\ audit' = ReclaimAudit
  /\ UNCHANGED <<clock, groups, steps, logs, resetLogged, nextGroup, nextTask, nextToken>>

ClaimNextTask(w, expiry) ==
  \/ \E t \in TaskId : ClaimTask(w, expiry, t)
  \/ ClaimNothing

-----------------------------------------------------------------------------
(* Starting.                                                               *)

(* start_task and complete_step accept only the current holder.            *)
CredentialsMatchFault(t, w, token) == Exists(t) /\ tasks[t].claimed_by = w
CredentialsMatch(t, w, token) ==
  Exists(t) /\ tasks[t].claimed_by = w /\ tasks[t].claim_token = token

(* The L2 override: the stored snapshot if there is one, else the group's  *)
(* present value.                                                          *)
GroupParametersFault(t) ==
  IF tasks[t].group_id = NULL THEN EmptyOverride ELSE groups[tasks[t].group_id]
GroupParameters(t) ==
  IF tasks[t].snapshot # NULL THEN tasks[t].snapshot
  ELSE IF tasks[t].group_id = NULL THEN EmptyOverride
  ELSE groups[tasks[t].group_id]

IsFirst(s, S) == s \in S /\ \A q \in S : s <= q

PendingSteps(t) == {s \in StepSeq : steps[t][s] = "pending"}

(* The row of a task that is started with these parameters: the deadline   *)
(* was for starting only.                                                  *)
StartedFault(row, params) ==
  [row EXCEPT !.status = "running", !.lease_expires_at = NULL]
Started(row, params) ==
  [row EXCEPT !.status = "running", !.snapshot = params, !.lease_expires_at = NULL]

StartTask(t, w, token) ==
  /\ CredentialsMatch(t, w, token)
  /\ tasks[t].status = "claimed"
  /\ GroupParameters(t) # NULL
  /\ \E s \in StepSeq :
       /\ IsFirst(s, PendingSteps(t))
       /\ steps' = [steps EXCEPT ![t][s] = "running"]
  /\ tasks' = [tasks EXCEPT ![t] = Started(@, GroupParameters(t))]
  /\ audit' = RecordOperation(audit, t, "start")
  /\ UNCHANGED <<clock, groups, logs, resetLogged, nextGroup, nextTask, nextToken>>

(* The holder repeats start: the running task is returned as it is.        *)
RetryStart(t, w, token) ==
  /\ CredentialsMatch(t, w, token)
  /\ tasks[t].status = "running"
  /\ UNCHANGED vars

-----------------------------------------------------------------------------
(* Reporting a step.                                                       *)

LaterStepsFault(t, s) == {q \in StepSeq : q >= s /\ steps[t][q] # "absent"}
LaterSteps(t, s) == {q \in StepSeq : q > s /\ steps[t][q] # "absent"}

(* The step statuses after step s of task t has its first report.          *)
StepsFailedAsDoneFault(t, s, outcome) ==
  [q \in StepSeq |-> IF q = s THEN "done"
                     ELSE IF outcome = "success" /\ IsFirst(q, LaterSteps(t, s))
                          THEN "running" ELSE steps[t][q]]
StepsGoOnFault(t, s, outcome) ==
  [q \in StepSeq |-> IF q = s THEN (IF outcome = "success" THEN "done" ELSE "failed")
                     ELSE IF IsFirst(q, LaterSteps(t, s)) THEN "running"
                          ELSE steps[t][q]]
StepsAfterReport(t, s, outcome) ==
  [q \in StepSeq |->
     IF q = s THEN (IF outcome = "success" THEN "done" ELSE "failed")
     ELSE IF outcome = "success" /\ IsFirst(q, LaterSteps(t, s)) /\ steps[t][q] = "pending"
          THEN "running"
          ELSE steps[t][q]]

(* The task row after it: failed, done after the last step, or unchanged.  *)
TaskAfterReportFault(t, s, outcome) ==
  IF outcome = "failure"
  THEN [tasks[t] EXCEPT !.status = "failed", !.lease_expires_at = NULL]
  ELSE tasks[t]
TaskAfterReport(t, s, outcome) ==
  IF outcome = "failure"
  THEN [tasks[t] EXCEPT !.status = "failed", !.lease_expires_at = NULL]
  ELSE IF LaterSteps(t, s) = {}
  THEN [tasks[t] EXCEPT !.status = "done", !.lease_expires_at = NULL]
  ELSE tasks[t]

(* complete_step, first report: the inserted log row drives the rest.      *)
CompleteStep(t, s, w, token, outcome) ==
  /\ CredentialsMatch(t, w, token)
  /\ logs[t][s] = NULL
  /\ tasks[t].status = "running" /\ steps[t][s] = "running"
  /\ logs' = [logs EXCEPT ![t][s] = outcome]
  /\ steps' = [steps EXCEPT ![t] = StepsAfterReport(t, s, outcome)]
  /\ tasks' = [tasks EXCEPT ![t] = TaskAfterReport(t, s, outcome)]
  /\ audit' = RecordOperation(audit, t, "step_report")
  /\ UNCHANGED <<clock, groups, resetLogged, nextGroup, nextTask, nextToken>>

(* complete_step, the step already has its row: only the ledger notes it.  *)
DuplicateReportFault(t, s, w, token, outcome) ==
  /\ CredentialsMatch(t, w, token)
  /\ logs[t][s] # NULL /\ logs[t][s] # outcome
  /\ logs' = [logs EXCEPT ![t][s] = outcome]
  /\ UNCHANGED <<clock, groups, tasks, steps, audit, resetLogged, nextGroup, nextTask, nextToken>>
DuplicateReport(t, s, w, token, outcome) ==
  /\ CredentialsMatch(t, w, token)
  /\ logs[t][s] # NULL
  /\ audit[t]["duplicate_report"] + audit[t]["duplicate_conflict"] < MaxDuplicate
  /\ audit' = RecordOperation(audit, t, IF logs[t][s] = outcome
                                        THEN "duplicate_report"
                                        ELSE "duplicate_conflict")
  /\ UNCHANGED <<clock, groups, tasks, steps, logs, resetLogged, nextGroup, nextTask, nextToken>>

-----------------------------------------------------------------------------
(* The operator.                                                           *)

RequeueableFault == {"claimed", "running", "failed"}
Requeueable == {"claimed", "running"}

(* The step that was under way is to be done again.                        *)
RewoundFault(t) == steps[t]
Rewound(t) ==
  [s \in StepSeq |-> IF steps[t][s] = "running" THEN "pending" ELSE steps[t][s]]

RequeueTask(t) ==
  /\ tasks[t].status \in Requeueable
  /\ steps' = [steps EXCEPT ![t] = Rewound(t)]
  /\ tasks' = [tasks EXCEPT ![t] = Released(@)]
  /\ audit' = RecordOperation(audit, t, "manual_requeue")
  /\ UNCHANGED <<clock, groups, logs, resetLogged, nextGroup, nextTask, nextToken>>

(* reset_all deletes every row of every table; sqlite_sequence survives,   *)
(* so no id is handed out twice.                                           *)
ResetAll ==
  /\ logs'   = [t \in TaskId |-> NoLogs]
  /\ steps'  = [t \in TaskId |-> NoSteps]
  /\ tasks'  = [t \in TaskId |-> NoTask]
  /\ groups' = [g \in GroupId |-> NULL]
  /\ audit'  = [t \in TaskId |-> NoAudit]
  /\ resetLogged' = TRUE
  /\ UNCHANGED <<clock, nextGroup, nextTask, nextToken>>

-----------------------------------------------------------------------------
(* The wall clock advances, and may be set back.                           *)

Tick ==
  /\ clock < MaxClock
  /\ clock' = clock + 1
  /\ UNCHANGED <<groups, tasks, steps, logs, audit, resetLogged, nextGroup, nextTask, nextToken>>

ClockSetBack ==
  /\ clock' \in {c \in 0..MaxClock : c < clock}
  /\ UNCHANGED <<groups, tasks, steps, logs, audit, resetLogged, nextGroup, nextTask, nextToken>>

-----------------------------------------------------------------------------
(* initialize_database on a new file: empty tables.                        *)
Init ==
  /\ clock = 0
  /\ groups = [g \in GroupId |-> NULL]
  /\ tasks = [t \in TaskId |-> NoTask]
  /\ steps = [t \in TaskId |-> NoSteps]
  /\ logs = [t \in TaskId |-> NoLogs]
  /\ audit = [t \in TaskId |-> NoAudit]
  /\ resetLogged = FALSE
  /\ nextGroup = 1 /\ nextTask = 1 /\ nextToken = 1

Claiming ==
  \E w \in Workers, lease \in Leases, wait \in 0..MaxLockWait :
    wait <= clock /\ ClaimNextTask(w, LeaseExpiry(lease, wait))

HolderRequest(t, w, token) ==
  \/ StartTask(t, w, token)
  \/ RetryStart(t, w, token)
  \/ \E s \in StepSeq, outcome \in Outcome :
       CompleteStep(t, s, w, token, outcome) \/ DuplicateReport(t, s, w, token, outcome)

Next ==
  \/ \E params \in Overrides :
       CreateGroup(params) \/ \E g \in GroupId : UpdateGroup(g, params)
  \/ \E g \in GroupId \cup {NULL}, n \in StepSeq : CreateTask(g, n)
  \/ \E g \in GroupId, n \in StepSeq, lease \in Leases : SeedRunning(g, n, lease)
  \/ Claiming
  \/ \E t \in TaskId, w \in Workers, token \in Token : HolderRequest(t, w, token)
  \/ \E t \in TaskId : RequeueTask(t)
  \/ ResetAll
  \/ Tick
  \/ ClockSetBack

Spec == Init /\ [][Next]_vars

-----------------------------------------------------------------------------
(* Invariants.                                                             *)

(* Every table holds rows the schema of db.py admits.                      *)
TypeOK ==
  /\ clock \in 0..MaxClock
  /\ groups \in [GroupId -> Overrides \cup {NULL}]
  /\ tasks \in [TaskId -> TaskRow]
  /\ steps \in [TaskId -> [StepSeq -> StepStatus \cup {"absent"}]]
  /\ logs \in [TaskId -> [StepSeq -> Outcome \cup {NULL}]]
  /\ audit \in [TaskId -> [Event -> Nat]]
  /\ resetLogged \in BOOLEAN
  /\ nextGroup \in 1..MaxGroup + 1
  /\ nextTask \in 1..MaxTask + 1
  /\ nextToken \in 1..MaxToken + 1

(* The steps of a task run strictly in order and its row says where it is: *)
(* a step leaves "pending" only when every earlier one is done, a running  *)
(* task has its current step running, a failed one the step that failed, a *)
(* done one nothing left, and a queued or claimed one, requeued in         *)
(* mid-flight or not, has a pending step to resume from.                   *)
StepsInOrder(t) ==
  \A s, q \in StepSeq : s < q =>
    /\ steps[t][q] \in {"running", "done", "failed"} => steps[t][s] = "done"
    /\ steps[t][q] # "absent" => steps[t][s] # "absent"

SomeStep(t, status) == \E s \in StepSeq : steps[t][s] = status

StepsFollow(t) ==
  /\ StepsInOrder(t)
  /\ SomeStep(t, "running") <=> tasks[t].status = "running"
  /\ SomeStep(t, "failed") <=> tasks[t].status = "failed"
  /\ tasks[t].status \in {"pending", "claimed"} => SomeStep(t, "pending")
  /\ tasks[t].status = "done" => SomeStep(t, "done") /\ ~SomeStep(t, "pending")
  /\ ~Exists(t) => steps[t] = NoSteps

StepsFollowTask == \A t \in TaskId : StepsFollow(t)

(* The execution log is the ledger of the steps: a step has a row exactly  *)
(* when it is done or failed, and the row says which, through requeues,    *)
(* repeated and contradictory reports.                                     *)
LedgerAgrees ==
  \A t \in TaskId, s \in StepSeq :
    /\ logs[t][s] = "success" <=> steps[t][s] = "done"
    /\ logs[t][s] = "failure" <=> steps[t][s] = "failed"

(* A credential opens one task at most: tokens on two rows differ, and none *)
(* of them is one the generator has still to return.                       *)
TokensUnique ==
  \A t \in TaskId : tasks[t].claim_token # NULL =>
    /\ tasks[t].claim_token < nextToken
    /\ \A u \in TaskId : tasks[u].claim_token = tasks[t].claim_token => u = t

(* The credential columns agree with the status: nobody holds a queued     *)
(* task, a claimed one has holder, token and deadline, and a task that has *)
(* been started keeps its holder but no deadline that could take it away.  *)
ColumnsAgree(row) ==
  /\ row.claimed_by = NULL <=> row.claim_token = NULL
  /\ row.claim_token = NULL <=> row.status \in {"absent", "pending"}
  /\ row.lease_expires_at # NULL <=> row.status = "claimed"

ClaimColumnsAgree == \A t \in TaskId : ColumnsAgree(tasks[t])

(* Whoever claims a task can start it: the group it refers to is still     *)
(* there and it has a pending step, so the two ConflictErrors of start_task *)
(* past the status check are never raised.                                 *)
ClaimedIsStartable ==
  \A t \in TaskId : tasks[t].status = "claimed" =>
    GroupParameters(t) # NULL /\ PendingSteps(t) # {}

(* The L2 override is frozen at the first start and not before.            *)
FrozenFromFirstStart ==
  \A t \in TaskId :
    /\ tasks[t].snapshot # NULL <=> audit[t]["start"] > 0
    /\ tasks[t].status \in {"running", "done", "failed"} => tasks[t].snapshot # NULL

Held(t) == IF tasks[t].claim_token # NULL THEN 1 ELSE 0

Unstarted(t) == IF tasks[t].status = "claimed" THEN 1 ELSE 0

Grants(t) == audit[t]["claim"] + audit[t]["task_created_held"]

(* The operations ledger balances against the tables: every claim, the one *)
(* a demo task is born with included, is still held, was reclaimed or was  *)
(* requeued by hand; a reclaimed claim was never started; every accepted   *)
(* report has its row in the execution log.                                *)
AuditBalances ==
  \A t \in TaskId :
    /\ Grants(t) = audit[t]["lease_reclaim"] + audit[t]["manual_requeue"] + Held(t)
    /\ audit[t]["start"] + audit[t]["lease_reclaim"] + Unstarted(t) <= Grants(t)
    /\ audit[t]["step_report"] = Cardinality({s \in StepSeq : logs[t][s] # NULL})

-----------------------------------------------------------------------------
(* Action properties.  A reset is told from other steps by its effect: the *)
(* row is gone.                                                            *)

Survives(t) == Exists(t) /\ tasks'[t].status # "absent"

(* A holder loses its task only to the operator, or before it has started  *)
(* and after its deadline: no claim, report or start of anybody else takes *)
(* a running, done or failed task or one whose lease is alive.             *)
HoldersKeepTheirTask ==
  [][\A t \in TaskId :
       Survives(t) /\ tasks[t].claim_token # NULL
                  /\ tasks'[t].claim_token # tasks[t].claim_token
       => \/ audit'[t]["manual_requeue"] > audit[t]["manual_requeue"]
          \/ /\ tasks[t].status = "claimed" /\ tasks[t].lease_expires_at < clock
             /\ audit'[t]["lease_reclaim"] > audit[t]["lease_reclaim"]]_vars

(* A credential that was taken away is dead for good: the token a row gets *)
(* is one that no row ever had.                                            *)
CredentialsNeverReturn ==
  [][\A t \in TaskId :
       tasks'[t].claim_token \notin {NULL, tasks[t].claim_token}
       => tasks'[t].claim_token >= nextToken /\ tasks'[t].claim_token < nextToken']_vars

(* The L2 snapshot, once taken, outlives every edit of the group, every    *)
(* requeue and every later start.                                          *)
SnapshotFrozen ==
  [][\A t \in TaskId :
       Survives(t) /\ tasks[t].snapshot # NULL => tasks'[t].snapshot = tasks[t].snapshot]_vars

(* First write wins: what a step was first reported as is never rewritten, *)
(* and no step that has a report is executed again.                        *)
FirstWriteWins ==
  [][\A t \in TaskId, s \in StepSeq :
       Survives(t) /\ logs[t][s] # NULL
       => logs'[t][s] = logs[t][s] /\ steps'[t][s] = steps[t][s]]_vars

(* Done and failed are final.                                              *)
TerminalIsFinal ==
  [][\A t \in TaskId :
       Survives(t) /\ tasks[t].status \in {"done", "failed"}
       => tasks'[t] = tasks[t] /\ steps'[t] = steps[t]]_vars

-----------------------------------------------------------------------------
(* The board implements TaskLifecycle.                                     *)

PhaseName == [absent |-> "gone", pending |-> "queued", claimed |-> "held",
              running |-> "executing", done |-> "succeeded", failed |-> "failed"]

Phase(t) == IF t >= nextTask THEN "none" ELSE PhaseName[tasks[t].status]

PhaseNow      == [t \in TaskId |-> Phase(t)]
CredentialNow == [t \in TaskId |-> tasks[t].claim_token]
PlanNow       == [t \in TaskId |-> {s \in StepSeq : steps[t][s] # "absent"}]
ParamsNow     == [t \in TaskId |-> tasks[t].snapshot]
SpentNow      == 1..nextToken - 1

Lifecycle == INSTANCE TaskLifecycle WITH
  Task <- TaskId, StepNumber <- StepSeq, Credential <- Token,
  Parameters <- Overrides, None <- NULL,
  phase <- PhaseNow, credential <- CredentialNow, plan <- PlanNow,
  report <- logs, params <- ParamsNow, spent <- SpentNow

(* Workers, leases, clocks, groups, step statuses and audit rows add no    *)
(* behaviour to what the board promises of a task.                         *)
ImplementsLifecycle == Lifecycle!Spec
=============================================================================
