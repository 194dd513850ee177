--------------------------- MODULE TaskBoardProofs ---------------------------
(***************************************************************************)
(* TaskBoard proved for every set of workers and overrides, every lease    *)
(* and every bound: its invariants, its action properties and that it      *)
(* implements TaskLifecycle.                                               *)
(***************************************************************************)
EXTENDS TaskBoard, FiniteSetTheorems, TLAPS

-----------------------------------------------------------------------------
(* Type correctness.                                                       *)

(* Rows made from rows are rows.                                           *)
LEMMA ReleasedType ==
  ASSUME NEW row \in TaskRow
  PROVE  Released(row) \in TaskRow
BY DEF Released, TaskRow, TaskStatus

LEMMA ClaimedType ==
  ASSUME NEW row \in TaskRow, NEW w \in Workers, NEW expiry \in Nat,
         nextToken \in Token
  PROVE  Claimed(row, w, expiry) \in TaskRow
BY DEF Claimed, TaskRow, TaskStatus

LEMMA StartedType ==
  ASSUME NEW row \in TaskRow, NEW params \in Overrides
  PROVE  Started(row, params) \in TaskRow
BY DEF Started, TaskRow, TaskStatus

LEMMA ReclaimType ==
  ASSUME TypeOK
  PROVE  /\ ReclaimExpiredLeases \in [TaskId -> TaskRow]
         /\ ReclaimAudit \in [TaskId -> [Event -> Nat]]
<1>1. \A t \in TaskId : tasks[t] \in TaskRow /\ Released(tasks[t]) \in TaskRow
  BY ReleasedType DEF TypeOK
<1>2. ReclaimExpiredLeases \in [TaskId -> TaskRow]
  BY <1>1 DEF ReclaimExpiredLeases
<1>3. \A t \in TaskId : audit[t] \in [Event -> Nat]
  BY DEF TypeOK
<1>4. \A t \in TaskId : [audit[t] EXCEPT !["lease_reclaim"] = @ + 1] \in [Event -> Nat]
  BY <1>3 DEF Event
<1>5. ReclaimAudit \in [TaskId -> [Event -> Nat]]
  BY <1>3, <1>4 DEF ReclaimAudit
<1> QED
  BY <1>2, <1>5

LEMMA RecordType ==
  ASSUME NEW rows \in [TaskId -> [Event -> Nat]], NEW t \in TaskId, NEW event \in Event
  PROVE  RecordOperation(rows, t, event) \in [TaskId -> [Event -> Nat]]
<1>1. rows[t] \in [Event -> Nat]
  OBVIOUS
<1>2. rows[t][event] + 1 \in Nat
  BY <1>1
<1>3. [rows[t] EXCEPT ![event] = rows[t][event] + 1] \in [Event -> Nat]
  BY <1>1, <1>2
<1> QED
  BY <1>3 DEF RecordOperation

LEMMA GroupParametersType ==
  ASSUME TypeOK, NEW t \in TaskId
  PROVE  GroupParameters(t) \in Overrides \cup {NULL}
<1>1. /\ tasks[t].snapshot \in Overrides \cup {NULL}
      /\ tasks[t].group_id \in GroupId \cup {NULL}
  BY DEF TypeOK, TaskRow
<1>2. groups \in [GroupId -> Overrides \cup {NULL}]
  BY DEF TypeOK
<1> QED
  BY <1>1, <1>2, NullAssumption DEF GroupParameters

THEOREM InitType == Init => TypeOK
<1> SUFFICES ASSUME Init PROVE TypeOK
  OBVIOUS
<1>1. NoTask \in TaskRow
  BY DEF NoTask, TaskRow
<1>2. tasks \in [TaskId -> TaskRow]
  BY <1>1 DEF Init
<1>3. /\ steps \in [TaskId -> [StepSeq -> StepStatus \cup {"absent"}]]
      /\ logs \in [TaskId -> [StepSeq -> Outcome \cup {NULL}]]
      /\ audit \in [TaskId -> [Event -> Nat]]
  BY DEF Init, NoSteps, NoLogs, NoAudit
<1>4. /\ clock \in 0..MaxClock
      /\ nextGroup \in 1..MaxGroup + 1
      /\ nextTask \in 1..MaxTask + 1
      /\ nextToken \in 1..MaxToken + 1
  BY BoundsAssumption DEF Init
<1>5. groups \in [GroupId -> Overrides \cup {NULL}]
  BY DEF Init
<1>6. resetLogged \in BOOLEAN
  BY DEF Init
<1> QED
  BY <1>2, <1>3, <1>4, <1>5, <1>6 DEF TypeOK

(* Each operation keeps it.                                                *)
LEMMA CreateGroupType ==
  ASSUME TypeOK, NEW params \in Overrides, CreateGroup(params)
  PROVE  TypeOK'
<1>1. nextGroup \in GroupId /\ nextGroup' \in 1..MaxGroup + 1
  BY BoundsAssumption DEF TypeOK, CreateGroup, GroupId
<1>2. groups' \in [GroupId -> Overrides \cup {NULL}]
  BY <1>1 DEF TypeOK, CreateGroup
<1> QED
  BY <1>1, <1>2 DEF TypeOK, CreateGroup

LEMMA UpdateGroupType ==
  ASSUME TypeOK, NEW g \in GroupId, NEW params \in Overrides, UpdateGroup(g, params)
  PROVE  TypeOK'
<1>1. groups' \in [GroupId -> Overrides \cup {NULL}]
  BY DEF TypeOK, UpdateGroup
<1> QED
  BY <1>1 DEF TypeOK, UpdateGroup

LEMMA BornType ==
  ASSUME TypeOK, NEW g \in GroupId \cup {NULL}
  PROVE  Born(g) \in TaskRow
<1>1. clock \in Nat
  BY BoundsAssumption DEF TypeOK
<1> QED
  BY <1>1 DEF Born, NoTask, TaskRow, TaskStatus

LEMMA CreateTaskType ==
  ASSUME TypeOK, NEW g \in GroupId \cup {NULL}, NEW n \in StepSeq, CreateTask(g, n)
  PROVE  TypeOK'
<1>1. nextTask \in TaskId /\ nextTask' \in 1..MaxTask + 1
  BY BoundsAssumption DEF TypeOK, CreateTask, TaskId
<1>2. tasks' \in [TaskId -> TaskRow]
  BY <1>1, BornType DEF TypeOK, CreateTask
<1>3. steps' \in [TaskId -> [StepSeq -> StepStatus \cup {"absent"}]]
  BY <1>1 DEF TypeOK, CreateTask, BornSteps, StepStatus
<1>4. audit' \in [TaskId -> [Event -> Nat]]
  BY <1>1, RecordType DEF TypeOK, CreateTask, Event
<1> QED
  BY <1>1, <1>2, <1>3, <1>4 DEF TypeOK, CreateTask

(* A claim's deadline is a clock reading.                                  *)
LEMMA LeaseExpiryType ==
  ASSUME TypeOK, NEW lease \in Leases, NEW wait \in 0..MaxLockWait, wait <= clock
  PROVE  LeaseExpiry(lease, wait) \in Nat
BY BoundsAssumption DEF TypeOK, LeaseExpiry

LEMMA SeedExpiryType ==
  ASSUME TypeOK, NEW lease \in Leases
  PROVE  LeaseExpiry(lease, 0) \in Nat
BY BoundsAssumption DEF TypeOK, LeaseExpiry

LEMMA SeedRunningType ==
  ASSUME TypeOK, NEW g \in GroupId, NEW n \in StepSeq, NEW lease \in Leases,
         SeedRunning(g, n, lease)
  PROVE  TypeOK'
<1>1. /\ nextTask \in TaskId /\ nextTask' \in 1..MaxTask + 1
      /\ nextToken \in Token /\ nextToken' \in 1..MaxToken + 1
  BY BoundsAssumption DEF TypeOK, SeedRunning, TaskId, Token
<1>2. Claimed(Born(g), DemoWorker, LeaseExpiry(lease, 0)) \in TaskRow
  BY <1>1, BornType, SeedExpiryType, DemoAssumption, ClaimedType
<1>3. tasks' \in [TaskId -> TaskRow]
  BY <1>1, <1>2 DEF TypeOK, SeedRunning
<1>4. steps' \in [TaskId -> [StepSeq -> StepStatus \cup {"absent"}]]
  BY <1>1 DEF TypeOK, SeedRunning, BornSteps, StepStatus
<1>5. audit' \in [TaskId -> [Event -> Nat]]
  BY <1>1, RecordType DEF TypeOK, SeedRunning, Event
<1> QED
  BY <1>1, <1>3, <1>4, <1>5 DEF TypeOK, SeedRunning

LEMMA ClaimNextTaskType ==
  ASSUME TypeOK, NEW w \in Workers, NEW expiry \in Nat, ClaimNextTask(w, expiry)
  PROVE  TypeOK'
<1>1. CASE ClaimNothing
  BY <1>1, ReclaimType DEF TypeOK, ClaimNothing
<1>2. ASSUME NEW t \in TaskId, ClaimTask(w, expiry, t)
      PROVE  TypeOK'
  <2>1. nextToken \in Token /\ nextToken' \in 1..MaxToken + 1
    BY <1>2, BoundsAssumption DEF TypeOK, ClaimTask, Token
  <2>2. ReclaimExpiredLeases \in [TaskId -> TaskRow]
    BY ReclaimType
  <2>3. Claimed(ReclaimExpiredLeases[t], w, expiry) \in TaskRow
    BY <2>1, <2>2, ClaimedType
  <2>4. tasks' \in [TaskId -> TaskRow]
    BY <1>2, <2>2, <2>3 DEF ClaimTask
  <2>5. audit' \in [TaskId -> [Event -> Nat]]
    BY <1>2, ReclaimType, RecordType DEF ClaimTask, Event
  <2> QED
    BY <1>2, <2>1, <2>4, <2>5 DEF TypeOK, ClaimTask
<1> QED
  BY <1>1, <1>2 DEF ClaimNextTask

LEMMA StartTaskType ==
  ASSUME TypeOK, NEW t \in TaskId, NEW w \in Workers, NEW token \in Token,
         StartTask(t, w, token)
  PROVE  TypeOK'
<1>1. GroupParameters(t) \in Overrides
  BY GroupParametersType DEF StartTask
<1>2. Started(tasks[t], GroupParameters(t)) \in TaskRow
  BY <1>1, StartedType DEF TypeOK
<1>3. tasks' \in [TaskId -> TaskRow]
  BY <1>2 DEF TypeOK, StartTask
<1>4. steps' \in [TaskId -> [StepSeq -> StepStatus \cup {"absent"}]]
  <2>1. PICK s \in StepSeq : steps' = [steps EXCEPT ![t][s] = "running"]
    BY DEF StartTask
  <2> QED
    BY <2>1 DEF TypeOK, StepStatus
<1>5. audit' \in [TaskId -> [Event -> Nat]]
  BY RecordType DEF TypeOK, StartTask, Event
<1> QED
  BY <1>3, <1>4, <1>5 DEF TypeOK, StartTask

LEMMA CompleteStepType ==
  ASSUME TypeOK, NEW t \in TaskId, NEW s \in StepSeq, NEW w \in Workers,
         NEW token \in Token, NEW outcome \in Outcome,
         CompleteStep(t, s, w, token, outcome)
  PROVE  TypeOK'
<1>1. TaskAfterReport(t, s, outcome) \in TaskRow
  BY DEF TypeOK, TaskAfterReport, TaskRow, TaskStatus
<1>2. tasks' \in [TaskId -> TaskRow]
  BY <1>1 DEF TypeOK, CompleteStep
<1>3. StepsAfterReport(t, s, outcome) \in [StepSeq -> StepStatus \cup {"absent"}]
  BY DEF TypeOK, StepsAfterReport, StepStatus
<1>4. steps' \in [TaskId -> [StepSeq -> StepStatus \cup {"absent"}]]
  BY <1>3 DEF TypeOK, CompleteStep
<1>5. logs' \in [TaskId -> [StepSeq -> Outcome \cup {NULL}]]
  BY DEF TypeOK, CompleteStep
<1>6. audit' \in [TaskId -> [Event -> Nat]]
  BY RecordType DEF TypeOK, CompleteStep, Event
<1> QED
  BY <1>2, <1>4, <1>5, <1>6 DEF TypeOK, CompleteStep

LEMMA DuplicateReportType ==
  ASSUME TypeOK, NEW t \in TaskId, NEW s \in StepSeq, NEW w \in Workers,
         NEW token \in Token, NEW outcome \in Outcome,
         DuplicateReport(t, s, w, token, outcome)
  PROVE  TypeOK'
<1>1. audit' \in [TaskId -> [Event -> Nat]]
  BY RecordType DEF TypeOK, DuplicateReport, Event
<1> QED
  BY <1>1 DEF TypeOK, DuplicateReport

LEMMA RequeueTaskType ==
  ASSUME TypeOK, NEW t \in TaskId, RequeueTask(t)
  PROVE  TypeOK'
<1>1. tasks' \in [TaskId -> TaskRow]
  BY ReleasedType DEF TypeOK, RequeueTask
<1>2. Rewound(t) \in [StepSeq -> StepStatus \cup {"absent"}]
  BY DEF TypeOK, Rewound, StepStatus
<1>3. steps' \in [TaskId -> [StepSeq -> StepStatus \cup {"absent"}]]
  BY <1>2 DEF TypeOK, RequeueTask
<1>4. audit' \in [TaskId -> [Event -> Nat]]
  BY RecordType DEF TypeOK, RequeueTask, Event
<1> QED
  BY <1>1, <1>3, <1>4 DEF TypeOK, RequeueTask

LEMMA ResetAllType == ASSUME TypeOK, ResetAll PROVE TypeOK'
<1>1. NoTask \in TaskRow
  BY DEF NoTask, TaskRow
<1>2. /\ tasks' \in [TaskId -> TaskRow]
      /\ steps' \in [TaskId -> [StepSeq -> StepStatus \cup {"absent"}]]
      /\ logs' \in [TaskId -> [StepSeq -> Outcome \cup {NULL}]]
      /\ audit' \in [TaskId -> [Event -> Nat]]
      /\ groups' \in [GroupId -> Overrides \cup {NULL}]
  BY <1>1 DEF ResetAll, NoSteps, NoLogs, NoAudit
<1>3. resetLogged' \in BOOLEAN
  BY DEF ResetAll
<1> QED
  BY <1>2, <1>3 DEF TypeOK, ResetAll

LEMMA ClockType == ASSUME TypeOK, Tick \/ ClockSetBack PROVE TypeOK'
<1>1. clock' \in 0..MaxClock
  BY BoundsAssumption DEF TypeOK, Tick, ClockSetBack
<1> QED
  BY <1>1 DEF TypeOK, Tick, ClockSetBack

(* A worker that computed its deadline long before it got the write lock   *)
(* may claim with any deadline; what holds of the board does not depend on *)
(* it.                                                                     *)
AnyClaim == \E w \in Workers, expiry \in Nat : ClaimNextTask(w, expiry)

BoardStep == Next \/ AnyClaim

LEMMA NextIsStep == [Next]_vars => [BoardStep]_vars
BY DEF BoardStep

THEOREM NextType == TypeOK /\ [BoardStep]_vars => TypeOK'
<1> SUFFICES ASSUME TypeOK, [BoardStep]_vars PROVE TypeOK'
  OBVIOUS
<1>1. ASSUME NEW params \in Overrides, CreateGroup(params) PROVE TypeOK'
  BY <1>1, CreateGroupType
<1>2. ASSUME NEW g \in GroupId, NEW params \in Overrides, UpdateGroup(g, params)
      PROVE  TypeOK'
  BY <1>2, UpdateGroupType
<1>3. ASSUME NEW g \in GroupId \cup {NULL}, NEW n \in StepSeq, CreateTask(g, n)
      PROVE  TypeOK'
  BY <1>3, CreateTaskType
<1>4. ASSUME NEW g \in GroupId, NEW n \in StepSeq, NEW lease \in Leases,
              SeedRunning(g, n, lease)
       PROVE  TypeOK'
  BY <1>4, SeedRunningType
<1>5. CASE Claiming
  BY <1>5, LeaseExpiryType, ClaimNextTaskType DEF Claiming
<1>11. CASE AnyClaim
  BY <1>11, ClaimNextTaskType DEF AnyClaim
<1>6. ASSUME NEW t \in TaskId, NEW w \in Workers, NEW token \in Token,
             HolderRequest(t, w, token)
      PROVE  TypeOK'
  <2>1. CASE RetryStart(t, w, token)
    BY <2>1 DEF RetryStart, vars, TypeOK
  <2> QED
    BY <1>6, <2>1, StartTaskType, CompleteStepType, DuplicateReportType DEF HolderRequest
<1>7. ASSUME NEW t \in TaskId, RequeueTask(t) PROVE TypeOK'
  BY <1>7, RequeueTaskType
<1>8. CASE ResetAll
  BY <1>8, ResetAllType
<1>9. CASE Tick \/ ClockSetBack
  BY <1>9, ClockType
<1>10. CASE UNCHANGED vars
  BY <1>10 DEF vars, TypeOK
<1> QED
  BY <1>1, <1>2, <1>3, <1>4, <1>5, <1>6, <1>7, <1>8, <1>9, <1>10, <1>11
     DEF Next, BoardStep

(* The tables always hold rows the schema admits.                          *)
THEOREM TypeCorrect == Spec => []TypeOK
BY InitType, NextType, NextIsStep, PTL DEF Spec

-----------------------------------------------------------------------------
(* What one step can do to one task: its row, its steps, its log rows and  *)
(* the events the operations ledger counts for it.                         *)

(* Ids that were never handed out have no row.                             *)
UnusedIds == \A t \in TaskId : t >= nextTask => tasks[t] = NoTask

StepsKept(t) == steps'[t] = steps[t] /\ logs'[t] = logs[t]

Logged(t, events) ==
  \A e \in Event :
    audit'[t][e] = IF e \in events THEN audit[t][e] + 1 ELSE audit[t][e]

TaskKept(t) ==
  /\ tasks'[t] = tasks[t] /\ StepsKept(t)
  /\ Logged(t, {}) \/ Logged(t, {"duplicate_report"}) \/ Logged(t, {"duplicate_conflict"})

TaskCreated(t) ==
  /\ t = nextTask /\ nextTask' = nextTask + 1
  /\ \E g \in GroupId \cup {NULL} :
       /\ GroupKnown(g)
       /\ \/ tasks'[t] = Born(g) /\ Logged(t, {"task_created"})
          \/ /\ nextToken \in Token /\ nextToken' = nextToken + 1
             /\ \E expiry \in Nat : tasks'[t] = Claimed(Born(g), DemoWorker, expiry)
             /\ Logged(t, {"task_created_held"})
  /\ \E n \in StepSeq : steps'[t] = BornSteps(n)
  /\ logs'[t] = logs[t]

TaskReclaimed(t) ==
  /\ Expired(t) /\ Logged(t, {"lease_reclaim"})
  /\ tasks'[t] = Released(tasks[t])
  /\ StepsKept(t)

TaskRequeued(t) ==
  /\ tasks[t].status \in {"claimed", "running"}
  /\ Logged(t, {"manual_requeue"})
  /\ tasks'[t] = Released(tasks[t])
  /\ steps'[t] = Rewound(t) /\ logs'[t] = logs[t]

TaskGranted(t) ==
  /\ nextToken \in Token /\ nextToken' = nextToken + 1
  /\ \E w \in Workers, expiry \in Nat :
       \/ /\ Unclaimed(tasks[t]) /\ Logged(t, {"claim"})
          /\ tasks'[t] = Claimed(tasks[t], w, expiry)
       \/ /\ Expired(t) /\ Logged(t, {"claim", "lease_reclaim"})
          /\ tasks'[t] = Claimed(Released(tasks[t]), w, expiry)
  /\ StepsKept(t)

TaskStarted(t) ==
  /\ Logged(t, {"start"})
  /\ tasks[t].status = "claimed"
  /\ GroupParameters(t) \in Overrides
  /\ tasks'[t] = Started(tasks[t], GroupParameters(t))
  /\ \E s \in StepSeq : /\ IsFirst(s, PendingSteps(t))
                        /\ steps'[t] = [steps[t] EXCEPT ![s] = "running"]
  /\ logs'[t] = logs[t]

TaskReported(t) ==
  /\ Logged(t, {"step_report"})
  /\ tasks[t].status = "running"
  /\ \E s \in StepSeq, outcome \in Outcome :
       /\ steps[t][s] = "running" /\ logs[t][s] = NULL
       /\ tasks'[t] = TaskAfterReport(t, s, outcome)
       /\ steps'[t] = StepsAfterReport(t, s, outcome)
       /\ logs'[t] = [logs[t] EXCEPT ![s] = outcome]

TaskWiped(t) ==
  /\ tasks'[t] = NoTask /\ steps'[t] = NoSteps /\ logs'[t] = NoLogs
  /\ audit'[t] = NoAudit

TaskChange(t) ==
  \/ TaskKept(t)
  \/ TaskCreated(t)
  \/ TaskReclaimed(t)
  \/ TaskRequeued(t)
  \/ TaskGranted(t)
  \/ TaskStarted(t)
  \/ TaskReported(t)
  \/ TaskWiped(t)

(* A new row waits, or it is held by demo-worker.                          *)
LEMMA CreatedRow ==
  ASSUME NEW t \in TaskId, TaskCreated(t)
  PROVE  /\ tasks'[t].snapshot = NULL
         /\ \/ tasks'[t].group_id = NULL
            \/ tasks'[t].group_id \in GroupId /\ groups[tasks'[t].group_id] # NULL
         /\ \/ /\ tasks'[t].status = "pending" /\ tasks'[t].claimed_by = NULL
               /\ tasks'[t].claim_token = NULL /\ tasks'[t].lease_expires_at = NULL
               /\ Logged(t, {"task_created"})
            \/ /\ tasks'[t].status = "claimed" /\ tasks'[t].claimed_by \in Workers
               /\ tasks'[t].claim_token = nextToken /\ tasks'[t].lease_expires_at \in Nat
               /\ nextToken \in Token /\ nextToken' = nextToken + 1
               /\ Logged(t, {"task_created_held"})
<1>1. PICK g \in GroupId \cup {NULL} :
             /\ GroupKnown(g)
             /\ \/ tasks'[t] = Born(g) /\ Logged(t, {"task_created"})
                \/ /\ nextToken \in Token /\ nextToken' = nextToken + 1
                   /\ \E expiry \in Nat : tasks'[t] = Claimed(Born(g), DemoWorker, expiry)
                   /\ Logged(t, {"task_created_held"})
  BY DEF TaskCreated
<1>2. CASE tasks'[t] = Born(g) /\ Logged(t, {"task_created"})
  BY <1>1, <1>2 DEF Born, NoTask, GroupKnown
<1>3. ASSUME NEW expiry \in Nat, tasks'[t] = Claimed(Born(g), DemoWorker, expiry),
             Logged(t, {"task_created_held"}), nextToken \in Token,
             nextToken' = nextToken + 1
      PROVE  /\ tasks'[t].snapshot = NULL /\ tasks'[t].group_id = g
             /\ tasks'[t].status = "claimed" /\ tasks'[t].claimed_by \in Workers
             /\ tasks'[t].claim_token = nextToken /\ tasks'[t].lease_expires_at \in Nat
  BY <1>3, DemoAssumption DEF Claimed, Born, NoTask
<1> QED
  BY <1>1, <1>2, <1>3 DEF GroupKnown

LEMMA RecordLogged ==
  ASSUME TypeOK, NEW u \in TaskId, NEW event \in Event,
         audit' = RecordOperation(audit, u, event), NEW t \in TaskId
  PROVE  /\ t = u => Logged(t, {event})
         /\ t # u => Logged(t, {})
<1>1. audit \in [TaskId -> [Event -> Nat]]
  BY DEF TypeOK
<1>2. \A v \in TaskId, e \in Event :
        audit'[v][e] = IF v = u /\ e = event THEN audit[v][e] + 1 ELSE audit[v][e]
  BY <1>1 DEF RecordOperation
<1> QED
  BY <1>2 DEF Logged

LEMMA ReclaimedRow ==
  ASSUME TypeOK, NEW t \in TaskId
  PROVE  /\ Expired(t) => ReclaimExpiredLeases[t] = Released(tasks[t])
         /\ ~Expired(t) => ReclaimExpiredLeases[t] = tasks[t]
         /\ \A e \in Event :
              ReclaimAudit[t][e] = IF Expired(t) /\ e = "lease_reclaim"
                                   THEN audit[t][e] + 1 ELSE audit[t][e]
BY DEF ReclaimExpiredLeases, ReclaimAudit, TypeOK, Event

LEMMA ClaimChange ==
  ASSUME TypeOK, NEW w \in Workers, NEW expiry \in Nat, ClaimNextTask(w, expiry),
         NEW t \in TaskId
  PROVE  TaskChange(t)
<1>0. StepsKept(t)
  BY DEF ClaimNextTask, ClaimTask, ClaimNothing, StepsKept
<1>1. CASE ClaimNothing
  <2>1. tasks'[t] = ReclaimExpiredLeases[t] /\ audit'[t] = ReclaimAudit[t]
    BY <1>1 DEF ClaimNothing
  <2>2. CASE Expired(t)
    <3>1. Logged(t, {"lease_reclaim"})
      BY <2>1, <2>2, ReclaimedRow DEF Logged
    <3> QED
      BY <1>0, <2>1, <2>2, <3>1, ReclaimedRow DEF TaskChange, TaskReclaimed
  <2>3. CASE ~Expired(t)
    <3>1. Logged(t, {})
      BY <2>1, <2>3, ReclaimedRow DEF Logged
    <3> QED
      BY <1>0, <2>1, <2>3, <3>1, ReclaimedRow DEF TaskChange, TaskKept
  <2> QED
    BY <2>2, <2>3
<1>2. ASSUME NEW u \in TaskId, ClaimTask(w, expiry, u) PROVE TaskChange(t)
  <2>1. /\ nextToken \in Token /\ nextToken' = nextToken + 1
        /\ Unclaimed(ReclaimExpiredLeases[u])
        /\ tasks' = [ReclaimExpiredLeases EXCEPT ![u] = Claimed(@, w, expiry)]
        /\ audit' = RecordOperation(ReclaimAudit, u, "claim")
    BY <1>2, BoundsAssumption DEF ClaimTask, TypeOK, Token
  <2>2. \A e \in Event :
          audit'[t][e] = IF t = u /\ e = "claim" THEN ReclaimAudit[t][e] + 1
                         ELSE ReclaimAudit[t][e]
    BY <2>1, ReclaimType DEF RecordOperation, Event
  <2>3. CASE t = u
    <3>1. tasks'[t] = Claimed(ReclaimExpiredLeases[t], w, expiry)
      BY <2>1, <2>3, ReclaimType
    <3>2. CASE Expired(t)
      <4>1. Logged(t, {"claim", "lease_reclaim"})
        BY <2>2, <2>3, <3>2, ReclaimedRow DEF Logged
      <4> QED
        BY <1>0, <2>1, <3>1, <3>2, <4>1, ReclaimedRow DEF TaskChange, TaskGranted
    <3>3. CASE ~Expired(t)
      <4>1. Logged(t, {"claim"})
        BY <2>2, <2>3, <3>3, ReclaimedRow DEF Logged
      <4> QED
        BY <1>0, <2>1, <2>3, <3>1, <3>3, <4>1, ReclaimedRow DEF TaskChange, TaskGranted
    <3> QED
      BY <3>2, <3>3
  <2>4. CASE t # u
    <3>1. tasks'[t] = ReclaimExpiredLeases[t]
      BY <2>1, <2>4, ReclaimType
    <3>2. CASE Expired(t)
      <4>1. Logged(t, {"lease_reclaim"})
        BY <2>2, <2>4, <3>2, ReclaimedRow DEF Logged
      <4> QED
        BY <1>0, <3>1, <3>2, <4>1, ReclaimedRow DEF TaskChange, TaskReclaimed
    <3>3. CASE ~Expired(t)
      <4>1. Logged(t, {})
        BY <2>2, <2>4, <3>3, ReclaimedRow DEF Logged
      <4> QED
        BY <1>0, <3>1, <3>3, <4>1, ReclaimedRow DEF TaskChange, TaskKept
    <3> QED
      BY <3>2, <3>3
  <2> QED
    BY <2>3, <2>4
<1> QED
  BY <1>1, <1>2 DEF ClaimNextTask

LEMMA NextChange ==
  ASSUME TypeOK, [BoardStep]_vars, NEW t \in TaskId
  PROVE  TaskChange(t)
<1>0. UNCHANGED <<tasks, steps, logs, audit>> => TaskChange(t)
  BY DEF TaskChange, TaskKept, StepsKept, Logged
<1>1. ASSUME NEW params \in Overrides,
             CreateGroup(params) \/ \E g \in GroupId : UpdateGroup(g, params)
      PROVE  TaskChange(t)
  BY <1>0, <1>1 DEF CreateGroup, UpdateGroup
<1>2. ASSUME NEW g \in GroupId \cup {NULL}, NEW n \in StepSeq, CreateTask(g, n)
      PROVE  TaskChange(t)
  <2>1. nextTask \in TaskId /\ audit' = RecordOperation(audit, nextTask, "task_created")
    BY <1>2, BoundsAssumption DEF CreateTask, TypeOK, TaskId
  <2>2. CASE t = nextTask
    <3>1. Logged(t, {"task_created"})
      BY <2>1, <2>2, RecordLogged DEF Event
    <3> QED
      BY <1>2, <2>2, <3>1 DEF CreateTask, TaskChange, TaskCreated, TypeOK
  <2>3. CASE t # nextTask
    <3>1. Logged(t, {})
      BY <2>1, <2>3, RecordLogged DEF Event
    <3> QED
      BY <1>2, <2>3, <3>1 DEF CreateTask, TaskChange, TaskKept, StepsKept, TypeOK
  <2> QED
    BY <2>2, <2>3
<1>3. ASSUME NEW g \in GroupId, NEW n \in StepSeq, NEW lease \in Leases,
             SeedRunning(g, n, lease)
      PROVE  TaskChange(t)
  <2>1. /\ nextTask \in TaskId /\ nextToken \in Token
        /\ audit' = RecordOperation(audit, nextTask, "task_created_held")
    BY <1>3, BoundsAssumption DEF SeedRunning, TypeOK, TaskId, Token
  <2>2. CASE t = nextTask
    <3>1. Logged(t, {"task_created_held"})
      BY <2>1, <2>2, RecordLogged DEF Event
    <3>2. LeaseExpiry(lease, 0) \in Nat
      BY SeedExpiryType
    <3>3. tasks'[t] = Claimed(Born(g), DemoWorker, LeaseExpiry(lease, 0))
      BY <1>3, <2>2 DEF SeedRunning, TypeOK
    <3> QED
      BY <1>3, <2>1, <2>2, <3>1, <3>2, <3>3
         DEF SeedRunning, TaskChange, TaskCreated, GroupKnown, TypeOK
  <2>3. CASE t # nextTask
    <3>1. Logged(t, {})
      BY <2>1, <2>3, RecordLogged DEF Event
    <3> QED
      BY <1>3, <2>3, <3>1 DEF SeedRunning, TaskChange, TaskKept, StepsKept, TypeOK
  <2> QED
    BY <2>2, <2>3
<1>4. CASE Claiming
  BY <1>4, LeaseExpiryType, ClaimChange DEF Claiming
<1>10. CASE AnyClaim
  BY <1>10, ClaimChange DEF AnyClaim
<1>5. ASSUME NEW u \in TaskId, NEW w \in Workers, NEW token \in Token,
             HolderRequest(u, w, token)
      PROVE  TaskChange(t)
  <2>1. CASE StartTask(u, w, token)
    <3>1. /\ tasks' = [tasks EXCEPT ![u] = Started(@, GroupParameters(u))]
          /\ \E s \in StepSeq : /\ IsFirst(s, PendingSteps(u))
                                /\ steps' = [steps EXCEPT ![u][s] = "running"]
          /\ logs' = logs
          /\ audit' = RecordOperation(audit, u, "start")
      BY <2>1 DEF StartTask
    <3>2. tasks[u].status = "claimed" /\ GroupParameters(u) \in Overrides
      BY <2>1, GroupParametersType DEF StartTask
    <3>3. t = u => Logged(t, {"start"})
      BY <3>1, RecordLogged DEF Event
    <3>4. t # u => Logged(t, {})
      BY <3>1, RecordLogged DEF Event
    <3>5. CASE t = u
      BY <3>1, <3>2, <3>3, <3>5 DEF TaskChange, TaskStarted, TypeOK
    <3>6. CASE t # u
      BY <3>1, <3>4, <3>6 DEF TaskChange, TaskKept, StepsKept, TypeOK
    <3> QED
      BY <3>5, <3>6
  <2>2. CASE RetryStart(u, w, token)
    BY <1>0, <2>2 DEF RetryStart, vars
  <2>3. ASSUME NEW s \in StepSeq, NEW outcome \in Outcome,
               CompleteStep(u, s, w, token, outcome)
        PROVE  TaskChange(t)
    <3>1. /\ tasks' = [tasks EXCEPT ![u] = TaskAfterReport(u, s, outcome)]
          /\ steps' = [steps EXCEPT ![u] = StepsAfterReport(u, s, outcome)]
          /\ logs' = [logs EXCEPT ![u][s] = outcome]
          /\ audit' = RecordOperation(audit, u, "step_report")
      BY <2>3 DEF CompleteStep
    <3>2. tasks[u].status = "running" /\ steps[u][s] = "running" /\ logs[u][s] = NULL
      BY <2>3 DEF CompleteStep
    <3>3. t = u => Logged(t, {"step_report"})
      BY <3>1, RecordLogged DEF Event
    <3>4. t # u => Logged(t, {})
      BY <3>1, RecordLogged DEF Event
    <3>5. CASE t = u
      BY <3>1, <3>2, <3>3, <3>5 DEF TaskChange, TaskReported, TypeOK
    <3>6. CASE t # u
      BY <3>1, <3>4, <3>6 DEF TaskChange, TaskKept, StepsKept, TypeOK
    <3> QED
      BY <3>5, <3>6
  <2>4. ASSUME NEW s \in StepSeq, NEW outcome \in Outcome,
               DuplicateReport(u, s, w, token, outcome)
        PROVE  TaskChange(t)
    <3>1. PICK event \in {"duplicate_report", "duplicate_conflict"} :
                 audit' = RecordOperation(audit, u, event)
      BY <2>4 DEF DuplicateReport
    <3>2. Logged(t, {}) \/ Logged(t, {event})
      BY <3>1, RecordLogged DEF Event
    <3> QED
      BY <2>4, <3>2 DEF DuplicateReport, TaskChange, TaskKept, StepsKept
  <2> QED
    BY <1>5, <2>1, <2>2, <2>3, <2>4 DEF HolderRequest
<1>6. ASSUME NEW u \in TaskId, RequeueTask(u) PROVE TaskChange(t)
  <2>1. /\ tasks[u].status \in {"claimed", "running"}
        /\ tasks' = [tasks EXCEPT ![u] = Released(@)]
        /\ steps' = [steps EXCEPT ![u] = Rewound(u)]
        /\ logs' = logs
        /\ audit' = RecordOperation(audit, u, "manual_requeue")
    BY <1>6 DEF RequeueTask, Requeueable
  <2>2. t = u => Logged(t, {"manual_requeue"})
    BY <2>1, RecordLogged DEF Event
  <2>3. t # u => Logged(t, {})
    BY <2>1, RecordLogged DEF Event
  <2>4. CASE t = u
    BY <2>1, <2>2, <2>4 DEF TaskChange, TaskRequeued, TypeOK
  <2>5. CASE t # u
    BY <2>1, <2>3, <2>5 DEF TaskChange, TaskKept, StepsKept, TypeOK
  <2> QED
    BY <2>4, <2>5
<1>7. CASE ResetAll
  BY <1>7 DEF ResetAll, TaskChange, TaskWiped
<1>8. CASE Tick \/ ClockSetBack
  BY <1>0, <1>8 DEF Tick, ClockSetBack
<1>9. CASE UNCHANGED vars
  BY <1>0, <1>9 DEF vars
<1> QED
  BY <1>1, <1>2, <1>3, <1>4, <1>5, <1>6, <1>7, <1>8, <1>9, <1>10 DEF Next, BoardStep

-----------------------------------------------------------------------------
(* Credentials.                                                            *)

(* Ids and tokens are counted up, tokens by a claim alone.                 *)
LEMMA Counters ==
  ASSUME TypeOK, [BoardStep]_vars
  PROVE  /\ nextTask' = nextTask \/ nextTask' = nextTask + 1
         /\ \/ nextToken' = nextToken
            \/ /\ nextToken' = nextToken + 1
               /\ \/ \E w \in Workers, expiry \in Nat, t \in TaskId : ClaimTask(w, expiry, t)
                  \/ \E g \in GroupId, n \in StepSeq, lease \in Leases :
                       SeedRunning(g, n, lease)
<1>1. CASE Claiming \/ AnyClaim
  <2>1. PICK w \in Workers, expiry \in Nat : ClaimNextTask(w, expiry)
    BY <1>1, LeaseExpiryType DEF Claiming, AnyClaim
  <2>2. CASE ClaimNothing
    BY <2>2 DEF ClaimNothing
  <2>3. ASSUME NEW t \in TaskId, ClaimTask(w, expiry, t)
        PROVE  nextTask' = nextTask /\ nextToken' = nextToken + 1
    BY <2>3 DEF ClaimTask
  <2> QED
    BY <2>1, <2>2, <2>3 DEF ClaimNextTask
<1>2. ASSUME NEW params \in Overrides,
             CreateGroup(params) \/ \E g \in GroupId : UpdateGroup(g, params)
      PROVE  UNCHANGED <<nextTask, nextToken>>
  BY <1>2 DEF CreateGroup, UpdateGroup
<1>3. ASSUME NEW g \in GroupId \cup {NULL}, NEW n \in StepSeq, CreateTask(g, n)
      PROVE  nextTask' = nextTask + 1 /\ nextToken' = nextToken
  BY <1>3 DEF CreateTask
<1>4. ASSUME NEW g \in GroupId, NEW n \in StepSeq, NEW lease \in Leases,
             SeedRunning(g, n, lease)
      PROVE  nextTask' = nextTask + 1 /\ nextToken' = nextToken + 1
  BY <1>4 DEF SeedRunning
<1>5. ASSUME NEW u \in TaskId, NEW w \in Workers, NEW token \in Token,
             HolderRequest(u, w, token)
      PROVE  UNCHANGED <<nextTask, nextToken>>
  BY <1>5 DEF HolderRequest, StartTask, RetryStart, CompleteStep, DuplicateReport, vars
<1>6. CASE \E t \in TaskId : RequeueTask(t)
  BY <1>6 DEF RequeueTask
<1>7. CASE ResetAll \/ Tick \/ ClockSetBack \/ UNCHANGED vars
  BY <1>7 DEF ResetAll, Tick, ClockSetBack, vars
<1> QED
  BY <1>1, <1>2, <1>3, <1>4, <1>5, <1>6, <1>7 DEF Next, BoardStep

LEMMA RowColumns ==
  ASSUME TypeOK, NEW t \in TaskId, ColumnsAgree(tasks[t]), TaskChange(t)
  PROVE  ColumnsAgree(tasks'[t])
<1>1. tasks[t] \in TaskRow
  BY DEF TypeOK
<1>2. CASE TaskCreated(t)
  BY <1>2, CreatedRow, NullAssumption DEF ColumnsAgree, Token
<1>3. CASE TaskReclaimed(t) \/ TaskRequeued(t)
  BY <1>1, <1>3 DEF TaskReclaimed, TaskRequeued, ColumnsAgree, Released, TaskRow
<1>4. CASE TaskGranted(t)
  <2>1. PICK w \in Workers, expiry \in Nat :
               \/ tasks'[t] = Claimed(tasks[t], w, expiry)
               \/ tasks'[t] = Claimed(Released(tasks[t]), w, expiry)
    BY <1>4 DEF TaskGranted
  <2>2. w # NULL /\ expiry # NULL /\ nextToken # NULL
    BY <1>4, NullAssumption DEF TaskGranted, Token
  <2> QED
    BY <1>1, <2>1, <2>2 DEF ColumnsAgree, Claimed, Released, TaskRow
<1>5. CASE TaskStarted(t)
  BY <1>1, <1>5 DEF TaskStarted, ColumnsAgree, Started, TaskRow
<1>6. CASE TaskReported(t)
  BY <1>1, <1>6 DEF TaskReported, TaskAfterReport, ColumnsAgree, TaskRow
<1>7. CASE TaskWiped(t)
  BY <1>7 DEF TaskWiped, NoTask, ColumnsAgree
<1> QED
  BY <1>2, <1>3, <1>4, <1>5, <1>6, <1>7 DEF TaskChange, TaskKept

(* A row's token stays, goes, or is the one just issued.                   *)
LEMMA RowToken ==
  ASSUME TypeOK, NEW t \in TaskId, TaskChange(t)
  PROVE  \/ tasks'[t].claim_token \in {NULL, tasks[t].claim_token}
         \/ tasks'[t].claim_token = nextToken /\ nextToken' = nextToken + 1
<1>1. tasks[t] \in TaskRow
  BY DEF TypeOK
<1>2. CASE TaskCreated(t)
  BY <1>2, CreatedRow
<1>3. CASE TaskReclaimed(t) \/ TaskRequeued(t)
  BY <1>1, <1>3 DEF TaskReclaimed, TaskRequeued, Released, TaskRow
<1>4. CASE TaskGranted(t)
  BY <1>1, <1>4 DEF TaskGranted, Claimed, Released, TaskRow
<1>5. CASE TaskStarted(t)
  BY <1>1, <1>5 DEF TaskStarted, Started, TaskRow
<1>6. CASE TaskReported(t)
  BY <1>1, <1>6 DEF TaskReported, TaskAfterReport, TaskRow
<1>7. CASE TaskWiped(t)
  BY <1>7 DEF TaskWiped, NoTask
<1> QED
  BY <1>2, <1>3, <1>4, <1>5, <1>6, <1>7 DEF TaskChange, TaskKept

(* No step issues two.                                                     *)
LEMMA OneGrantee ==
  ASSUME TypeOK, [BoardStep]_vars, TokensUnique,
         NEW t \in TaskId, NEW u \in TaskId,
         tasks'[t].claim_token = nextToken, tasks'[u].claim_token = nextToken
  PROVE  t = u
<1>1. nextToken \in Nat /\ nextToken # NULL
  BY NullAssumption, BoundsAssumption DEF TypeOK
<1>2. \A v \in TaskId : tasks[v] \in TaskRow /\ tasks[v].claim_token # nextToken
  BY <1>1 DEF TokensUnique, TypeOK
<1>3. CASE nextToken' = nextToken
  BY <1>1, <1>2, <1>3, NextChange, RowToken
<1>4. ASSUME NEW g \in GroupId, NEW n \in StepSeq, NEW lease \in Leases,
             SeedRunning(g, n, lease), NEW v \in TaskId, v # nextTask
      PROVE  tasks'[v].claim_token # nextToken
  BY <1>2, <1>4 DEF SeedRunning, TypeOK
<1>5. ASSUME NEW w \in Workers, NEW expiry \in Nat, NEW g \in TaskId,
             ClaimTask(w, expiry, g), NEW v \in TaskId, v # g
      PROVE  tasks'[v].claim_token # nextToken
  <2>1. tasks'[v] = ReclaimExpiredLeases[v]
    BY <1>5, ReclaimType DEF ClaimTask
  <2>2. tasks'[v] = tasks[v] \/ tasks'[v] = Released(tasks[v])
    BY <2>1, ReclaimedRow
  <2> QED
    BY <1>1, <1>2, <2>2 DEF Released, TaskRow
<1> QED
  BY <1>3, <1>4, <1>5, Counters

CredentialInv == TypeOK /\ UnusedIds /\ ClaimColumnsAgree /\ TokensUnique

THEOREM CredentialInit == Init => CredentialInv
<1>1. Init => UnusedIds /\ ClaimColumnsAgree /\ TokensUnique
  BY DEF Init, UnusedIds, ClaimColumnsAgree, ColumnsAgree, TokensUnique, NoTask
<1> QED
  BY <1>1, InitType DEF CredentialInv

THEOREM CredentialNext == CredentialInv /\ [BoardStep]_vars => CredentialInv'
<1> SUFFICES ASSUME CredentialInv, [BoardStep]_vars PROVE CredentialInv'
  OBVIOUS
<1> USE DEF CredentialInv
<1>1. TypeOK'
  BY NextType
<1>2. ClaimColumnsAgree'
  BY NextChange, RowColumns DEF ClaimColumnsAgree
<1>3. UnusedIds'
  <2> SUFFICES ASSUME NEW t \in TaskId, t >= nextTask' PROVE tasks'[t] = NoTask
    BY DEF UnusedIds
  <2>1. t >= nextTask /\ (t # nextTask \/ nextTask' # nextTask + 1)
    BY Counters, BoundsAssumption DEF TypeOK, TaskId
  <2>2. tasks[t] = NoTask
    BY <2>1 DEF UnusedIds
  <2>3. tasks[t].status = "absent"
    BY <2>2 DEF NoTask
  <2>4. TaskChange(t)
    BY NextChange
  <2>5. ~TaskCreated(t)
    BY <2>1 DEF TaskCreated
  <2>6. /\ ~TaskReclaimed(t) /\ ~TaskRequeued(t) /\ ~TaskGranted(t)
        /\ ~TaskStarted(t) /\ ~TaskReported(t)
    BY <2>3 DEF TaskReclaimed, TaskRequeued, TaskGranted, TaskStarted, TaskReported,
       Expired, Unclaimed
  <2> QED
    BY <2>2, <2>4, <2>5, <2>6 DEF TaskChange, TaskKept, TaskWiped
<1>4. TokensUnique'
  <2> SUFFICES ASSUME NEW t \in TaskId, tasks'[t].claim_token # NULL
               PROVE  /\ tasks'[t].claim_token < nextToken'
                      /\ \A u \in TaskId : tasks'[u].claim_token = tasks'[t].claim_token => u = t
    BY DEF TokensUnique
  <2>1. nextToken \in Nat
    BY BoundsAssumption DEF TypeOK
  <2>2. \A u \in TaskId :
          \/ tasks'[u].claim_token \in {NULL, tasks[u].claim_token}
          \/ tasks'[u].claim_token = nextToken /\ nextToken' = nextToken + 1
    BY NextChange, RowToken
  <2>3. \A u \in TaskId : tasks[u].claim_token # NULL =>
          tasks[u].claim_token \in Nat /\ tasks[u].claim_token < nextToken
    BY DEF TokensUnique, TypeOK, TaskRow, Token
  <2>4. nextToken' >= nextToken
    BY <2>1, Counters
  <2>5. CASE tasks'[t].claim_token = nextToken
    BY <2>1, <2>2, <2>3, <2>5, OneGrantee
  <2>6. CASE tasks'[t].claim_token # nextToken
    <3>1. tasks'[t].claim_token = tasks[t].claim_token
      BY <2>2, <2>6
    <3>2. \A u \in TaskId : tasks'[u].claim_token = tasks'[t].claim_token =>
            tasks[u].claim_token = tasks[t].claim_token
      BY <2>2, <2>6, <3>1
    <3>3. tasks'[t].claim_token < nextToken'
      <4>1. tasks[t].claim_token \in Nat /\ tasks[t].claim_token < nextToken
        BY <2>3, <3>1
      <4> QED
        BY <2>1, <2>4, <3>1, <4>1, Counters
    <3>4. \A u \in TaskId : tasks[u].claim_token = tasks[t].claim_token => u = t
      BY <3>1 DEF TokensUnique
    <3> QED
      BY <3>2, <3>3, <3>4
  <2> QED
    BY <2>5, <2>6
<1> QED
  BY <1>1, <1>2, <1>3, <1>4

(* A credential opens one task at most, and the credential columns agree   *)
(* with the status.                                                        *)
THEOREM CredentialsCorrect == Spec => []CredentialInv
BY CredentialInit, CredentialNext, NextIsStep, PTL DEF Spec

THEOREM TokensAreUnique == Spec => []TokensUnique
<1>1. CredentialInv => TokensUnique
  BY DEF CredentialInv
<1> QED
  BY <1>1, CredentialsCorrect, PTL

THEOREM ColumnsCorrect == Spec => []ClaimColumnsAgree
<1>1. CredentialInv => ClaimColumnsAgree
  BY DEF CredentialInv
<1> QED
  BY <1>1, CredentialsCorrect, PTL

-----------------------------------------------------------------------------
(* Steps and ledger.                                                       *)

LedgerOf(t) ==
  \A s \in StepSeq :
    /\ logs[t][s] = "success" <=> steps[t][s] = "done"
    /\ logs[t][s] = "failure" <=> steps[t][s] = "failed"

(* What the invariant says of a task with a running step.                  *)
LEMMA AroundRunning ==
  ASSUME TypeOK, NEW t \in TaskId, StepsFollow(t),
         NEW s \in StepSeq, steps[t][s] = "running"
  PROVE  /\ \A q \in StepSeq : q < s => steps[t][q] = "done"
         /\ \A q \in StepSeq : q > s => steps[t][q] \in {"pending", "absent"}
<1>1. steps[t] \in [StepSeq -> StepStatus \cup {"absent"}]
  BY DEF TypeOK
<1> QED
  BY <1>1 DEF StepsFollow, StepsInOrder, StepStatus, StepSeq

(* The step after a running one is the first of the later ones, if any.    *)
LEMMA NextStep ==
  ASSUME TypeOK, NEW t \in TaskId, StepsFollow(t),
         NEW s \in StepSeq, LaterSteps(t, s) # {}
  PROVE  /\ s + 1 \in StepSeq /\ IsFirst(s + 1, LaterSteps(t, s))
         /\ \A q \in StepSeq : IsFirst(q, LaterSteps(t, s)) <=> q = s + 1
<1>1. PICK q \in StepSeq : q > s /\ steps[t][q] # "absent"
  BY DEF LaterSteps
<1>2. s + 1 \in StepSeq /\ s + 1 <= q
  BY <1>1, BoundsAssumption DEF StepSeq
<1>3. steps[t][s + 1] # "absent"
  BY <1>1, <1>2 DEF StepsFollow, StepsInOrder, StepSeq
<1>4. s + 1 \in LaterSteps(t, s)
  BY <1>2, <1>3 DEF LaterSteps, StepSeq
<1>5. \A r \in LaterSteps(t, s) : r \in StepSeq /\ s + 1 <= r
  BY DEF LaterSteps, StepSeq
<1> QED
  BY <1>2, <1>4, <1>5 DEF IsFirst, StepSeq

LEMMA StartKeepsOrder ==
  ASSUME TypeOK, NEW t \in TaskId, StepsFollow(t), TaskStarted(t)
  PROVE  StepsFollow(t)'
<1>1. PICK s \in StepSeq : /\ IsFirst(s, PendingSteps(t))
                           /\ steps'[t] = [steps[t] EXCEPT ![s] = "running"]
  BY DEF TaskStarted
<1>2. steps[t] \in [StepSeq -> StepStatus \cup {"absent"}] /\ tasks[t] \in TaskRow
  BY DEF TypeOK
<1>3. tasks[t].status = "claimed" /\ tasks'[t].status = "running"
  BY <1>2 DEF TaskStarted, Started, TaskRow
<1>4. steps[t][s] = "pending" /\ \A q \in StepSeq : q < s => steps[t][q] # "pending"
  BY <1>1 DEF IsFirst, PendingSteps, StepSeq
<1>5. \A q \in StepSeq : steps[t][q] \in {"pending", "done", "absent"}
  BY <1>2, <1>3 DEF StepsFollow, SomeStep, StepStatus
<1>6. \A q \in StepSeq : q < s => steps[t][q] = "done"
  BY <1>4, <1>5 DEF StepsFollow, StepsInOrder
<1>7. \A q \in StepSeq : q > s => steps[t][q] \in {"pending", "absent"}
  BY <1>4, <1>5 DEF StepsFollow, StepsInOrder
<1>8. StepsInOrder(t)'
  <2> SUFFICES ASSUME NEW r \in StepSeq, NEW q \in StepSeq, r < q
               PROVE  /\ steps'[t][q] \in {"running", "done", "failed"} => steps'[t][r] = "done"
                      /\ steps'[t][q] # "absent" => steps'[t][r] # "absent"
    BY DEF StepsInOrder
  <2>1. steps[t][q] # "absent" => steps[t][r] # "absent"
    BY DEF StepsFollow, StepsInOrder
  <2>2. CASE q <= s
    BY <1>1, <1>2, <1>6, <2>2 DEF StepSeq
  <2>3. CASE q > s
    BY <1>1, <1>2, <1>7, <2>1, <2>3 DEF StepSeq
  <2> QED
    BY <2>2, <2>3 DEF StepSeq
<1>9. SomeStep(t, "running")' /\ ~SomeStep(t, "failed")'
  BY <1>1, <1>2, <1>5 DEF SomeStep
<1> QED
  BY <1>3, <1>8, <1>9 DEF StepsFollow, Exists

LEMMA ReportKeepsOrder ==
  ASSUME TypeOK, NEW t \in TaskId, StepsFollow(t), TaskReported(t)
  PROVE  StepsFollow(t)'
<1>1. PICK s \in StepSeq, outcome \in Outcome :
             /\ steps[t][s] = "running"
             /\ tasks'[t] = TaskAfterReport(t, s, outcome)
             /\ steps'[t] = StepsAfterReport(t, s, outcome)
  BY DEF TaskReported
<1>2. tasks[t] \in TaskRow /\ tasks[t].status = "running"
  BY DEF TypeOK, TaskReported
<1>3. /\ \A q \in StepSeq : q < s => steps[t][q] = "done"
      /\ \A q \in StepSeq : q > s => steps[t][q] \in {"pending", "absent"}
  BY <1>1, AroundRunning
<1>4. CASE outcome = "failure"
  <2>1. tasks'[t].status = "failed"
    BY <1>1, <1>2, <1>4 DEF TaskAfterReport, TaskRow
  <2>2. \A q \in StepSeq : steps'[t][q] = IF q = s THEN "failed" ELSE steps[t][q]
    BY <1>1, <1>4 DEF StepsAfterReport
  <2>3. StepsInOrder(t)'
    BY <1>1, <1>3, <2>2 DEF StepsFollow, StepsInOrder, StepSeq
  <2>4. SomeStep(t, "failed")' /\ ~SomeStep(t, "running")'
    BY <1>3, <2>2 DEF SomeStep, StepSeq
  <2> QED
    BY <2>1, <2>3, <2>4 DEF StepsFollow, Exists
<1>5. CASE outcome = "success" /\ LaterSteps(t, s) = {}
  <2>1. tasks'[t].status = "done"
    BY <1>1, <1>2, <1>5 DEF TaskAfterReport, TaskRow
  <2>2. \A q \in StepSeq : steps'[t][q] = IF q = s THEN "done" ELSE steps[t][q]
    BY <1>1, <1>5 DEF StepsAfterReport, IsFirst
  <2>3. \A q \in StepSeq : q > s => steps[t][q] = "absent"
    BY <1>5 DEF LaterSteps
  <2>4. StepsInOrder(t)'
    BY <1>1, <1>3, <2>2, <2>3 DEF StepsInOrder, StepSeq
  <2>5. SomeStep(t, "done")' /\ ~SomeStep(t, "pending")'
        /\ ~SomeStep(t, "running")' /\ ~SomeStep(t, "failed")'
    BY <1>3, <2>2, <2>3 DEF SomeStep, StepSeq
  <2> QED
    BY <2>1, <2>4, <2>5 DEF StepsFollow, Exists
<1>6. CASE outcome = "success" /\ LaterSteps(t, s) # {}
  <2>1. tasks'[t].status = "running"
    BY <1>1, <1>2, <1>6 DEF TaskAfterReport
  <2>2. /\ s + 1 \in LaterSteps(t, s)
        /\ \A q \in StepSeq : IsFirst(q, LaterSteps(t, s)) <=> q = s + 1
    BY <1>6, NextStep DEF IsFirst
  <2>3. s + 1 \in StepSeq /\ steps[t][s + 1] = "pending"
    BY <1>3, <2>2 DEF LaterSteps
  <2>4. \A q \in StepSeq : steps'[t][q] = IF q = s THEN "done"
                                         ELSE IF q = s + 1 THEN "running" ELSE steps[t][q]
    BY <1>1, <1>6, <2>2, <2>3 DEF StepsAfterReport
  <2>5. StepsInOrder(t)'
    BY <1>1, <1>3, <2>3, <2>4 DEF StepsFollow, StepsInOrder, StepSeq
  <2>6. SomeStep(t, "running")' /\ ~SomeStep(t, "failed")'
    BY <1>3, <2>3, <2>4 DEF SomeStep, StepSeq
  <2> QED
    BY <2>1, <2>5, <2>6 DEF StepsFollow, Exists
<1> QED
  BY <1>4, <1>5, <1>6 DEF Outcome

LEMMA RequeueKeepsOrder ==
  ASSUME TypeOK, NEW t \in TaskId, StepsFollow(t), TaskRequeued(t)
  PROVE  StepsFollow(t)'
<1>1. tasks[t] \in TaskRow
  BY DEF TypeOK
<1>2. tasks'[t].status = "pending"
  BY <1>1 DEF TaskRequeued, Released, TaskRow
<1>3. \A s \in StepSeq :
        steps'[t][s] = IF steps[t][s] = "running" THEN "pending" ELSE steps[t][s]
  BY DEF TaskRequeued, Rewound
<1>4. StepsInOrder(t)'
  BY <1>3 DEF StepsFollow, StepsInOrder
<1>5. ~SomeStep(t, "failed")' /\ ~SomeStep(t, "running")'
  BY <1>3 DEF SomeStep, StepsFollow, TaskRequeued
<1>6. SomeStep(t, "pending")'
  BY <1>3 DEF SomeStep, StepsFollow, TaskRequeued
<1> QED
  BY <1>2, <1>4, <1>5, <1>6 DEF StepsFollow, Exists

LEMMA ChangeKeepsOrder ==
  ASSUME TypeOK, NEW t \in TaskId, StepsFollow(t), TaskChange(t)
  PROVE  StepsFollow(t)'
<1>1. tasks[t] \in TaskRow
  BY DEF TypeOK
<1>2. CASE TaskKept(t)
  BY <1>2 DEF TaskKept, StepsKept, StepsFollow, StepsInOrder, SomeStep, Exists
<1>3. CASE TaskCreated(t)
  <2>1. PICK n \in StepSeq :
          steps'[t] = [s \in StepSeq |-> IF s <= n THEN "pending" ELSE "absent"]
    BY <1>3 DEF TaskCreated, BornSteps
  <2>2. tasks'[t].status \in {"pending", "claimed"}
    BY <1>3, CreatedRow
  <2>3. SomeStep(t, "pending")' /\ ~SomeStep(t, "running")' /\ ~SomeStep(t, "failed")'
    BY <2>1 DEF SomeStep, StepSeq
  <2>4. StepsInOrder(t)'
    BY <2>1 DEF StepsInOrder, StepSeq
  <2> QED
    BY <2>2, <2>3, <2>4 DEF StepsFollow, Exists
<1>4. CASE TaskReclaimed(t) \/ TaskGranted(t)
  <2>1. /\ tasks[t].status \in {"pending", "claimed"}
        /\ tasks'[t].status \in {"pending", "claimed"}
    BY <1>1, <1>4 DEF TaskReclaimed, TaskGranted, Expired, Unclaimed, Released, Claimed, TaskRow
  <2>2. steps'[t] = steps[t]
    BY <1>4 DEF TaskReclaimed, TaskGranted, StepsKept
  <2> QED
    BY <2>1, <2>2 DEF StepsFollow, StepsInOrder, SomeStep, Exists
<1>5. CASE TaskWiped(t)
  BY <1>5 DEF TaskWiped, NoTask, NoSteps, StepsFollow, StepsInOrder, SomeStep, Exists
<1> QED
  BY <1>2, <1>3, <1>4, <1>5, StartKeepsOrder, ReportKeepsOrder, RequeueKeepsOrder DEF TaskChange

LEMMA ChangeKeepsLedger ==
  ASSUME TypeOK, UnusedIds, NEW t \in TaskId, StepsFollow(t), LedgerOf(t), TaskChange(t)
  PROVE  LedgerOf(t)'
<1>1. /\ steps[t] \in [StepSeq -> StepStatus \cup {"absent"}]
      /\ logs[t] \in [StepSeq -> Outcome \cup {NULL}]
  BY DEF TypeOK
<1>2. NULL # "success" /\ NULL # "failure"
  BY NullAssumption
<1>3. CASE TaskKept(t)
  BY <1>3 DEF TaskKept, StepsKept, LedgerOf
<1>4. CASE TaskCreated(t)
  <2>1. tasks[t].status = "absent"
    BY <1>4 DEF TaskCreated, UnusedIds, NoTask, TaskId
  <2>2. \A s \in StepSeq : steps[t][s] = "absent"
    BY <2>1 DEF StepsFollow, Exists, NoSteps
  <2>3. \A s \in StepSeq : logs'[t][s] \notin {"success", "failure"}
    BY <1>4, <2>2 DEF LedgerOf, TaskCreated
  <2>4. \A s \in StepSeq : steps'[t][s] \in {"pending", "absent"}
    BY <1>4 DEF TaskCreated, BornSteps
  <2> QED
    BY <2>3, <2>4 DEF LedgerOf
<1>5. CASE TaskReclaimed(t) \/ TaskGranted(t)
  BY <1>5 DEF TaskReclaimed, TaskGranted, StepsKept, LedgerOf
<1>6. CASE TaskRequeued(t)
  BY <1>6 DEF TaskRequeued, Rewound, LedgerOf
<1>7. CASE TaskStarted(t)
  <2>1. PICK s \in StepSeq : /\ steps[t][s] = "pending"
                             /\ steps'[t] = [steps[t] EXCEPT ![s] = "running"]
    BY <1>7 DEF TaskStarted, IsFirst, PendingSteps
  <2>2. logs'[t] = logs[t]
    BY <1>7 DEF TaskStarted
  <2> QED
    BY <1>1, <2>1, <2>2 DEF LedgerOf
<1>8. CASE TaskReported(t)
  <2>1. PICK s \in StepSeq, outcome \in Outcome :
               /\ steps[t][s] = "running"
               /\ steps'[t] = StepsAfterReport(t, s, outcome)
               /\ logs'[t] = [logs[t] EXCEPT ![s] = outcome]
    BY <1>8 DEF TaskReported
  <2>2. ASSUME NEW q \in StepSeq
        PROVE  /\ logs'[t][q] = "success" <=> steps'[t][q] = "done"
               /\ logs'[t][q] = "failure" <=> steps'[t][q] = "failed"
    <3>1. CASE q = s
      BY <1>1, <2>1, <3>1 DEF StepsAfterReport, Outcome
    <3>2. CASE q # s
      <4>1. logs'[t][q] = logs[t][q]
        BY <1>1, <2>1, <3>2
      <4>2. \/ steps'[t][q] = steps[t][q]
            \/ steps[t][q] = "pending" /\ steps'[t][q] = "running"
        BY <2>1, <3>2 DEF StepsAfterReport
      <4> QED
        BY <4>1, <4>2 DEF LedgerOf
    <3> QED
      BY <3>1, <3>2
  <2> QED
    BY <2>2 DEF LedgerOf
<1>9. CASE TaskWiped(t)
  BY <1>2, <1>9 DEF TaskWiped, NoSteps, NoLogs, LedgerOf
<1> QED
  BY <1>3, <1>4, <1>5, <1>6, <1>7, <1>8, <1>9 DEF TaskChange, TaskKept

StepInv == CredentialInv /\ StepsFollowTask /\ LedgerAgrees

THEOREM StepInit == Init => StepInv
<1>1. Init => StepsFollowTask /\ LedgerAgrees
  BY NullAssumption DEF Init, StepsFollowTask, StepsFollow, StepsInOrder, SomeStep, Exists,
     LedgerAgrees, NoTask, NoSteps, NoLogs
<1> QED
  BY <1>1, CredentialInit DEF StepInv

THEOREM StepNext == StepInv /\ [BoardStep]_vars => StepInv'
<1> SUFFICES ASSUME StepInv, [BoardStep]_vars PROVE StepInv'
  OBVIOUS
<1>1. TypeOK /\ UnusedIds /\ \A t \in TaskId : StepsFollow(t) /\ LedgerOf(t)
  BY DEF StepInv, CredentialInv, StepsFollowTask, LedgerAgrees, LedgerOf
<1>2. \A t \in TaskId : TaskChange(t)
  BY <1>1, NextChange
<1>3. StepsFollowTask'
  BY <1>1, <1>2, ChangeKeepsOrder DEF StepsFollowTask
<1>4. \A t \in TaskId : LedgerOf(t)'
  BY <1>1, <1>2, ChangeKeepsLedger
<1>5. LedgerAgrees'
  BY <1>4 DEF LedgerAgrees, LedgerOf
<1> QED
  BY <1>3, <1>5, CredentialNext DEF StepInv

THEOREM StepInvHolds == Spec => []StepInv
BY StepInit, StepNext, NextIsStep, PTL DEF Spec

(* The steps of a task run strictly in order, and its row says where it is. *)
THEOREM StepsCorrect == Spec => []StepsFollowTask
<1>1. StepInv => StepsFollowTask
  BY DEF StepInv
<1> QED
  BY <1>1, StepInvHolds, PTL

(* The execution log holds exactly the reports of the finished steps.      *)
THEOREM LedgerCorrect == Spec => []LedgerAgrees
<1>1. StepInv => LedgerAgrees
  BY DEF StepInv
<1> QED
  BY <1>1, StepInvHolds, PTL

-----------------------------------------------------------------------------
(* What no step may do.                                                    *)

(* A task is created under an id that had no row before.                   *)
LEMMA CreatedFresh ==
  ASSUME StepInv, NEW t \in TaskId, TaskCreated(t)
  PROVE  /\ tasks[t] = NoTask
         /\ \A s \in StepSeq : logs[t][s] = NULL
<1>1. tasks[t] = NoTask
  BY DEF TaskCreated, StepInv, CredentialInv, UnusedIds, TaskId
<1>2. \A s \in StepSeq : steps[t][s] = "absent"
  BY <1>1 DEF StepInv, StepsFollowTask, StepsFollow, Exists, NoTask, NoSteps
<1>3. \A s \in StepSeq : logs[t][s] \in Outcome \cup {NULL}
  BY DEF StepInv, CredentialInv, TypeOK
<1>4. \A s \in StepSeq : logs[t][s] # "success" /\ logs[t][s] # "failure"
  BY <1>2 DEF StepInv, LedgerAgrees
<1> QED
  BY <1>1, <1>3, <1>4 DEF Outcome

(* A credential that was taken away is dead for good.                      *)
THEOREM CredentialsDie == Spec => CredentialsNeverReturn
<1>1. ASSUME StepInv, [BoardStep]_vars, NEW t \in TaskId,
             tasks'[t].claim_token \notin {NULL, tasks[t].claim_token}
      PROVE  tasks'[t].claim_token >= nextToken /\ tasks'[t].claim_token < nextToken'
  <2>1. TypeOK /\ nextToken \in Nat
    BY <1>1, BoundsAssumption DEF StepInv, CredentialInv, TypeOK
  <2>2. tasks'[t].claim_token = nextToken /\ nextToken' = nextToken + 1
    BY <1>1, <2>1, NextChange, RowToken
  <2> QED
    BY <2>1, <2>2
<1>2. StepInv /\ [BoardStep]_vars =>
        [\A t \in TaskId :
           tasks'[t].claim_token \notin {NULL, tasks[t].claim_token}
           => tasks'[t].claim_token >= nextToken /\ tasks'[t].claim_token < nextToken']_vars
  BY <1>1
<1> QED
  BY <1>2, StepInvHolds, NextIsStep, PTL DEF Spec, CredentialsNeverReturn

(* A holder loses its task to the operator, or unstarted after its deadline. *)
LEMMA HolderKept ==
  ASSUME StepInv, [BoardStep]_vars, NEW t \in TaskId, Survives(t),
         tasks[t].claim_token # NULL, tasks'[t].claim_token # tasks[t].claim_token
  PROVE  \/ audit'[t]["manual_requeue"] > audit[t]["manual_requeue"]
         \/ /\ tasks[t].status = "claimed" /\ tasks[t].lease_expires_at < clock
            /\ audit'[t]["lease_reclaim"] > audit[t]["lease_reclaim"]
<1>1. TypeOK /\ tasks[t] \in TaskRow
  BY DEF StepInv, CredentialInv, TypeOK
<1>2. TaskChange(t)
  BY <1>1, NextChange
<1>3. audit[t]["manual_requeue"] \in Nat /\ audit[t]["lease_reclaim"] \in Nat
  BY <1>1 DEF TypeOK, Event
<1>4. CASE TaskCreated(t)
  BY <1>4, CreatedFresh DEF NoTask
<1>5. CASE TaskReclaimed(t)
  BY <1>3, <1>5 DEF TaskReclaimed, Expired, Logged, Event
<1>6. CASE TaskRequeued(t)
  BY <1>3, <1>6 DEF TaskRequeued, Logged, Event
<1>7. CASE TaskGranted(t)
  BY <1>3, <1>7 DEF TaskGranted, Unclaimed, Expired, Logged, Event
<1>8. CASE TaskStarted(t)
  BY <1>1, <1>8 DEF TaskStarted, Started, TaskRow
<1>9. CASE TaskReported(t)
  BY <1>1, <1>9 DEF TaskReported, TaskAfterReport, TaskRow
<1>10. CASE TaskWiped(t)
  BY <1>10 DEF TaskWiped, Survives, NoTask
<1> QED
  BY <1>2, <1>4, <1>5, <1>6, <1>7, <1>8, <1>9, <1>10 DEF TaskChange, TaskKept

THEOREM HoldersAreSafe == Spec => HoldersKeepTheirTask
<1>1. StepInv /\ [BoardStep]_vars =>
        [\A t \in TaskId :
           Survives(t) /\ tasks[t].claim_token # NULL
                      /\ tasks'[t].claim_token # tasks[t].claim_token
           => \/ audit'[t]["manual_requeue"] > audit[t]["manual_requeue"]
              \/ /\ tasks[t].status = "claimed" /\ tasks[t].lease_expires_at < clock
                 /\ audit'[t]["lease_reclaim"] > audit[t]["lease_reclaim"]]_vars
  BY HolderKept
<1> QED
  BY <1>1, StepInvHolds, NextIsStep, PTL DEF Spec, HoldersKeepTheirTask

LEMMA SnapshotKept ==
  ASSUME StepInv, [BoardStep]_vars, NEW t \in TaskId, Survives(t), tasks[t].snapshot # NULL
  PROVE  tasks'[t].snapshot = tasks[t].snapshot
<1>1. TypeOK /\ tasks[t] \in TaskRow
  BY DEF StepInv, CredentialInv, TypeOK
<1>2. TaskChange(t)
  BY <1>1, NextChange
<1>3. CASE TaskCreated(t)
  BY <1>3, CreatedFresh DEF NoTask
<1>4. CASE TaskReclaimed(t) \/ TaskRequeued(t)
  BY <1>1, <1>4 DEF TaskReclaimed, TaskRequeued, Released, TaskRow
<1>5. CASE TaskGranted(t)
  BY <1>1, <1>5 DEF TaskGranted, Claimed, Released, TaskRow
<1>6. CASE TaskStarted(t)
  BY <1>1, <1>6 DEF TaskStarted, Started, GroupParameters, TaskRow
<1>7. CASE TaskReported(t)
  BY <1>1, <1>7 DEF TaskReported, TaskAfterReport, TaskRow
<1>8. CASE TaskWiped(t)
  BY <1>8 DEF TaskWiped, Survives, NoTask
<1> QED
  BY <1>2, <1>3, <1>4, <1>5, <1>6, <1>7, <1>8 DEF TaskChange, TaskKept

(* The parameters a task was first started with are never replaced.        *)
THEOREM SnapshotIsFrozen == Spec => SnapshotFrozen
<1>1. StepInv /\ [BoardStep]_vars =>
        [\A t \in TaskId :
           Survives(t) /\ tasks[t].snapshot # NULL
           => tasks'[t].snapshot = tasks[t].snapshot]_vars
  BY SnapshotKept
<1> QED
  BY <1>1, StepInvHolds, NextIsStep, PTL DEF Spec, SnapshotFrozen

LEMMA ReportKept ==
  ASSUME StepInv, [BoardStep]_vars, NEW t \in TaskId, NEW s \in StepSeq,
         Survives(t), logs[t][s] # NULL
  PROVE  logs'[t][s] = logs[t][s] /\ steps'[t][s] = steps[t][s]
<1>1. TypeOK /\ tasks[t] \in TaskRow
  BY DEF StepInv, CredentialInv, TypeOK
<1>2. TaskChange(t)
  BY <1>1, NextChange
<1>3. steps[t][s] \in {"done", "failed"}
  BY <1>1 DEF StepInv, LedgerAgrees, TypeOK, Outcome
<1>4. /\ steps[t] \in [StepSeq -> StepStatus \cup {"absent"}]
      /\ logs[t] \in [StepSeq -> Outcome \cup {NULL}]
  BY <1>1 DEF TypeOK
<1>5. CASE TaskCreated(t)
  BY <1>5, CreatedFresh
<1>6. CASE TaskReclaimed(t) \/ TaskGranted(t)
  BY <1>6 DEF TaskReclaimed, TaskGranted, StepsKept
<1>7. CASE TaskRequeued(t)
  BY <1>3, <1>7 DEF TaskRequeued, Rewound
<1>8. CASE TaskStarted(t)
  BY <1>3, <1>4, <1>8 DEF TaskStarted, IsFirst, PendingSteps
<1>9. CASE TaskReported(t)
  BY <1>3, <1>4, <1>9 DEF TaskReported, StepsAfterReport
<1>10. CASE TaskWiped(t)
  BY <1>10 DEF TaskWiped, Survives, NoTask
<1> QED
  BY <1>2, <1>5, <1>6, <1>7, <1>8, <1>9, <1>10 DEF TaskChange, TaskKept, StepsKept

(* What a step was first reported as is never rewritten, and a reported    *)
(* step is never executed again.                                           *)
THEOREM FirstReportStands == Spec => FirstWriteWins
<1>1. StepInv /\ [BoardStep]_vars =>
        [\A t \in TaskId, s \in StepSeq :
           Survives(t) /\ logs[t][s] # NULL
           => logs'[t][s] = logs[t][s] /\ steps'[t][s] = steps[t][s]]_vars
  BY ReportKept
<1> QED
  BY <1>1, StepInvHolds, NextIsStep, PTL DEF Spec, FirstWriteWins

LEMMA TerminalKept ==
  ASSUME StepInv, [BoardStep]_vars, NEW t \in TaskId, Survives(t),
         tasks[t].status \in {"done", "failed"}
  PROVE  tasks'[t] = tasks[t] /\ steps'[t] = steps[t]
<1>1. TaskChange(t)
  BY NextChange DEF StepInv, CredentialInv
<1>2. ~TaskCreated(t)
  BY CreatedFresh DEF NoTask
<1>3. ~TaskReclaimed(t) /\ ~TaskRequeued(t) /\ ~TaskStarted(t) /\ ~TaskReported(t)
  BY DEF TaskReclaimed, TaskRequeued, TaskStarted, TaskReported, Expired
<1>4. ~TaskGranted(t)
  BY DEF TaskGranted, Unclaimed, Expired
<1>5. ~TaskWiped(t)
  BY DEF TaskWiped, Survives, NoTask
<1> QED
  BY <1>1, <1>2, <1>3, <1>4, <1>5 DEF TaskChange, TaskKept, StepsKept

(* Done and failed are final.                                              *)
THEOREM TerminalStays == Spec => TerminalIsFinal
<1>1. StepInv /\ [BoardStep]_vars =>
        [\A t \in TaskId :
           Survives(t) /\ tasks[t].status \in {"done", "failed"}
           => tasks'[t] = tasks[t] /\ steps'[t] = steps[t]]_vars
  BY TerminalKept
<1> QED
  BY <1>1, StepInvHolds, NextIsStep, PTL DEF Spec, TerminalIsFinal

-----------------------------------------------------------------------------
(* The operations ledger and the snapshot.                                 *)

Reported(t) == {s \in StepSeq : logs[t][s] # NULL}

BalanceOf(t) ==
  /\ Grants(t) = audit[t]["lease_reclaim"] + audit[t]["manual_requeue"] + Held(t)
  /\ audit[t]["start"] + audit[t]["lease_reclaim"] + Unstarted(t) <= Grants(t)
  /\ audit[t]["step_report"] = Cardinality(Reported(t))

FrozenOf(t) ==
  /\ tasks[t].snapshot # NULL <=> audit[t]["start"] > 0
  /\ tasks[t].status \in {"running", "done", "failed"} => tasks[t].snapshot # NULL

LEMMA ReportedFinite ==
  ASSUME NEW t \in TaskId PROVE IsFiniteSet(Reported(t))
<1>1. IsFiniteSet(StepSeq)
  BY FS_Interval, BoundsAssumption DEF StepSeq
<1> QED
  BY <1>1, FS_Subset DEF Reported

LEMMA BalanceKept ==
  ASSUME StepInv, NEW t \in TaskId, BalanceOf(t), TaskChange(t)
  PROVE  BalanceOf(t)'
<1>1. TypeOK /\ tasks[t] \in TaskRow /\ ColumnsAgree(tasks[t]) /\ ColumnsAgree(tasks'[t])
  BY RowColumns DEF StepInv, CredentialInv, TypeOK, ClaimColumnsAgree
<1>2. /\ audit[t]["claim"] \in Nat /\ audit[t]["lease_reclaim"] \in Nat
      /\ audit[t]["manual_requeue"] \in Nat /\ audit[t]["start"] \in Nat
      /\ audit[t]["step_report"] \in Nat /\ audit[t]["task_created_held"] \in Nat
  BY <1>1 DEF TypeOK, Event
<1>3. CASE TaskKept(t)
  <2>1. Reported(t)' = Reported(t)
    BY <1>3 DEF TaskKept, StepsKept, Reported
  <2> QED
    BY <1>3, <2>1 DEF TaskKept, Logged, Event, BalanceOf, Grants, Held, Unstarted
<1>4. CASE TaskCreated(t)
  <2>1. Reported(t)' = Reported(t)
    BY <1>4 DEF TaskCreated, Reported
  <2>2. Held(t) = 0 /\ Unstarted(t) = 0
    BY <1>4, CreatedFresh DEF NoTask, Held, Unstarted
  <2>3. \/ Held(t)' = 0 /\ Unstarted(t)' = 0 /\ Logged(t, {"task_created"})
        \/ Held(t)' = 1 /\ Unstarted(t)' = 1 /\ Logged(t, {"task_created_held"})
    BY <1>4, CreatedRow, NullAssumption DEF Held, Unstarted, Token
  <2>4. CASE Held(t)' = 0 /\ Unstarted(t)' = 0 /\ Logged(t, {"task_created"})
    BY <1>2, <2>1, <2>2, <2>4 DEF Logged, Event, BalanceOf, Grants
  <2>5. CASE Held(t)' = 1 /\ Unstarted(t)' = 1 /\ Logged(t, {"task_created_held"})
    BY <1>2, <2>1, <2>2, <2>5 DEF Logged, Event, BalanceOf, Grants
  <2> QED
    BY <2>3, <2>4, <2>5
<1>5. CASE TaskReclaimed(t)
  <2>1. Reported(t)' = Reported(t)
    BY <1>5 DEF TaskReclaimed, StepsKept, Reported
  <2>2. Held(t) = 1 /\ Unstarted(t) = 1 /\ Held(t)' = 0 /\ Unstarted(t)' = 0
    BY <1>1, <1>5 DEF TaskReclaimed, Expired, Released, TaskRow, ColumnsAgree, Held, Unstarted
  <2> QED
    BY <1>2, <1>5, <2>1, <2>2 DEF TaskReclaimed, Logged, Event, BalanceOf, Grants
<1>6. CASE TaskRequeued(t)
  <2>1. Reported(t)' = Reported(t)
    BY <1>6 DEF TaskRequeued, Reported
  <2>2. Held(t) = 1 /\ Unstarted(t) \in {0, 1} /\ Held(t)' = 0 /\ Unstarted(t)' = 0
    BY <1>1, <1>6 DEF TaskRequeued, Released, TaskRow, ColumnsAgree, Held, Unstarted
  <2> QED
    BY <1>2, <1>6, <2>1, <2>2 DEF TaskRequeued, Logged, Event, BalanceOf, Grants
<1>7. CASE TaskGranted(t)
  <2>1. Reported(t)' = Reported(t)
    BY <1>7 DEF TaskGranted, StepsKept, Reported
  <2>2. nextToken # NULL
    BY <1>7, NullAssumption DEF TaskGranted, Token
  <2>3. tasks'[t].claim_token = nextToken /\ tasks'[t].status = "claimed"
    BY <1>1, <1>7 DEF TaskGranted, Claimed, Released, TaskRow
  <2>4. Held(t)' = 1 /\ Unstarted(t)' = 1
    BY <2>2, <2>3 DEF Held, Unstarted
  <2>5. CASE Unclaimed(tasks[t]) /\ Logged(t, {"claim"})
    <3>1. Held(t) = 0 /\ Unstarted(t) = 0
      BY <2>5 DEF Unclaimed, Held, Unstarted
    <3> QED
      BY <1>2, <2>1, <2>4, <2>5, <3>1 DEF Logged, Event, BalanceOf, Grants
  <2>6. CASE Expired(t) /\ Logged(t, {"claim", "lease_reclaim"})
    <3>1. Held(t) = 1 /\ Unstarted(t) = 1
      BY <1>1, <2>6 DEF Expired, ColumnsAgree, Held, Unstarted
    <3> QED
      BY <1>2, <2>1, <2>4, <2>6, <3>1 DEF Logged, Event, BalanceOf, Grants
  <2> QED
    BY <1>7, <2>5, <2>6 DEF TaskGranted
<1>8. CASE TaskStarted(t)
  <2>1. Reported(t)' = Reported(t)
    BY <1>8 DEF TaskStarted, Reported
  <2>2. Unstarted(t) = 1 /\ Unstarted(t)' = 0 /\ Held(t)' = Held(t) /\ Held(t) \in {0, 1}
    BY <1>1, <1>8 DEF TaskStarted, Started, TaskRow, Held, Unstarted
  <2> QED
    BY <1>2, <1>8, <2>1, <2>2 DEF TaskStarted, Logged, Event, BalanceOf, Grants
<1>9. CASE TaskReported(t)
  <2>1. PICK s \in StepSeq, outcome \in Outcome :
               /\ logs[t][s] = NULL
               /\ tasks'[t] = TaskAfterReport(t, s, outcome)
               /\ logs'[t] = [logs[t] EXCEPT ![s] = outcome]
    BY <1>9 DEF TaskReported
  <2>2. Reported(t)' = Reported(t) \cup {s} /\ s \notin Reported(t)
    BY <1>1, <2>1, NullAssumption DEF Reported, TypeOK, Outcome
  <2>3. /\ Cardinality(Reported(t)) \in Nat
        /\ Cardinality(Reported(t)') = Cardinality(Reported(t)) + 1
    BY <2>2, ReportedFinite, FS_AddElement, FS_CardinalityType
  <2>4. /\ Unstarted(t) = 0 /\ Unstarted(t)' = 0
        /\ Held(t)' = Held(t) /\ Held(t) \in {0, 1}
    BY <1>1, <1>9, <2>1 DEF TaskReported, TaskAfterReport, TaskRow, Held, Unstarted
  <2> QED
    BY <1>2, <1>9, <2>3, <2>4 DEF TaskReported, Logged, Event, BalanceOf, Grants
<1>10. CASE TaskWiped(t)
  <2>1. Reported(t)' = {}
    BY <1>10 DEF TaskWiped, NoLogs, Reported
  <2> QED
    BY <1>10, <2>1, FS_EmptySet
       DEF TaskWiped, NoTask, NoAudit, Event, BalanceOf, Grants, Held, Unstarted
<1> QED
  BY <1>3, <1>4, <1>5, <1>6, <1>7, <1>8, <1>9, <1>10 DEF TaskChange

LEMMA FrozenKept ==
  ASSUME StepInv, NEW t \in TaskId, FrozenOf(t), TaskChange(t)
  PROVE  FrozenOf(t)'
<1>1. TypeOK /\ tasks[t] \in TaskRow /\ audit[t]["start"] \in Nat
  BY DEF StepInv, CredentialInv, TypeOK, Event
<1>2. CASE TaskKept(t)
  BY <1>2 DEF TaskKept, Logged, Event, FrozenOf
<1>3. CASE TaskCreated(t)
  <2>1. audit'[t]["start"] = audit[t]["start"] /\ tasks[t].snapshot = NULL
    BY <1>3, CreatedRow, CreatedFresh DEF Logged, Event, NoTask
  <2> QED
    BY <1>3, <2>1, CreatedRow DEF FrozenOf
<1>4. CASE TaskReclaimed(t) \/ TaskRequeued(t)
  BY <1>1, <1>4 DEF TaskReclaimed, TaskRequeued, Released, TaskRow, Logged, Event, FrozenOf
<1>5. CASE TaskGranted(t)
  BY <1>1, <1>5 DEF TaskGranted, Claimed, Released, TaskRow, Logged, Event, FrozenOf
<1>6. CASE TaskStarted(t)
  <2>1. GroupParameters(t) # NULL
    BY <1>6, NullAssumption DEF TaskStarted
  <2> QED
    BY <1>1, <1>6, <2>1 DEF TaskStarted, Started, TaskRow, Logged, Event, FrozenOf
<1>7. CASE TaskReported(t)
  BY <1>1, <1>7 DEF TaskReported, TaskAfterReport, TaskRow, Logged, Event, FrozenOf
<1>8. CASE TaskWiped(t)
  BY <1>8 DEF TaskWiped, NoTask, NoAudit, Event, FrozenOf
<1> QED
  BY <1>2, <1>3, <1>4, <1>5, <1>6, <1>7, <1>8 DEF TaskChange

(* Groups disappear in a reset only, which takes every task along.         *)
GroupsKnown == \A t \in TaskId : tasks[t].group_id # NULL => groups[tasks[t].group_id] # NULL

LEMMA GroupsStay ==
  ASSUME TypeOK, [BoardStep]_vars
  PROVE  ResetAll \/ \A g \in GroupId : groups[g] # NULL => groups'[g] # NULL
<1>1. ASSUME NEW params \in Overrides, CreateGroup(params)
      PROVE  \A g \in GroupId : groups[g] # NULL => groups'[g] # NULL
  BY <1>1, NullAssumption DEF CreateGroup, TypeOK
<1>2. ASSUME NEW params \in Overrides, NEW h \in GroupId, UpdateGroup(h, params)
      PROVE  \A g \in GroupId : groups[g] # NULL => groups'[g] # NULL
  BY <1>2, NullAssumption DEF UpdateGroup, TypeOK
<1>3. ASSUME NEW g \in GroupId \cup {NULL}, NEW n \in StepSeq, CreateTask(g, n)
      PROVE  groups' = groups
  BY <1>3 DEF CreateTask
<1>4. ASSUME NEW g \in GroupId, NEW n \in StepSeq, NEW lease \in Leases,
             SeedRunning(g, n, lease)
      PROVE  groups' = groups
  BY <1>4 DEF SeedRunning
<1>5. CASE Claiming \/ AnyClaim
  BY <1>5 DEF Claiming, AnyClaim, ClaimNextTask, ClaimTask, ClaimNothing
<1>6. ASSUME NEW u \in TaskId, NEW w \in Workers, NEW token \in Token,
             HolderRequest(u, w, token)
      PROVE  groups' = groups
  BY <1>6 DEF HolderRequest, StartTask, RetryStart, CompleteStep, DuplicateReport, vars
<1>7. CASE \E u \in TaskId : RequeueTask(u)
  BY <1>7 DEF RequeueTask
<1>8. CASE Tick \/ ClockSetBack \/ UNCHANGED vars
  BY <1>8 DEF Tick, ClockSetBack, vars
<1> QED
  BY <1>1, <1>2, <1>3, <1>4, <1>5, <1>6, <1>7, <1>8 DEF Next, BoardStep

(* A task keeps its group, and a new task has one that exists.             *)
LEMMA GroupOfTask ==
  ASSUME TypeOK, NEW t \in TaskId, TaskChange(t)
  PROVE  \/ tasks'[t].group_id \in {NULL, tasks[t].group_id}
         \/ tasks'[t].group_id \in GroupId /\ groups[tasks'[t].group_id] # NULL
<1>1. tasks[t] \in TaskRow
  BY DEF TypeOK
<1>2. CASE TaskKept(t)
  BY <1>2 DEF TaskKept
<1>3. CASE TaskCreated(t)
  BY <1>3, CreatedRow
<1>4. CASE TaskReclaimed(t) \/ TaskRequeued(t)
  BY <1>1, <1>4 DEF TaskReclaimed, TaskRequeued, Released, TaskRow
<1>5. CASE TaskGranted(t)
  BY <1>1, <1>5 DEF TaskGranted, Claimed, Released, TaskRow
<1>6. CASE TaskStarted(t)
  BY <1>1, <1>6 DEF TaskStarted, Started, TaskRow
<1>7. CASE TaskReported(t)
  BY <1>1, <1>7 DEF TaskReported, TaskAfterReport, TaskRow
<1>8. CASE TaskWiped(t)
  BY <1>8 DEF TaskWiped, NoTask
<1> QED
  BY <1>2, <1>3, <1>4, <1>5, <1>6, <1>7, <1>8 DEF TaskChange

LEMMA GroupsKnownKept ==
  ASSUME TypeOK, GroupsKnown, [BoardStep]_vars
  PROVE  GroupsKnown'
<1>1. CASE ResetAll
  BY <1>1 DEF ResetAll, GroupsKnown, NoTask
<1>2. CASE \A g \in GroupId : groups[g] # NULL => groups'[g] # NULL
  <2> SUFFICES ASSUME NEW t \in TaskId, tasks'[t].group_id # NULL
               PROVE  groups'[tasks'[t].group_id] # NULL
    BY DEF GroupsKnown
  <2>1. \/ tasks'[t].group_id = tasks[t].group_id
        \/ tasks'[t].group_id \in GroupId /\ groups[tasks'[t].group_id] # NULL
    BY NextChange, GroupOfTask
  <2>2. tasks[t].group_id # NULL =>
          tasks[t].group_id \in GroupId /\ groups[tasks[t].group_id] # NULL
    BY DEF GroupsKnown, TypeOK, TaskRow
  <2> QED
    BY <1>2, <2>1, <2>2
<1> QED
  BY <1>1, <1>2, GroupsStay

BoardInv == StepInv /\ GroupsKnown /\ AuditBalances /\ FrozenFromFirstStart

THEOREM BoardInit == Init => BoardInv
<1> SUFFICES ASSUME Init PROVE BoardInv
  OBVIOUS
<1>1. GroupsKnown /\ FrozenFromFirstStart
  BY DEF Init, GroupsKnown, FrozenFromFirstStart, NoTask, NoAudit, Event
<1>2. AuditBalances
  <2> SUFFICES ASSUME NEW t \in TaskId PROVE BalanceOf(t)
    BY DEF AuditBalances, BalanceOf, Reported
  <2>1. Reported(t) = {}
    BY DEF Init, NoLogs, Reported
  <2> QED
    BY <2>1, FS_EmptySet DEF Init, NoTask, NoAudit, Event, BalanceOf, Grants, Held, Unstarted
<1> QED
  BY <1>1, <1>2, StepInit DEF BoardInv

THEOREM BoardNext == BoardInv /\ [BoardStep]_vars => BoardInv'
<1> SUFFICES ASSUME BoardInv, [BoardStep]_vars PROVE BoardInv'
  OBVIOUS
<1>1. /\ StepInv /\ TypeOK /\ GroupsKnown
      /\ \A t \in TaskId : BalanceOf(t) /\ FrozenOf(t) /\ TaskChange(t)
  BY NextChange DEF BoardInv, StepInv, CredentialInv, AuditBalances, BalanceOf, Reported,
     FrozenFromFirstStart, FrozenOf
<1>2. \A t \in TaskId : BalanceOf(t)' /\ FrozenOf(t)'
  BY <1>1, BalanceKept, FrozenKept
<1>3. AuditBalances' /\ FrozenFromFirstStart'
  BY <1>2 DEF AuditBalances, BalanceOf, Reported, FrozenFromFirstStart, FrozenOf
<1> QED
  BY <1>1, <1>3, StepNext, GroupsKnownKept DEF BoardInv

THEOREM BoardInvHolds == Spec => []BoardInv
BY BoardInit, BoardNext, NextIsStep, PTL DEF Spec

(* The operations ledger balances against the tables.                      *)
THEOREM AuditCorrect == Spec => []AuditBalances
<1>1. BoardInv => AuditBalances
  BY DEF BoardInv
<1> QED
  BY <1>1, BoardInvHolds, PTL

(* The L2 override is frozen at the first start and not before.            *)
THEOREM FrozenCorrect == Spec => []FrozenFromFirstStart
<1>1. BoardInv => FrozenFromFirstStart
  BY DEF BoardInv
<1> QED
  BY <1>1, BoardInvHolds, PTL

(* Whoever claims a task can start it.                                     *)
THEOREM ClaimsAreStartable == Spec => []ClaimedIsStartable
<1>1. ASSUME BoardInv, NEW t \in TaskId, tasks[t].status = "claimed"
      PROVE  GroupParameters(t) # NULL /\ PendingSteps(t) # {}
  <2>1. SomeStep(t, "pending")
    BY <1>1 DEF BoardInv, StepInv, StepsFollowTask, StepsFollow
  <2>2. GroupParameters(t) # NULL
    BY <1>1, NullAssumption DEF BoardInv, GroupsKnown, GroupParameters
  <2> QED
    BY <2>1, <2>2 DEF SomeStep, PendingSteps
<1>2. BoardInv => ClaimedIsStartable
  BY <1>1 DEF ClaimedIsStartable
<1> QED
  BY <1>2, BoardInvHolds, PTL
-----------------------------------------------------------------------------
(* What the steps of the board do to a task that has been handed out.      *)

LEMMA BoardParts ==
  ASSUME BoardInv
  PROVE  /\ StepInv /\ CredentialInv /\ TypeOK /\ UnusedIds /\ TokensUnique
         /\ nextTask \in Nat /\ nextToken \in Nat /\ clock \in Nat
         /\ \A t \in TaskId :
              /\ tasks[t] \in TaskRow
              /\ steps[t] \in [StepSeq -> StepStatus \cup {"absent"}]
              /\ logs[t] \in [StepSeq -> Outcome \cup {NULL}]
              /\ \A e \in Event : audit[t][e] \in Nat
              /\ audit[t]["manual_requeue"] \in Nat
              /\ tasks[t].claim_token # NULL => Exists(t)
              /\ StepsFollow(t) /\ LedgerOf(t)
  <1>1. StepInv /\ CredentialInv /\ TypeOK /\ UnusedIds /\ TokensUnique
    BY DEF BoardInv, StepInv, CredentialInv
  <1>2. nextTask \in Nat /\ nextToken \in Nat /\ clock \in Nat
    BY <1>1, BoundsAssumption DEF TypeOK
  <1>3. ASSUME NEW t \in TaskId
        PROVE  /\ tasks[t] \in TaskRow
               /\ steps[t] \in [StepSeq -> StepStatus \cup {"absent"}]
               /\ logs[t] \in [StepSeq -> Outcome \cup {NULL}]
               /\ \A e \in Event : audit[t][e] \in Nat
    BY <1>1 DEF TypeOK
  <1>4. ASSUME NEW t \in TaskId
        PROVE  /\ tasks[t].claim_token # NULL => Exists(t)
               /\ StepsFollow(t) /\ LedgerOf(t)
    BY <1>1 DEF StepInv, CredentialInv, ClaimColumnsAgree, ColumnsAgree, Exists,
       StepsFollowTask, LedgerAgrees, LedgerOf
  <1>5. QED
    BY <1>1, <1>2, <1>3, <1>4 DEF Event

(* A row that is there after a step, and has been handed out, was there    *)
(* before it, and its entries in the operations ledger only grow in number. *)
LEMMA RowWasThere ==
  ASSUME BoardInv, NEW t \in TaskId, TaskChange(t), t < nextTask, Exists(t)'
  PROVE  /\ Exists(t)
         /\ \A e \in Event : audit[t][e] <= audit'[t][e]
         /\ audit[t]["manual_requeue"] <= audit'[t]["manual_requeue"]
  <1>1. ~TaskCreated(t)
    BY BoardParts DEF TaskCreated
  <1>2. ~TaskWiped(t)
    BY DEF TaskWiped, Exists, NoTask
  <1>3. \A e \in Event : audit[t][e] \in Nat
    BY BoardParts
  <1>4. \A events : Logged(t, events) => \A e \in Event : audit[t][e] <= audit'[t][e]
    BY <1>3 DEF Logged
  <1>5. Exists(t)
    BY <1>1, <1>2 DEF TaskChange, TaskKept, TaskReclaimed, TaskRequeued, TaskGranted,
       TaskStarted, TaskReported, Unclaimed, Expired, Exists
  <1>6. \A e \in Event : audit[t][e] <= audit'[t][e]
    BY <1>1, <1>2, <1>4 DEF TaskChange, TaskKept, TaskReclaimed, TaskRequeued, TaskGranted,
       TaskStarted, TaskReported
  <1>7. QED
    BY <1>5, <1>6 DEF Event

(* No row has the token that the generator returns next.                   *)
LEMMA NobodyHasTheNext ==
  ASSUME BoardInv, NEW t \in TaskId
  PROVE  tasks[t].claim_token # nextToken
  <1>1. CASE tasks[t].claim_token # NULL
    <2>1. tasks[t].claim_token \in Token /\ tasks[t].claim_token < nextToken
      BY <1>1, BoardParts DEF TokensUnique, TaskRow
    <2>2. QED
      BY <2>1, BoundsAssumption, BoardParts DEF Token
  <1>2. CASE tasks[t].claim_token = NULL
    BY <1>2, NullAssumption, BoardParts
  <1>3. QED
    BY <1>1, <1>2

(* Whoever keeps the token keeps the task under its name.                  *)
LEMMA HolderSame ==
  ASSUME BoardInv, NEW t \in TaskId, TaskChange(t),
         tasks[t].claim_token # NULL, tasks'[t].claim_token = tasks[t].claim_token
  PROVE  tasks'[t].claimed_by = tasks[t].claimed_by
  <1>1. tasks[t] \in TaskRow
    BY BoardParts
  <1>2. tasks[t].claim_token # nextToken
    BY NobodyHasTheNext
  <1>3. CASE TaskCreated(t)
    BY <1>3, BoardParts, CreatedFresh DEF NoTask
  <1>4. CASE TaskReclaimed(t) \/ TaskRequeued(t)
    BY <1>1, <1>4 DEF TaskReclaimed, TaskRequeued, Released, TaskRow
  <1>5. CASE TaskGranted(t)
    BY <1>1, <1>2, <1>5 DEF TaskGranted, Claimed, Released, TaskRow
  <1>6. CASE TaskStarted(t)
    BY <1>1, <1>6 DEF TaskStarted, Started, TaskRow
  <1>7. CASE TaskReported(t)
    BY <1>1, <1>7 DEF TaskReported, TaskAfterReport, TaskRow
  <1>8. CASE TaskWiped(t)
    BY <1>8 DEF TaskWiped, NoTask
  <1>9. QED
    BY <1>3, <1>4, <1>5, <1>6, <1>7, <1>8 DEF TaskChange, TaskKept

(* Everything but the two requests of a holder.                            *)
Undisturbed(t) ==
  TaskKept(t) \/ TaskCreated(t) \/ TaskReclaimed(t) \/ TaskRequeued(t)
    \/ TaskGranted(t) \/ TaskWiped(t)

LEMMA OpenIsKept ==
  ASSUME BoardInv, NEW t \in TaskId, Undisturbed(t),
         tasks[t].claim_token # NULL, tasks'[t].claim_token = tasks[t].claim_token
  PROVE  tasks'[t] = tasks[t] /\ steps'[t] = steps[t]
  <1>1. tasks[t] \in TaskRow
    BY BoardParts
  <1>2. tasks[t].claim_token # nextToken
    BY NobodyHasTheNext
  <1>3. CASE TaskCreated(t)
    BY <1>3, BoardParts, CreatedFresh DEF NoTask
  <1>4. CASE TaskReclaimed(t) \/ TaskRequeued(t)
    BY <1>1, <1>4 DEF TaskReclaimed, TaskRequeued, Released, TaskRow
  <1>5. CASE TaskGranted(t)
    BY <1>1, <1>2, <1>5 DEF TaskGranted, Claimed, Released, TaskRow
  <1>6. CASE TaskWiped(t)
    BY <1>6 DEF TaskWiped, NoTask
  <1>7. QED
    BY <1>3, <1>4, <1>5, <1>6 DEF Undisturbed, TaskKept, StepsKept

LEMMA NotWorkedOn ==
  ASSUME BoardInv, NEW t \in TaskId, TaskChange(t), logs'[t] = logs[t],
         tasks'[t].status # "running" \/ tasks'[t].status = tasks[t].status
  PROVE  Undisturbed(t)
  <1>1. ~TaskStarted(t)
    BY BoardParts DEF TaskStarted, Started, TaskRow
  <1>2. ~TaskReported(t)
    BY BoardParts, NullAssumption DEF TaskReported, Outcome
  <1>3. QED
    BY <1>1, <1>2 DEF TaskChange, Undisturbed

(* A claim leaves every row where it is, and the steps alone.              *)
LEMMA ClaimRows ==
  ASSUME TypeOK, AnyClaim
  PROVE  /\ UNCHANGED <<clock, nextTask, resetLogged, steps, logs>>
         /\ \A t \in TaskId : Exists(t) => Exists(t)'
  <1>1. PICK w \in Workers, expiry \in Nat : ClaimNextTask(w, expiry)
    BY DEF AnyClaim
  <1>2. UNCHANGED <<clock, nextTask, resetLogged, steps, logs>>
    BY <1>1 DEF ClaimNextTask, ClaimTask, ClaimNothing
  <1>3. ASSUME NEW t \in TaskId
        PROVE  /\ ReclaimExpiredLeases[t] \in TaskRow
               /\ Exists(t) => ReclaimExpiredLeases[t].status # "absent"
    <2>1. tasks[t] \in TaskRow /\ ReclaimExpiredLeases[t] \in TaskRow
      BY ReclaimType DEF TypeOK
    <2>2. Released(tasks[t]).status = "pending"
      BY <2>1 DEF Released, TaskRow
    <2>3. CASE Expired(t)
      BY <2>1, <2>2, <2>3, ReclaimedRow
    <2>4. CASE ~Expired(t)
      BY <2>1, <2>4, ReclaimedRow DEF Exists
    <2>5. QED
      BY <2>3, <2>4
  <1>4. CASE ClaimNothing
    BY <1>2, <1>3, <1>4 DEF ClaimNothing, Exists
  <1>5. ASSUME NEW u \in TaskId, ClaimTask(w, expiry, u), NEW t \in TaskId, Exists(t)
        PROVE  Exists(t)'
    <2>1. tasks' = [ReclaimExpiredLeases EXCEPT ![u] =
                      Claimed(ReclaimExpiredLeases[u], w, expiry)]
      BY <1>5 DEF ClaimTask
    <2>2. Claimed(ReclaimExpiredLeases[u], w, expiry).status = "claimed"
      BY <1>3 DEF Claimed, TaskRow
    <2>3. tasks'[t] = IF t = u THEN Claimed(ReclaimExpiredLeases[u], w, expiry)
                      ELSE ReclaimExpiredLeases[t]
      BY <2>1, ReclaimType
    <2>4. QED
      BY <1>3, <1>5, <2>2, <2>3 DEF Exists
  <1>6. QED
    BY <1>1, <1>2, <1>4, <1>5 DEF ClaimNextTask
=============================================================================
