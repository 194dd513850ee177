---------------------------- MODULE WorkersProofs ----------------------------
(***************************************************************************)
(* The worker processes proved for any number of processes under any       *)
(* worker ids, any number of tasks, steps, leases, crashes, requeues and   *)
(* resets.  What the board promises of itself is taken from                *)
(* TaskBoardProofs: a step of Workers is a BoardStep or leaves the board   *)
(* alone.                                                                  *)
(***************************************************************************)
EXTENDS Workers, TaskBoardRefinement

Unclaiming == {"polling", "claiming", "killed", "aborted"}
Granted    == {"granted", "claimed"}
Working    == {"executing", "performed"}

Opens(p, t) == tasks[t].claim_token = proc[p].token

(* A process has a task with the token it was issued, and this token opens *)
(* no other; or it has nothing.                                            *)
Equipped(p) ==
  /\ proc[p].pc \in Unclaiming =>
       proc[p].task = NULL /\ proc[p].token = NULL /\ proc[p].step = NULL
  /\ proc[p].pc \notin Unclaiming =>
       /\ proc[p].task \in TaskId /\ proc[p].task < nextTask
       /\ proc[p].token \in Token /\ proc[p].token < nextToken
       /\ \A t \in TaskId :
            Opens(p, t) => t = proc[p].task /\ tasks[t].claimed_by = WorkerIdOf[p]

(* Before it starts the task, the claim is as it was granted, or the       *)
(* operator took it, or the clock has been past its deadline.              *)
Waits(p) ==
  LET t == proc[p].task
  IN  proc[p].pc \in Granted =>
        /\ Opens(p, t) => /\ tasks[t].status = "claimed"
                          /\ tasks[t].lease_expires_at = proc[p].deadline
        /\ Exists(t) => \/ Opens(p, t)
                        \/ audit[t]["manual_requeue"] > 0
                        \/ p \in overdue

(* While it executes, its step is the one under way, or the operator took  *)
(* the task.                                                               *)
Executes(p) ==
  LET t == proc[p].task
  IN  proc[p].pc \in Working =>
        /\ proc[p].step \in StepSeq
        /\ Opens(p, t) => tasks[t].status = "running" /\ steps[t][proc[p].step] = "running"
        /\ Exists(t) => Opens(p, t) \/ audit[t]["manual_requeue"] > 0
        /\ proc[p].pc = "performed" => effects[t][proc[p].step] > 0

(* A deadline that has passed now has passed.                              *)
Marked(p) == proc[p].pc \in BeforeStart /\ proc[p].deadline < clock => p \in overdue

ProcessInv(p) == Equipped(p) /\ Waits(p) /\ Executes(p) /\ Marked(p)

(* What a step that leaves the process alone does to overdue.              *)
Noted(p) ==
  proc[p].pc \in BeforeStart =>
    /\ p \in overdue => p \in overdue'
    /\ proc[p].deadline < clock' => p \in overdue'

(* A token was issued to one process.                                      *)
TokensApart ==
  \A p, q \in Process : proc[p].token = proc[q].token /\ proc[p].token # NULL => p = q

(* A row is there from its creation to a reset.                            *)
RowsStay == \A t \in TaskId : t < nextTask /\ ~Exists(t) => resetLogged

(* A step may be executed as often as a requeue allowed: each execution    *)
(* there was, each one under way and the one still to come are paid for.   *)
Executing(t, s) ==
  {p \in Process : proc[p].pc = "executing" /\ proc[p].task = t /\ proc[p].step = s}

ToCome(t, s) == IF steps[t][s] = "pending" THEN 1 ELSE 0

PaidFor(t, s) ==
  /\ IsFiniteSet(Executing(t, s))
  /\ Exists(t) =>
       effects[t][s] + Cardinality(Executing(t, s)) + ToCome(t, s)
         <= 1 + audit[t]["manual_requeue"]
  /\ t >= nextTask => effects[t][s] = 0
  /\ logs[t][s] # NULL => effects[t][s] > 0

WorkersInv ==
  /\ BoardInv
  /\ WorkersTypeOK
  /\ \A p \in Process : ProcessInv(p)
  /\ TokensApart
  /\ RowsStay
  /\ OnlyResetAborts
  /\ \A t \in TaskId, s \in StepSeq : PaidFor(t, s)

-----------------------------------------------------------------------------
(* The steps of the board that no holder takes.                            *)

QuietBoard ==
  \/ AnyClaim
  \/ \E n \in StepSeq : CreateTask(NULL, n)
  \/ \E t \in TaskId : RequeueTask(t)
  \/ ResetAll
  \/ Tick \/ ClockSetBack
  \/ UNCHANGED vars

LEMMA QuietSteps ==
  ASSUME BoardInv, QuietBoard
  PROVE  /\ [BoardStep]_vars /\ BoardInv'
         /\ nextTask <= nextTask' /\ nextToken <= nextToken'
         /\ resetLogged => resetLogged'
         /\ \A t \in TaskId : Undisturbed(t)
         /\ RowsStay => RowsStay'
  <1>1. [BoardStep]_vars
    BY DEF QuietBoard, BoardStep, Next
  <1>2. BoardInv'
    BY <1>1, BoardNext
  <1>3. nextTask <= nextTask' /\ nextToken <= nextToken'
    BY <1>1, BoardParts, Counters
  <1>4. \A t \in TaskId : TaskChange(t)
    BY <1>1, BoardParts, NextChange
  <1>5. ASSUME NEW t \in TaskId, logs'[t] = logs[t],
               tasks'[t].status # "running" \/ tasks'[t].status = tasks[t].status
        PROVE  Undisturbed(t)
    BY <1>4, <1>5, NotWorkedOn
  <1>6. CASE AnyClaim
    <2>1. /\ UNCHANGED <<clock, nextTask, resetLogged, steps, logs>>
          /\ \A t \in TaskId : Exists(t) => Exists(t)'
      BY <1>6, BoardParts, ClaimRows
    <2>2. ASSUME NEW t \in TaskId PROVE Undisturbed(t)
      <3>1. ~TaskStarted(t)
        BY <2>1, BoardParts DEF TaskStarted, IsFirst, PendingSteps
      <3>2. ~TaskReported(t)
        BY <2>1, BoardParts, NullAssumption DEF TaskReported, Outcome
      <3>3. QED
        BY <1>4, <3>1, <3>2 DEF TaskChange, Undisturbed
    <2>3. QED
      BY <1>1, <1>2, <1>3, <2>1, <2>2, BoardParts DEF RowsStay
  <1>7. ASSUME NEW n \in StepSeq, CreateTask(NULL, n)
        PROVE  /\ resetLogged => resetLogged'
               /\ \A t \in TaskId : Undisturbed(t)
               /\ RowsStay => RowsStay'
    <2>1. /\ UNCHANGED <<clock, resetLogged, logs>>
          /\ nextTask' = nextTask + 1
          /\ tasks' = [tasks EXCEPT ![nextTask] = Born(NULL)]
      BY <1>7 DEF CreateTask
    <2>2. Born(NULL).status = "pending"
      BY DEF Born, NoTask
    <2>3. \A t \in TaskId : tasks'[t] = IF t = nextTask THEN Born(NULL) ELSE tasks[t]
      BY <2>1, BoardParts DEF TypeOK
    <2>4. \A t \in TaskId : Undisturbed(t)
      BY <1>5, <2>1, <2>2, <2>3
    <2>5. \A t \in TaskId : t < nextTask' /\ ~Exists(t)' => t < nextTask /\ ~Exists(t)
      BY <2>1, <2>2, <2>3, BoardParts DEF Exists, TaskId
    <2>6. QED
      BY <2>1, <2>4, <2>5, BoardParts DEF RowsStay
  <1>8. ASSUME NEW u \in TaskId, RequeueTask(u)
        PROVE  /\ resetLogged => resetLogged'
               /\ \A t \in TaskId : Undisturbed(t)
               /\ RowsStay => RowsStay'
    <2>1. /\ UNCHANGED <<clock, resetLogged, logs, nextTask>>
          /\ tasks' = [tasks EXCEPT ![u] = Released(tasks[u])]
      BY <1>8 DEF RequeueTask
    <2>2. Released(tasks[u]).status = "pending"
      BY BoardParts DEF Released, TaskRow
    <2>3. \A t \in TaskId : tasks'[t] = IF t = u THEN Released(tasks[u]) ELSE tasks[t]
      BY <2>1, BoardParts DEF TypeOK
    <2>4. \A t \in TaskId : Undisturbed(t)
      BY <1>5, <2>1, <2>2, <2>3
    <2>5. QED
      BY <2>1, <2>2, <2>3, <2>4, BoardParts DEF RowsStay, Exists
  <1>9. CASE ResetAll
    <2>1. \A t \in TaskId : Undisturbed(t)
      BY <1>9 DEF ResetAll, Undisturbed, TaskWiped
    <2>2. resetLogged'
      BY <1>9 DEF ResetAll
    <2>3. QED
      BY <1>1, <1>2, <1>3, <2>1, <2>2, BoardParts DEF RowsStay
  <1>10. CASE Tick \/ ClockSetBack \/ UNCHANGED vars
    <2>1. /\ resetLogged' = resetLogged /\ nextTask' = nextTask
          /\ tasks' = tasks /\ logs' = logs
      BY <1>10 DEF Tick, ClockSetBack, vars
    <2>2. QED
      BY <1>1, <1>2, <1>3, <1>5, <2>1 DEF RowsStay, Exists
  <1>11. QED
    BY <1>1, <1>2, <1>3, <1>6, <1>7, <1>8, <1>9, <1>10 DEF QuietBoard

-----------------------------------------------------------------------------
(* A process that does nothing while the board and others move.            *)

LEMMA ProcessParts ==
  ASSUME WorkersTypeOK, NEW p \in Process
  PROVE  /\ proc[p] \in ProcessState
         /\ proc[p].deadline \in Nat
         /\ proc[p].pc \in Unclaiming \/ proc[p].pc \in Granted \/ proc[p].pc \in Working
         /\ Unclaiming \cap Granted = {} /\ Unclaiming \cap Working = {}
         /\ Granted \cap Working = {}
  BY DEF WorkersTypeOK, ProcessState, Unclaiming, Granted, Working

(* A step may take the token of a process away, never give it back.        *)
LEMMA StillEquipped ==
  ASSUME BoardInv, [BoardStep]_vars, NEW p \in Process, Equipped(p), proc'[p] = proc[p]
  PROVE  /\ Equipped(p)'
         /\ proc[p].pc \notin Unclaiming =>
              \A t \in TaskId : Opens(p, t)' => Opens(p, t) /\ tasks[t].claim_token # NULL
  <1>1. CASE proc[p].pc \in Unclaiming
    BY <1>1 DEF Equipped
  <1>2. CASE proc[p].pc \notin Unclaiming
    <2>1. /\ proc[p].task \in TaskId /\ proc[p].task < nextTask
          /\ proc[p].token \in Token /\ proc[p].token < nextToken
          /\ \A t \in TaskId :
               Opens(p, t) => t = proc[p].task /\ tasks[t].claimed_by = WorkerIdOf[p]
      BY <1>2 DEF Equipped
    <2>2. /\ proc[p].token # NULL /\ proc[p].token # nextToken
          /\ proc[p].token \in Nat /\ proc[p].task \in Nat
      BY <2>1, NullAssumption, BoardParts DEF Token, TaskId
    <2>3. \A t \in TaskId : TaskChange(t)
      BY BoardParts, NextChange
    <2>4. nextTask' \in {nextTask, nextTask + 1} /\ nextToken' \in {nextToken, nextToken + 1}
      BY BoardParts, Counters
    <2>5. ASSUME NEW t \in TaskId, Opens(p, t)'
          PROVE  /\ Opens(p, t) /\ tasks[t].claim_token # NULL
                 /\ t = proc[p].task /\ tasks'[t].claimed_by = WorkerIdOf[p]
      <3>1. tasks'[t].claim_token = proc[p].token
        BY <2>5 DEF Opens
      <3>2. tasks[t].claim_token = proc[p].token
        BY <2>2, <2>3, <3>1, BoardParts, RowToken
      <3>3. tasks'[t].claimed_by = tasks[t].claimed_by
        BY <2>2, <2>3, <3>1, <3>2, HolderSame
      <3>4. QED
        BY <2>1, <2>2, <3>2, <3>3 DEF Opens
    <2>6. proc[p].task < nextTask' /\ proc[p].token < nextToken'
      BY <2>1, <2>2, <2>4, BoardParts
    <2>7. Equipped(p)'
      BY <1>2, <2>1, <2>5, <2>6 DEF Equipped
    <2>8. QED
      BY <2>5, <2>7
  <1>3. QED
    BY <1>1, <1>2

LEMMA Carried ==
  ASSUME BoardInv, WorkersTypeOK, [BoardStep]_vars,
         NEW p \in Process, ProcessInv(p), proc'[p] = proc[p], Noted(p),
         \A t \in TaskId : Undisturbed(t) \/ ~Opens(p, t),
         \A t \in TaskId, s \in StepSeq : effects[t][s] > 0 => effects'[t][s] > 0
  PROVE  ProcessInv(p)'
  <1> DEFINE t == proc[p].task
  <1>1. Equipped(p) /\ Equipped(p)'
    BY StillEquipped DEF ProcessInv
  <1>2. Marked(p)'
    BY DEF Marked, Noted
  <1>3. CASE proc[p].pc \in Unclaiming
    BY <1>1, <1>3, <1>2, ProcessParts
       DEF ProcessInv, Waits, Executes, Granted, Working, Unclaiming
  <1>4. CASE proc[p].pc \notin Unclaiming
    <2>1. t \in TaskId /\ t < nextTask
      BY <1>1, <1>4 DEF Equipped
    <2>2. TaskChange(t)
      BY <2>1, BoardParts, NextChange
    <2>3. Opens(p, t)' =>
            /\ Opens(p, t)
            /\ tasks'[t] = tasks[t] /\ steps'[t] = steps[t]
      <3> SUFFICES ASSUME Opens(p, t)'
                   PROVE  Opens(p, t) /\ tasks'[t] = tasks[t] /\ steps'[t] = steps[t]
        OBVIOUS
      <3>1. Opens(p, t) /\ tasks[t].claim_token # NULL /\ tasks'[t].claim_token = proc[p].token
        BY <1>1, <1>4, <2>1, StillEquipped DEF Opens
      <3>2. QED
        BY <2>1, <3>1, OpenIsKept DEF Opens
    <2>4. Exists(t)' =>
            /\ Exists(t)
            /\ audit[t]["manual_requeue"] > 0 => audit'[t]["manual_requeue"] > 0
            /\ Opens(p, t) /\ ~Opens(p, t)' =>
                 \/ audit'[t]["manual_requeue"] > 0
                 \/ tasks[t].status = "claimed" /\ tasks[t].lease_expires_at < clock
      <3> SUFFICES ASSUME Exists(t)'
                   PROVE  /\ Exists(t)
                          /\ audit[t]["manual_requeue"] > 0 => audit'[t]["manual_requeue"] > 0
                          /\ Opens(p, t) /\ ~Opens(p, t)' =>
                               \/ audit'[t]["manual_requeue"] > 0
                               \/ /\ tasks[t].status = "claimed"
                                  /\ tasks[t].lease_expires_at < clock
        OBVIOUS
      <3>1. /\ Exists(t) /\ audit[t]["manual_requeue"] \in Nat
            /\ audit[t]["manual_requeue"] <= audit'[t]["manual_requeue"]
        BY <2>1, <2>2, BoardParts, RowWasThere
      <3>2. audit'[t]["manual_requeue"] \in Nat
        BY <2>1, BoardParts, BoardNext, NextType DEF TypeOK, Event
      <3>3. ASSUME Opens(p, t), ~Opens(p, t)'
            PROVE  \/ audit'[t]["manual_requeue"] > 0
                   \/ /\ tasks[t].status = "claimed"
                      /\ tasks[t].lease_expires_at < clock
        <4>1. tasks[t].claim_token = proc[p].token /\ tasks'[t].claim_token # proc[p].token
          BY <3>3 DEF Opens
        <4>2. proc[p].token # NULL
          BY <1>1, <1>4, NullAssumption DEF Equipped, Token
        <4>3. Survives(t)
          BY <3>1 DEF Survives, Exists
        <4>4. \/ audit'[t]["manual_requeue"] > audit[t]["manual_requeue"]
              \/ tasks[t].status = "claimed" /\ tasks[t].lease_expires_at < clock
          BY <2>1, <4>1, <4>2, <4>3, BoardParts, HolderKept
        <4>5. QED
          BY <3>1, <3>2, <4>4
      <3>4. QED
        BY <3>1, <3>2, <3>3
    <2>5. Waits(p)'
      <3> SUFFICES ASSUME proc[p].pc \in Granted
                   PROVE  /\ Opens(p, t)' => /\ tasks'[t].status = "claimed"
                                             /\ tasks'[t].lease_expires_at = proc[p].deadline
                          /\ Exists(t)' => \/ Opens(p, t)'
                                           \/ audit'[t]["manual_requeue"] > 0
                                           \/ p \in overdue'
        BY DEF Waits
      <3>1. /\ Opens(p, t) => /\ tasks[t].status = "claimed"
                              /\ tasks[t].lease_expires_at = proc[p].deadline
            /\ Exists(t) => \/ Opens(p, t)
                            \/ audit[t]["manual_requeue"] > 0
                            \/ p \in overdue
        BY DEF ProcessInv, Waits
      <3>2. /\ proc[p].deadline < clock => p \in overdue
            /\ p \in overdue => p \in overdue'
        BY DEF ProcessInv, Marked, Noted, Granted, BeforeStart
      <3>3. QED
        BY <2>3, <2>4, <3>1, <3>2
    <2>6. Executes(p)'
      <3> SUFFICES ASSUME proc[p].pc \in Working
                   PROVE  /\ proc[p].step \in StepSeq
                          /\ Opens(p, t)' => /\ tasks'[t].status = "running"
                                             /\ steps'[t][proc[p].step] = "running"
                          /\ Exists(t)' => Opens(p, t)' \/ audit'[t]["manual_requeue"] > 0
                          /\ proc[p].pc = "performed" => effects'[t][proc[p].step] > 0
        BY DEF Executes
      <3>1. /\ proc[p].step \in StepSeq
            /\ Opens(p, t) => tasks[t].status = "running" /\ steps[t][proc[p].step] = "running"
            /\ Exists(t) => Opens(p, t) \/ audit[t]["manual_requeue"] > 0
            /\ proc[p].pc = "performed" => effects[t][proc[p].step] > 0
        BY DEF ProcessInv, Executes
      <3>2. QED
        BY <2>1, <2>3, <2>4, <3>1
    <2>7. QED
      BY <1>1, <1>2, <2>5, <2>6 DEF ProcessInv
  <1>5. QED
    BY <1>3, <1>4

(* No step without an execution makes a task cost more than its requeues   *)
(* pay for.                                                                *)
LEMMA PaidQuiet ==
  ASSUME BoardInv, BoardInv', NEW t \in TaskId, NEW s \in StepSeq, PaidFor(t, s),
         Undisturbed(t), nextTask <= nextTask',
         Executing(t, s)' \subseteq Executing(t, s), effects' = effects,
         t >= nextTask => Executing(t, s) = {},
         effects[t][s] \in Nat
  PROVE  PaidFor(t, s)'
  <1> DEFINE cost  == Cardinality(Executing(t, s))
             costs == Cardinality(Executing(t, s)')
             n == audit[t]["manual_requeue"]
             m == audit'[t]["manual_requeue"]
  <1>1. IsFiniteSet(Executing(t, s)) /\ IsFiniteSet(Executing(t, s)')
    BY FS_Subset DEF PaidFor
  <1>2. cost \in Nat /\ costs \in Nat /\ costs <= cost
    BY <1>1, FS_CardinalityType, FS_Subset
  <1>3. /\ n \in Nat /\ m \in Nat /\ "manual_requeue" \in Event
        /\ t \in Nat /\ nextTask' \in Nat
    <2>1. n \in Nat
      BY BoardParts
    <2>2. TypeOK'
      BY DEF BoardInv, StepInv, CredentialInv
    <2>3. m \in Nat /\ "manual_requeue" \in Event /\ nextTask' \in Nat
      BY <2>2, BoundsAssumption DEF TypeOK, Event
    <2>4. QED
      BY <2>1, <2>3, BoundsAssumption DEF TaskId
  <1>4. ToCome(t, s) \in {0, 1} /\ ToCome(t, s)' \in {0, 1}
    BY DEF ToCome
  <1>5. /\ Exists(t) => effects[t][s] + cost + ToCome(t, s) <= 1 + n
        /\ t >= nextTask => effects[t][s] = 0
        /\ logs[t][s] # NULL => effects[t][s] > 0
    BY <1>2, <1>3, <1>4 DEF PaidFor
  <1>6. t >= nextTask' => effects'[t][s] = 0
    BY <1>3, <1>5, BoardParts
  <1> HIDE DEF cost, costs, n, m
  <1>7. logs'[t][s] # NULL => effects'[t][s] > 0
    <2>1. logs'[t] = logs[t] \/ logs'[t] = NoLogs
      BY DEF Undisturbed, TaskKept, StepsKept, TaskCreated, TaskReclaimed, TaskRequeued,
         TaskGranted, TaskWiped
    <2>2. QED
      BY <1>5, <2>1 DEF NoLogs
  <1>8. Exists(t)' => effects[t][s] + costs + ToCome(t, s)' <= 1 + m
    <2>1. CASE TaskCreated(t)
      <3>1. t >= nextTask
        BY <2>1, BoardParts DEF TaskCreated
      <3>2. effects[t][s] = 0 /\ cost = 0
        BY <1>5, <3>1, FS_EmptySet DEF cost
      <3>3. QED
        BY <1>2, <1>3, <1>4, <3>2
    <2>2. CASE TaskKept(t) \/ TaskReclaimed(t) \/ TaskGranted(t)
      <3>1. steps'[t] = steps[t] /\ m = n /\ (Exists(t)' => Exists(t))
        BY <1>3, <2>2 DEF TaskKept, TaskReclaimed, TaskGranted, StepsKept, Logged, Expired,
           Unclaimed, Exists, n, m
      <3>2. ToCome(t, s)' = ToCome(t, s)
        BY <3>1 DEF ToCome
      <3>3. QED
        BY <1>2, <1>3, <1>4, <1>5, <3>1, <3>2
    <2>3. CASE TaskRequeued(t)
      <3>1. m = n + 1 /\ Exists(t)
        BY <1>3, <2>3 DEF TaskRequeued, Logged, Exists, n, m
      <3>2. QED
        BY <1>2, <1>3, <1>4, <1>5, <3>1
    <2>4. CASE TaskWiped(t)
      BY <2>4 DEF TaskWiped, NoTask, Exists
    <2>5. QED
      BY <2>1, <2>2, <2>3, <2>4 DEF Undisturbed
  <1>9. QED
    BY <1>1, <1>6, <1>7, <1>8 DEF PaidFor, costs, m

(* Nobody executes a task that is still to be created.                     *)
LEMMA NobodyAhead ==
  ASSUME WorkersInv, NEW t \in TaskId, NEW s \in StepSeq, t >= nextTask
  PROVE  Executing(t, s) = {}
  <1>1. ASSUME NEW p \in Process, proc[p].pc = "executing", proc[p].task = t
        PROVE  FALSE
    <2>1. Equipped(p)
      BY DEF WorkersInv, ProcessInv
    <2>2. proc[p].task < nextTask
      BY <1>1, <2>1 DEF Equipped, Unclaiming
    <2>3. QED
      BY <1>1, <2>2, BoardParts, BoundsAssumption DEF WorkersInv, TaskId
  <1>2. QED
    BY <1>1 DEF Executing

(* The board moves, and at most one process with it, which executes        *)
(* nothing and has a new token if any.                                     *)
LEMMA QuietKeeps ==
  ASSUME WorkersInv, QuietBoard, effects' = effects, kills' \in 0..MaxKill,
         proc' \in [Process -> ProcessState], overdue' \subseteq Process,
         NEW moved \in SUBSET Process, \A p, q \in moved : p = q,
         \A p \in Process \ moved : proc'[p] = proc[p] /\ Noted(p),
         \A p \in moved :
           /\ ProcessInv(p)'
           /\ proc'[p].pc # "executing"
           /\ proc'[p].token \in {NULL, proc[p].token, nextToken}
           /\ proc'[p].pc = "aborted" => resetLogged
  PROVE  WorkersInv'
  <1>1. /\ BoardInv /\ WorkersTypeOK /\ TokensApart /\ RowsStay /\ OnlyResetAborts
        /\ \A p \in Process : ProcessInv(p)
        /\ \A t \in TaskId, s \in StepSeq : PaidFor(t, s)
    BY DEF WorkersInv
  <1>2. /\ [BoardStep]_vars /\ BoardInv'
        /\ nextTask <= nextTask' /\ nextToken <= nextToken'
        /\ resetLogged => resetLogged'
        /\ \A t \in TaskId : Undisturbed(t)
        /\ RowsStay => RowsStay'
    BY <1>1, QuietSteps
  <1>3. TypeOK'
    BY <1>2 DEF BoardInv, StepInv, CredentialInv
  <1>4. WorkersTypeOK'
    BY <1>1, <1>3 DEF WorkersTypeOK
  <1>5. \A p \in Process : ProcessInv(p)'
    <2>1. ASSUME NEW p \in Process \ moved PROVE ProcessInv(p)'
      BY <1>1, <1>2, <1>3, Carried
    <2>2. QED
      BY <2>1
  <1>6. TokensApart'
    <2>1. \A p \in Process : proc[p].token # NULL => proc[p].token # nextToken
      <3> SUFFICES ASSUME NEW p \in Process, proc[p].token # NULL
                   PROVE  proc[p].token # nextToken
        OBVIOUS
      <3>1. Equipped(p)
        BY <1>1 DEF ProcessInv
      <3>2. proc[p].token \in Token /\ proc[p].token < nextToken
        BY <3>1 DEF Equipped
      <3>3. QED
        BY <1>1, <3>2, BoardParts, BoundsAssumption DEF Token
    <2>2. ASSUME NEW p \in Process, NEW q \in Process,
                 proc'[p].token = proc'[q].token, proc'[p].token # NULL
          PROVE  p = q
      <3>1. CASE p \in moved /\ q \in moved
        BY <3>1
      <3>2. CASE p \notin moved /\ q \notin moved
        BY <1>1, <2>2, <3>2 DEF TokensApart
      <3>3. CASE p \in moved /\ q \notin moved
        BY <1>1, <2>1, <2>2, <3>3 DEF TokensApart
      <3>4. CASE p \notin moved /\ q \in moved
        BY <1>1, <2>1, <2>2, <3>4 DEF TokensApart
      <3>5. QED
        BY <3>1, <3>2, <3>3, <3>4
    <2>3. QED
      BY <2>2 DEF TokensApart
  <1>7. OnlyResetAborts'
    BY <1>1, <1>2 DEF OnlyResetAborts
  <1>8. ASSUME NEW t \in TaskId, NEW s \in StepSeq PROVE PaidFor(t, s)'
    <2>1. Executing(t, s)' \subseteq Executing(t, s)
      BY DEF Executing
    <2>2. effects[t][s] \in Nat
      BY <1>1 DEF WorkersTypeOK
    <2>3. QED
      BY <1>1, <1>2, <2>1, <2>2, NobodyAhead, PaidQuiet
  <1>9. QED
    BY <1>1, <1>2, <1>4, <1>5, <1>6, <1>7, <1>8 DEF WorkersInv

-----------------------------------------------------------------------------
(* One process acts.                                                       *)

LEMMA BecomeOne ==
  ASSUME WorkersTypeOK, NEW p \in Process, NEW state \in ProcessState, Become(p, state)
  PROVE  /\ proc' \in [Process -> ProcessState]
         /\ proc'[p] = state
         /\ \A q \in Process \ {p} : proc'[q] = proc[q]
         /\ overdue' \subseteq Process
         /\ state.pc \in BeforeStart => overdue' = overdue
         /\ \A q \in Process \ {p} : q \in overdue => q \in overdue'
  BY DEF WorkersTypeOK, Become

(* The clock stands still while a process moves.                           *)
LEMMA OthersNoted ==
  ASSUME WorkersInv, NEW p \in Process, NEW state \in ProcessState, Become(p, state),
         clock' = clock
  PROVE  \A q \in Process \ {p} : Noted(q)
  <1>1. \A q \in Process \ {p} : q \in overdue => q \in overdue'
    BY BecomeOne DEF WorkersInv
  <1>2. \A q \in Process : Marked(q)
    BY DEF WorkersInv, ProcessInv
  <1>3. QED
    BY <1>1, <1>2 DEF Noted, Marked

LEMMA NullTypes ==
  /\ NULL \notin Token /\ NULL \notin TaskId /\ NULL \notin StepSeq
  /\ TaskId \subseteq Nat /\ Token \subseteq Nat /\ StepSeq \subseteq Nat
  BY NullAssumption, BoundsAssumption DEF Token, TaskId, StepSeq

(* It is left without a task.                                              *)
WithoutTask(pc, deadline) ==
  [pc |-> pc, deadline |-> deadline, task |-> NULL, token |-> NULL, step |-> NULL]

LEMMA IdleStates ==
  /\ Polling = WithoutTask("polling", 0)
  /\ Aborted = WithoutTask("aborted", 0)
  /\ Killed = WithoutTask("killed", 0)
  /\ \A d \in Nat : [Polling EXCEPT !.pc = "claiming", !.deadline = d]
                       = WithoutTask("claiming", d)
  <1>1. Polling \in ProcessState /\ Polling = WithoutTask("polling", 0)
    BY DEF Polling, ProcessState, WithoutTask
  <1>2. Polling.deadline = 0 /\ Polling.task = NULL /\ Polling.token = NULL
        /\ Polling.step = NULL
    BY DEF Polling
  <1>3. ASSUME NEW state \in ProcessState, NEW pc \in Unclaiming, NEW d \in Nat,
               state.task = NULL, state.token = NULL, state.step = NULL
        PROVE  [state EXCEPT !.pc = pc, !.deadline = d] = WithoutTask(pc, d)
    <2> DEFINE moved == [state EXCEPT !.pc = pc]
    <2>1. /\ moved \in ProcessState /\ moved.pc = pc /\ moved.deadline = state.deadline
          /\ moved.task = NULL /\ moved.token = NULL /\ moved.step = NULL
      BY <1>3 DEF ProcessState, Unclaiming
    <2>2. [state EXCEPT !.pc = pc, !.deadline = d] = [moved EXCEPT !.deadline = d]
      OBVIOUS
    <2> HIDE DEF moved
    <2>3. [moved EXCEPT !.deadline = d] = WithoutTask(pc, d)
      BY <2>1 DEF ProcessState, WithoutTask
    <2>4. QED
      BY <2>2, <2>3
  <1>4. ASSUME NEW state \in ProcessState, NEW pc \in Unclaiming, state.deadline = 0,
               state.task = NULL, state.token = NULL, state.step = NULL
        PROVE  [state EXCEPT !.pc = pc] = WithoutTask(pc, 0)
    BY <1>4 DEF ProcessState, WithoutTask
  <1>5. "aborted" \in Unclaiming /\ "killed" \in Unclaiming /\ "claiming" \in Unclaiming
    BY DEF Unclaiming
  <1>6. \A d \in Nat : [Polling EXCEPT !.pc = "claiming", !.deadline = d]
                       = WithoutTask("claiming", d)
    BY <1>1, <1>2, <1>3, <1>5, Zenon
  <1>7. [Polling EXCEPT !.pc = "aborted"] = WithoutTask("aborted", 0)
    BY <1>1, <1>2, <1>4, <1>5, Zenon
  <1>8. [Polling EXCEPT !.pc = "killed"] = WithoutTask("killed", 0)
    BY <1>1, <1>2, <1>4, <1>5, Zenon
  <1>9. QED
    BY <1>1, <1>6, <1>7, <1>8, Zenon DEF Aborted, Killed

LEMMA Unequipped ==
  ASSUME NEW pc \in Unclaiming, NEW deadline \in Nat, NEW p \in Process,
         proc'[p] = WithoutTask(pc, deadline),
         pc \in BeforeStart => ~(deadline < clock')
  PROVE  proc'[p] \in ProcessState /\ ProcessInv(p)' /\ proc'[p].pc = pc
         /\ proc'[p].token = NULL
  <1>1. /\ proc'[p].pc = pc /\ proc'[p].task = NULL /\ proc'[p].token = NULL
        /\ proc'[p].step = NULL /\ proc'[p].deadline = deadline
    BY DEF WithoutTask
  <1>2. proc'[p] \in ProcessState
    BY DEF WithoutTask, ProcessState, Unclaiming
  <1>3. ProcessInv(p)'
    BY <1>1 DEF ProcessInv, Equipped, Waits, Executes, Marked, Unclaiming, Granted, Working
  <1>4. QED
    BY <1>1, <1>2, <1>3

LEMMA DropKeeps ==
  ASSUME WorkersInv, QuietBoard, clock' = clock, effects' = effects, kills' \in 0..MaxKill,
         NEW p \in Process, NEW pc \in Unclaiming, NEW deadline \in Nat,
         pc \in BeforeStart => ~(deadline < clock),
         Become(p, WithoutTask(pc, deadline)), pc = "aborted" => resetLogged
  PROVE  WorkersInv'
  <1>1. WorkersTypeOK
    BY DEF WorkersInv
  <1>2. WithoutTask(pc, deadline) \in ProcessState
    BY DEF WithoutTask, ProcessState, Unclaiming
  <1>3. /\ proc' \in [Process -> ProcessState]
        /\ proc'[p] = WithoutTask(pc, deadline)
        /\ \A q \in Process \ {p} : proc'[q] = proc[q] /\ Noted(q)
        /\ overdue' \subseteq Process
    BY <1>1, <1>2, BecomeOne, OthersNoted
  <1>4. ProcessInv(p)' /\ proc'[p].pc = pc /\ proc'[p].token = NULL
    BY <1>3, Unequipped
  <1>5. pc # "executing"
    BY DEF Unclaiming
  <1>6. {p} \in SUBSET Process
    OBVIOUS
  <1>7. QED
    BY <1>3, <1>4, <1>5, <1>6, QuietKeeps

(* Nobody moves but the board.                                             *)
LEMMA BoardAloneKeeps ==
  ASSUME WorkersInv, QuietBoard, UNCHANGED <<proc, effects, kills>>,
         (UNCHANGED overdue /\ clock' = clock) \/ NoteDeadlines
  PROVE  WorkersInv'
  <1>1. WorkersTypeOK /\ \A p \in Process : Marked(p)
    BY DEF WorkersInv, ProcessInv
  <1>2. /\ proc' = proc /\ effects' = effects /\ kills' \in 0..MaxKill
        /\ proc' \in [Process -> ProcessState] /\ overdue' \subseteq Process
        /\ \A p \in Process : Noted(p)
    BY <1>1 DEF WorkersTypeOK, NoteDeadlines, Noted, Marked
  <1>3. {} \in SUBSET Process
    OBVIOUS
  <1>4. QED
    BY <1>2, <1>3, QuietKeeps

LEMMA AskForTaskKeeps ==
  ASSUME WorkersInv, NEW p \in Process, AskForTask(p)
  PROVE  WorkersInv'
  <1>1. PICK lease \in Leases :
          Become(p, [Polling EXCEPT !.pc = "claiming", !.deadline = LeaseExpiry(lease, 0)])
    BY DEF AskForTask
  <1>2. LeaseExpiry(lease, 0) \in Nat /\ kills \in 0..MaxKill
    BY SeedExpiryType, BoardParts DEF WorkersInv, WorkersTypeOK
  <1>3. ~(LeaseExpiry(lease, 0) < clock)
    <2>1. lease \in Nat /\ clock \in Nat
      BY BoundsAssumption, BoardParts DEF WorkersInv
    <2>2. QED
      BY <2>1 DEF LeaseExpiry
  <1>4. QuietBoard /\ UNCHANGED <<clock, effects, kills>>
    BY DEF AskForTask, QuietBoard, vars
  <1>5. Become(p, WithoutTask("claiming", LeaseExpiry(lease, 0)))
    BY <1>1, <1>2, IdleStates
  <1>6. QED
    BY <1>2, <1>4, <1>5, <1>3, DropKeeps DEF Unclaiming

LEMMA KillKeeps ==
  ASSUME WorkersInv, NEW p \in Process, Kill(p)
  PROVE  WorkersInv'
  <1>1. QuietBoard /\ clock' = clock /\ effects' = effects /\ kills' \in 0..MaxKill
    BY ProcessAssumption DEF Kill, QuietBoard, WorkersInv, WorkersTypeOK, vars
  <1>2. Become(p, WithoutTask("killed", 0))
    BY IdleStates DEF Kill
  <1>3. QED
    BY <1>1, <1>2, DropKeeps DEF Unclaiming, BeforeStart

LEMMA RespawnKeeps ==
  ASSUME WorkersInv, NEW p \in Process, Respawn(p)
  PROVE  WorkersInv'
  <1>1. QuietBoard /\ clock' = clock /\ effects' = effects /\ kills' \in 0..MaxKill
    BY DEF Respawn, QuietBoard, WorkersInv, WorkersTypeOK, vars
  <1>2. Become(p, WithoutTask("polling", 0))
    BY IdleStates DEF Respawn
  <1>3. QED
    BY <1>1, <1>2, DropKeeps DEF Unclaiming, BeforeStart

(* A task that is not there although it was handed out has been wiped.     *)
LEMMA RejectedKeeps ==
  ASSUME WorkersInv, NEW p \in Process, proc[p].pc \notin Unclaiming,
         Rejected(p, proc[p].task), UNCHANGED <<effects, kills>>
  PROVE  WorkersInv'
  <1>1. proc[p].task \in TaskId /\ proc[p].task < nextTask
    BY DEF WorkersInv, ProcessInv, Equipped
  <1>2. ~Exists(proc[p].task) => resetLogged
    BY <1>1 DEF WorkersInv, RowsStay
  <1>3. QuietBoard /\ clock' = clock /\ effects' = effects /\ kills' \in 0..MaxKill
    BY DEF Rejected, QuietBoard, WorkersInv, WorkersTypeOK, vars
  <1>4. CASE Exists(proc[p].task)
    <2>1. Become(p, WithoutTask("polling", 0))
      BY <1>4, IdleStates DEF Rejected
    <2>2. QED
      BY <1>3, <2>1, DropKeeps DEF Unclaiming, BeforeStart
  <1>5. CASE ~Exists(proc[p].task)
    <2>1. Become(p, WithoutTask("aborted", 0))
      BY <1>5, IdleStates DEF Rejected
    <2>2. QED
      BY <1>2, <1>3, <1>5, <2>1, DropKeeps DEF Unclaiming, BeforeStart
  <1>6. QED
    BY <1>4, <1>5

-----------------------------------------------------------------------------
(* A process is granted a task and reads it.                               *)

LEMMA GrantKeeps ==
  ASSUME WorkersInv, NEW p \in Process, NEW t \in TaskId, proc[p].pc = "claiming",
         ClaimTask(WorkerIdOf[p], proc[p].deadline, t),
         Become(p, [proc[p] EXCEPT !.pc = "granted", !.task = t, !.token = nextToken]),
         UNCHANGED <<effects, kills>>
  PROVE  WorkersInv'
  <1> DEFINE w == WorkerIdOf[p]
             expiry == proc[p].deadline
  <1>1. BoardInv /\ WorkersTypeOK /\ TypeOK /\ Equipped(p)
    BY BoardParts DEF WorkersInv, ProcessInv
  <1>2. w \in Workers /\ expiry \in Nat
    BY <1>1, ProcessAssumption, ProcessParts
  <1>3. /\ nextToken \in Token /\ nextToken' = nextToken + 1
        /\ nextTask' = nextTask /\ clock' = clock
        /\ Unclaimed(ReclaimExpiredLeases[t])
        /\ tasks' = [ReclaimExpiredLeases EXCEPT ![t] =
                       Claimed(ReclaimExpiredLeases[t], w, expiry)]
    BY <1>1, BoundsAssumption DEF ClaimTask, TypeOK, Token
  <1>4. QuietBoard
    <2>1. AnyClaim
      BY <1>2 DEF AnyClaim, ClaimNextTask
    <2>2. QED
      BY <2>1 DEF QuietBoard
  <1>5. Exists(t) /\ t < nextTask
    <2>1. tasks[t].status # "absent"
      <3>1. CASE Expired(t)
        BY <3>1 DEF Expired
      <3>2. CASE ~Expired(t)
        BY <1>1, <1>3, <3>2, ReclaimedRow DEF Unclaimed
      <3>3. QED
        BY <3>1, <3>2
    <2>2. QED
      BY <1>1, <2>1, BoardParts, NullTypes DEF UnusedIds, NoTask, Exists
  <1>6. /\ tasks'[t].status = "claimed" /\ tasks'[t].claimed_by = w
        /\ tasks'[t].claim_token = nextToken /\ tasks'[t].lease_expires_at = expiry
    <2>1. tasks'[t] = Claimed(ReclaimExpiredLeases[t], w, expiry)
      BY <1>1, <1>3, ReclaimType
    <2>2. ReclaimExpiredLeases[t] \in TaskRow
      BY <1>1, ReclaimType
    <2>3. QED
      BY <2>1, <2>2 DEF Claimed, TaskRow
  <1>7. [BoardStep]_vars
    BY <1>1, <1>4, QuietSteps
  <1>8. \A u \in TaskId : tasks'[u].claim_token = nextToken => u = t
    BY <1>1, <1>6, <1>7, BoardParts, OneGrantee
  <1>9. proc[p] \in ProcessState /\ proc[p].step = NULL
    BY <1>1, ProcessParts DEF Equipped, Unclaiming
  <1> DEFINE called == [proc[p] EXCEPT !.pc = "granted"]
             given  == [called EXCEPT !.task = t]
             state  == [given EXCEPT !.token = nextToken]
  <1>10. Become(p, state)
    OBVIOUS
  <1>11. /\ state \in ProcessState /\ state.pc = "granted" /\ state.task = t
         /\ state.token = nextToken /\ state.deadline = expiry /\ state.step = NULL
    <2>1. /\ called \in ProcessState /\ called.pc = "granted"
          /\ called.deadline = expiry /\ called.step = NULL
      BY <1>9 DEF ProcessState
    <2> HIDE DEF called
    <2>2. /\ given \in ProcessState /\ given.pc = "granted" /\ given.task = t
          /\ given.deadline = expiry /\ given.step = NULL
      BY <2>1 DEF ProcessState
    <2> HIDE DEF given
    <2>3. QED
      BY <1>3, <2>2 DEF ProcessState
  <1> HIDE DEF state
  <1>12. /\ proc' \in [Process -> ProcessState]
         /\ proc'[p] = state
         /\ \A q \in Process \ {p} : proc'[q] = proc[q] /\ Noted(q)
         /\ overdue' \subseteq Process /\ overdue' = overdue
    BY <1>1, <1>3, <1>10, <1>11, BecomeOne, OthersNoted DEF BeforeStart
  <1>13. Equipped(p)'
    <2>1. state.pc \notin Unclaiming
      BY <1>11 DEF Unclaiming
    <2>2. state.token < nextToken' /\ state.task < nextTask'
      BY <1>1, <1>3, <1>5, <1>11, BoardParts
    <2>3. ASSUME NEW u \in TaskId, Opens(p, u)'
          PROVE  u = state.task /\ tasks'[u].claimed_by = w
      BY <1>6, <1>8, <1>11, <1>12, <2>3 DEF Opens
    <2>4. QED
      BY <1>3, <1>11, <1>12, <2>1, <2>2, <2>3 DEF Equipped
  <1>14. Waits(p)' /\ Executes(p)'
    <2>1. Opens(p, t)'
      BY <1>6, <1>11, <1>12 DEF Opens
    <2>2. Waits(p)'
      BY <1>6, <1>11, <1>12, <2>1 DEF Waits
    <2>3. state.pc \notin Working
      BY <1>11 DEF Working
    <2>4. Executes(p)'
      BY <1>12, <2>3 DEF Executes
    <2>5. QED
      BY <2>2, <2>4
  <1>15. Marked(p)'
    <2>1. Marked(p) /\ proc[p].pc \in BeforeStart
      BY DEF WorkersInv, ProcessInv, BeforeStart
    <2>2. QED
      BY <1>3, <1>11, <1>12, <2>1 DEF Marked
  <1>16. ProcessInv(p)'
    BY <1>13, <1>14, <1>15 DEF ProcessInv
  <1>17. kills' \in 0..MaxKill /\ effects' = effects /\ {p} \in SUBSET Process
    BY <1>1 DEF WorkersTypeOK
  <1>18. QED
    BY <1>4, <1>11, <1>12, <1>16, <1>17, QuietKeeps

LEMMA ClaimKeeps ==
  ASSUME WorkersInv, NEW p \in Process, Claim(p)
  PROVE  WorkersInv'
  <1>1. CASE ClaimNothing /\ Become(p, Polling)
    <2>1. AnyClaim
      BY <1>1, DemoAssumption DEF AnyClaim, ClaimNextTask
    <2>2. QuietBoard /\ effects' = effects /\ kills' \in 0..MaxKill
      BY <2>1 DEF QuietBoard, Claim, WorkersInv, WorkersTypeOK
    <2>3. clock' = clock
      BY <1>1 DEF ClaimNothing
    <2>4. Become(p, WithoutTask("polling", 0))
      BY <1>1, IdleStates
    <2>5. QED
      BY <2>2, <2>4, <2>3, DropKeeps DEF Unclaiming, BeforeStart
  <1>2. QED
    BY <1>1, GrantKeeps DEF Claim

LEMMA ReadGrantKeeps ==
  ASSUME WorkersInv, NEW p \in Process, ReadGrant(p)
  PROVE  WorkersInv'
  <1>1. /\ proc[p].pc = "granted" /\ UNCHANGED <<vars, effects, kills>>
        /\ proc[p].pc \notin Unclaiming
    BY DEF ReadGrant, Unclaiming
  <1>2. CASE ~Exists(proc[p].task)
    BY <1>1, <1>2, RejectedKeeps DEF ReadGrant, Rejected
  <1>3. CASE Exists(proc[p].task)
    <2> DEFINE state == [proc[p] EXCEPT !.pc = "claimed"]
    <2>1. WorkersTypeOK /\ proc[p] \in ProcessState
      BY ProcessParts DEF WorkersInv
    <2>2. /\ state \in ProcessState /\ state.pc = "claimed" /\ state.task = proc[p].task
          /\ state.token = proc[p].token /\ state.deadline = proc[p].deadline
      BY <2>1 DEF ProcessState
    <2>3. Become(p, state)
      BY <1>3 DEF ReadGrant
    <2> HIDE DEF state
    <2>4. UNCHANGED <<tasks, audit, clock, nextTask, nextToken>>
      BY <1>1 DEF vars
    <2>5. /\ proc' \in [Process -> ProcessState]
          /\ proc'[p] = state
          /\ \A q \in Process \ {p} : proc'[q] = proc[q] /\ Noted(q)
          /\ overdue' \subseteq Process /\ overdue' = overdue
      BY <2>1, <2>2, <2>3, <2>4, BecomeOne, OthersNoted DEF BeforeStart
    <2>6. \A t \in TaskId : Opens(p, t)' <=> Opens(p, t)
      BY <2>2, <2>5, <2>4 DEF Opens
    <2>7. ProcessInv(p)
      BY DEF WorkersInv
    <2>8. proc[p].task \in TaskId
      BY <1>1, <2>7 DEF ProcessInv, Equipped
    <2>9. Equipped(p)'
      BY <1>1, <2>2, <2>5, <2>4, <2>6, <2>7 DEF ProcessInv, Equipped, Unclaiming
    <2>10. Waits(p)'
      BY <1>1, <2>2, <2>5, <2>4, <2>6, <2>7, <2>8 DEF ProcessInv, Waits, Granted, Exists
    <2>11. Executes(p)'
      BY <2>2, <2>5 DEF Executes, Working
    <2>12. Marked(p)'
      BY <1>1, <2>2, <2>5, <2>4, <2>7 DEF ProcessInv, Marked, BeforeStart
    <2>13. ProcessInv(p)'
      BY <2>9, <2>10, <2>11, <2>12 DEF ProcessInv
    <2>14. QuietBoard /\ effects' = effects /\ kills' \in 0..MaxKill
      BY <1>1, <2>1 DEF QuietBoard, WorkersTypeOK
    <2>15. {p} \in SUBSET Process
      OBVIOUS
    <2>16. QED
      BY <2>2, <2>5, <2>13, <2>14, <2>15, QuietKeeps
  <1>4. QED
    BY <1>2, <1>3
-----------------------------------------------------------------------------
(* A holder executes its step.                                             *)

LEMMA PerformKeeps ==
  ASSUME WorkersInv, NEW p \in Process, Perform(p)
  PROVE  WorkersInv'
  <1> DEFINE t == proc[p].task
             n == proc[p].step
             state == [proc[p] EXCEPT !.pc = "performed"]
  <1>1. /\ BoardInv /\ WorkersTypeOK /\ TokensApart /\ RowsStay /\ OnlyResetAborts
        /\ \A q \in Process : ProcessInv(q)
        /\ \A u \in TaskId, s \in StepSeq : PaidFor(u, s)
    BY DEF WorkersInv
  <1>2. /\ proc[p].pc = "executing" /\ Become(p, state) /\ UNCHANGED <<vars, kills>>
        /\ effects' = [effects EXCEPT ![t][n] = @ + 1]
    BY DEF Perform
  <1>3. UNCHANGED <<clock, tasks, steps, logs, audit, nextTask, nextToken, resetLogged>>
    BY <1>2 DEF vars
  <1>4. t \in TaskId /\ t < nextTask /\ n \in StepSeq
    BY <1>1, <1>2 DEF ProcessInv, Equipped, Executes, Unclaiming, Working
  <1>5. /\ effects \in [TaskId -> [StepSeq -> Nat]]
        /\ \A u \in TaskId, s \in StepSeq :
             effects'[u][s] = IF u = t /\ s = n THEN effects[u][s] + 1 ELSE effects[u][s]
    BY <1>1, <1>2, <1>4 DEF WorkersTypeOK
  <1>6. effects' \in [TaskId -> [StepSeq -> Nat]]
    <2>1. effects[t] \in [StepSeq -> Nat] /\ effects[t][n] + 1 \in Nat
      BY <1>4, <1>5
    <2>2. [effects[t] EXCEPT ![n] = effects[t][n] + 1] \in [StepSeq -> Nat]
      BY <2>1
    <2>3. QED
      BY <1>2, <1>5, <2>2
  <1>7. /\ state \in ProcessState /\ state.pc = "performed" /\ state.task = t
        /\ state.token = proc[p].token /\ state.step = n
    BY <1>1, ProcessParts DEF ProcessState
  <1> HIDE DEF state
  <1>8. /\ proc' \in [Process -> ProcessState]
        /\ proc'[p] = state
        /\ \A q \in Process \ {p} : proc'[q] = proc[q] /\ Noted(q)
        /\ overdue' \subseteq Process
    BY <1>1, <1>2, <1>3, <1>7, BecomeOne, OthersNoted
  <1>9. \A u \in TaskId, s \in StepSeq :
          effects[u][s] \in Nat /\ effects'[u][s] >= effects[u][s]
    BY <1>5
  <1>10. BoardInv' /\ [BoardStep]_vars
    BY <1>1, <1>2, BoardNext
  <1>11. WorkersTypeOK'
    <2>1. TypeOK'
      BY <1>10 DEF BoardInv, StepInv, CredentialInv
    <2>2. QED
      BY <1>1, <1>2, <1>6, <1>8, <2>1 DEF WorkersTypeOK
  <1>12. ASSUME NEW q \in Process PROVE ProcessInv(q)'
    <2>1. CASE q # p
      <3>1. \A u \in TaskId : Undisturbed(u)
        <4>1. QuietBoard
          BY <1>2 DEF QuietBoard
        <4>2. QED
          BY <1>1, <4>1, QuietSteps
      <3>2. proc'[q] = proc[q] /\ Noted(q) /\ ProcessInv(q)
        BY <1>1, <1>8, <2>1
      <3>3. \A u \in TaskId, s \in StepSeq : effects[u][s] > 0 => effects'[u][s] > 0
        BY <1>5
      <3>4. QED
        BY <1>1, <1>10, <3>1, <3>2, <3>3, Carried
    <2>2. CASE q = p
      <3>1. \A u \in TaskId : Opens(p, u)' <=> Opens(p, u)
        BY <1>3, <1>7, <1>8 DEF Opens
      <3>2. Equipped(p)'
        BY <1>1, <1>2, <1>3, <1>7, <1>8, <3>1 DEF ProcessInv, Equipped, Unclaiming
      <3>3. Waits(p)'
        BY <1>7, <1>8 DEF Waits, Granted
      <3>4. effects'[t][n] > 0
        BY <1>4, <1>5
      <3>5. Executes(p)'
        <4>1. /\ Opens(p, t) => tasks[t].status = "running" /\ steps[t][n] = "running"
              /\ Exists(t) => Opens(p, t) \/ audit[t]["manual_requeue"] > 0
          BY <1>1, <1>2 DEF ProcessInv, Executes, Working
        <4>2. \A u \in TaskId : Exists(u)' <=> Exists(u)
          BY <1>3 DEF Exists
        <4>3. QED
          BY <1>3, <1>4, <1>7, <1>8, <3>1, <3>4, <4>1, <4>2 DEF Executes
      <3>6. Marked(p)'
        BY <1>7, <1>8 DEF Marked, BeforeStart
      <3>7. QED
        BY <2>2, <3>2, <3>3, <3>5, <3>6 DEF ProcessInv
    <2>3. QED
      BY <2>1, <2>2
  <1>13. TokensApart'
    <2>1. \A q \in Process : proc'[q].token = proc[q].token
      BY <1>7, <1>8
    <2>2. QED
      BY <1>1, <2>1 DEF TokensApart
  <1>14. RowsStay' /\ OnlyResetAborts'
    BY <1>1, <1>3, <1>7, <1>8 DEF RowsStay, OnlyResetAborts, Exists
  <1>15. ASSUME NEW u \in TaskId, NEW s \in StepSeq PROVE PaidFor(u, s)'
    <2>1. PaidFor(u, s) /\ effects[u][s] \in Nat /\ audit[u]["manual_requeue"] \in Nat
      BY <1>1, <1>9, BoardParts
    <2>2. UNCHANGED <<ToCome(u, s), Exists(u)>>
      BY <1>3 DEF ToCome, Exists
    <2>3. ToCome(u, s) \in {0, 1}
      BY DEF ToCome
    <2>4. CASE u = t /\ s = n
      <3>1. /\ p \in Executing(u, s)
            /\ Executing(u, s)' = Executing(u, s) \ {p}
        BY <1>2, <1>7, <1>8, <2>4 DEF Executing
      <3>2. /\ IsFiniteSet(Executing(u, s)')
            /\ Cardinality(Executing(u, s)') = Cardinality(Executing(u, s)) - 1
            /\ Cardinality(Executing(u, s)) \in Nat
        BY <2>1, <3>1, FS_RemoveElement, FS_CardinalityType DEF PaidFor
      <3>3. effects'[u][s] = effects[u][s] + 1 /\ u < nextTask
        BY <1>4, <1>5, <2>4
      <3>4. ~(u >= nextTask)
        BY <1>1, <3>3, BoardParts, NullTypes
      <3>5. QED
        BY <1>3, <2>1, <2>2, <2>3, <3>2, <3>3, <3>4 DEF PaidFor
    <2>5. CASE ~(u = t /\ s = n)
      <3>1. Executing(u, s)' = Executing(u, s)
        BY <1>7, <1>8, <2>5 DEF Executing
      <3>2. effects'[u][s] = effects[u][s]
        BY <1>5, <2>5
      <3>3. QED
        BY <1>3, <2>1, <2>2, <3>1, <3>2 DEF PaidFor
    <2>6. QED
      BY <2>4, <2>5
  <1>16. QED
    BY <1>10, <1>11, <1>12, <1>13, <1>14, <1>15 DEF WorkersInv
-----------------------------------------------------------------------------
(* A holder starts its task or reports its step, and goes on.              *)

(* The task keeps its holder, and the step it comes to was not begun.      *)
Advanced(t) ==
  /\ UNCHANGED <<clock, nextTask, nextToken, resetLogged>>
  /\ Exists(t)'
  /\ tasks'[t].claim_token = tasks[t].claim_token
  /\ audit'[t]["manual_requeue"] = audit[t]["manual_requeue"]
  /\ \A s \in StepSeq :
       /\ steps'[t][s] \in {"pending", "running"} => steps[t][s] = "pending"
       /\ logs'[t][s] # NULL => effects[t][s] > 0
  /\ \A u \in TaskId \ {t} : TaskKept(u)

LEMMA AtMostOneRuns ==
  ASSUME BoardInv, NEW t \in TaskId, NEW s \in StepSeq, NEW q \in StepSeq,
         steps[t][s] = "running", steps[t][q] = "running"
  PROVE  s = q
  <1>1. s \in Nat /\ q \in Nat
    BY BoundsAssumption DEF StepSeq
  <1>2. /\ \A r \in StepSeq : r < s => steps[t][r] = "done"
        /\ \A r \in StepSeq : r > s => steps[t][r] \in {"pending", "absent"}
    BY BoardParts, AroundRunning
  <1>3. QED
    BY <1>1, <1>2

(* What a task costs may move from the step to come to the one under way.  *)
LEMMA PaidAdvance ==
  ASSUME BoardInv, NEW t \in TaskId, t < nextTask, Exists(t), Advanced(t),
         NEW s \in StepSeq, PaidFor(t, s), effects' = effects, effects[t][s] \in Nat,
         IsFiniteSet(Executing(t, s)'),
         Cardinality(Executing(t, s)') + ToCome(t, s)'
           <= Cardinality(Executing(t, s)) + ToCome(t, s)
  PROVE  PaidFor(t, s)'
  <1> DEFINE cost  == Cardinality(Executing(t, s)) + ToCome(t, s)
             costs == Cardinality(Executing(t, s)') + ToCome(t, s)'
  <1>1. IsFiniteSet(Executing(t, s)) /\ audit[t]["manual_requeue"] \in Nat
    BY BoardParts DEF PaidFor
  <1>2. Cardinality(Executing(t, s)) \in Nat /\ Cardinality(Executing(t, s)') \in Nat
    BY <1>1, FS_CardinalityType
  <1>3. ToCome(t, s) \in {0, 1} /\ ToCome(t, s)' \in {0, 1}
    BY DEF ToCome
  <1>4. effects[t][s] + cost <= 1 + audit[t]["manual_requeue"]
    BY <1>1, <1>2, <1>3 DEF PaidFor
  <1>5. cost \in Nat /\ costs \in Nat /\ costs <= cost
    BY <1>2, <1>3
  <1> HIDE DEF cost, costs
  <1>6. effects[t][s] + costs <= 1 + audit'[t]["manual_requeue"]
    BY <1>1, <1>4, <1>5 DEF Advanced
  <1>7. effects[t][s] + Cardinality(Executing(t, s)') + ToCome(t, s)'
          <= 1 + audit'[t]["manual_requeue"]
    BY <1>2, <1>3, <1>6 DEF costs
  <1>8. ~(t >= nextTask') /\ (logs'[t][s] # NULL => effects'[t][s] > 0)
    BY BoardParts, NullTypes DEF Advanced
  <1>9. QED
    BY <1>7, <1>8 DEF PaidFor
(* The next step becomes the one the process is at.                        *)
LEMMA GoesOn ==
  ASSUME WorkersInv, NEW p \in Process, proc[p].pc \in {"claimed", "performed"},
         BoardInv', Advanced(proc[p].task), Opens(p, proc[p].task),
         NEW s \in StepSeq, steps'[proc[p].task][s] = "running",
         tasks'[proc[p].task].status = "running",
         \A u \in TaskId : tasks'[u].claim_token = proc[p].token => Opens(p, u),
         tasks'[proc[p].task].claimed_by = tasks[proc[p].task].claimed_by,
         Become(p, [proc[p] EXCEPT !.pc = "executing", !.step = s])
  PROVE  /\ proc' \in [Process -> ProcessState]
         /\ overdue' \subseteq Process
         /\ \A q \in Process \ {p} : proc'[q] = proc[q] /\ Noted(q)
         /\ proc'[p].pc = "executing" /\ proc'[p].task = proc[p].task
         /\ proc'[p].token = proc[p].token /\ proc'[p].step = s
         /\ ProcessInv(p)'
  <1> DEFINE called == [proc[p] EXCEPT !.pc = "executing"]
             state  == [called EXCEPT !.step = s]
  <1>1. WorkersTypeOK /\ proc[p] \in ProcessState /\ ProcessInv(p)
    BY ProcessParts DEF WorkersInv
  <1>2. Become(p, state)
    OBVIOUS
  <1>3. /\ state \in ProcessState /\ state.pc = "executing" /\ state.task = proc[p].task
        /\ state.token = proc[p].token /\ state.step = s
    <2>1. /\ called \in ProcessState /\ called.pc = "executing"
          /\ called.task = proc[p].task /\ called.token = proc[p].token
      BY <1>1 DEF ProcessState
    <2> HIDE DEF called
    <2>2. QED
      BY <2>1 DEF ProcessState
  <1> HIDE DEF state
  <1>4. /\ proc' \in [Process -> ProcessState]
        /\ proc'[p] = state
        /\ \A q \in Process \ {p} : proc'[q] = proc[q] /\ Noted(q)
        /\ overdue' \subseteq Process
    BY <1>1, <1>2, <1>3, BecomeOne, OthersNoted DEF Advanced
  <1>5. /\ proc[p].task \in TaskId /\ proc[p].task < nextTask
        /\ proc[p].token \in Token /\ proc[p].token < nextToken
        /\ \A u \in TaskId :
             Opens(p, u) => u = proc[p].task /\ tasks[u].claimed_by = WorkerIdOf[p]
    BY <1>1 DEF ProcessInv, Equipped, Unclaiming
  <1>6. nextTask' = nextTask /\ nextToken' = nextToken
    BY DEF Advanced
  <1>7. \A u \in TaskId :
          Opens(p, u)' => u = proc[p].task /\ tasks'[u].claimed_by = WorkerIdOf[p]
    BY <1>3, <1>4, <1>5 DEF Opens
  <1>8. Equipped(p)'
    BY <1>3, <1>4, <1>5, <1>6, <1>7 DEF Equipped, Unclaiming
  <1>9. tasks'[proc[p].task].claim_token = proc[p].token
    BY DEF Advanced, Opens
  <1>10. \A u \in TaskId : u = proc[p].task => Opens(p, u)'
    BY <1>3, <1>4, <1>9 DEF Opens
  <1>11. Waits(p)' /\ Executes(p)'
    <2>1. Waits(p)'
      BY <1>3, <1>4 DEF Waits, Granted
    <2>2. Executes(p)'
      BY <1>3, <1>4, <1>5, <1>10 DEF Executes
    <2>3. QED
      BY <2>1, <2>2
  <1>12. Marked(p)'
    BY <1>3, <1>4 DEF Marked, BeforeStart
  <1>13. QED
    BY <1>3, <1>4, <1>8, <1>11, <1>12 DEF ProcessInv

LEMMA AdvanceKeeps ==
  ASSUME WorkersInv, NEW p \in Process, proc[p].pc \in {"claimed", "performed"},
         [BoardStep]_vars, Advanced(proc[p].task), Opens(p, proc[p].task),
         Continue(p, proc[p].task), UNCHANGED <<effects, kills>>
  PROVE  WorkersInv'
  <1>1. /\ BoardInv /\ WorkersTypeOK /\ TokensApart /\ RowsStay /\ OnlyResetAborts
        /\ \A q \in Process : ProcessInv(q)
        /\ \A u \in TaskId, s \in StepSeq : PaidFor(u, s)
    BY DEF WorkersInv
  <1>2. BoardInv' /\ TypeOK'
    BY <1>1, BoardNext DEF BoardInv, StepInv, CredentialInv
  <1>3. PICK t \in TaskId : t = proc[p].task
    BY <1>1 DEF ProcessInv, Equipped, Unclaiming
  <1>4. Advanced(t) /\ Opens(p, t) /\ Continue(p, t)
    BY <1>3
  <1>5. /\ UNCHANGED <<clock, nextTask, nextToken, resetLogged>>
        /\ \A u \in TaskId \ {t} : TaskKept(u)
    BY <1>4 DEF Advanced
  <1>6. /\ t < nextTask /\ proc[p].token # NULL
        /\ \A u \in TaskId : Opens(p, u) => u = t
    BY <1>1, <1>3, NullTypes DEF ProcessInv, Equipped, Unclaiming
  <1>7. Exists(t)
    BY <1>1, <1>4, <1>6, BoardParts DEF Opens
  <1>8. /\ \A s \in StepSeq, u \in TaskId : effects[u][s] \in Nat
        /\ proc[p].pc # "executing"
    BY <1>1 DEF WorkersTypeOK
  <1>9. ASSUME NEW q \in Process \ {p}, proc'[q] = proc[q], Noted(q)
        PROVE  ProcessInv(q)'
    <2>1. ~Opens(q, t)
      BY <1>1, <1>4, <1>6 DEF Opens, TokensApart
    <2>2. \A u \in TaskId : Undisturbed(u) \/ ~Opens(q, u)
      BY <1>5, <2>1 DEF Undisturbed
    <2>3. QED
      BY <1>1, <1>9, <2>2, Carried
  <1>10. RowsStay'
    <2>1. \A u \in TaskId : ~Exists(u)' => ~Exists(u)
      BY <1>5, <1>4 DEF Advanced, TaskKept, Exists
    <2>2. QED
      BY <1>1, <1>5, <2>1 DEF RowsStay
  <1>11. ASSUME NEW u \in TaskId \ {t}, NEW s \in StepSeq,
               Executing(u, s)' \subseteq Executing(u, s)
        PROVE  PaidFor(u, s)'
    <2>1. Undisturbed(u) /\ nextTask <= nextTask'
      BY <1>1, <1>5, BoardParts DEF Undisturbed
    <2>2. QED
      BY <1>1, <1>2, <1>8, <1>11, <2>1, NobodyAhead, PaidQuiet
  <1>12. ASSUME NEW s \in StepSeq,
                IsFiniteSet(Executing(t, s)'),
                Cardinality(Executing(t, s)') + ToCome(t, s)'
                  <= Cardinality(Executing(t, s)) + ToCome(t, s)
         PROVE  PaidFor(t, s)'
    BY <1>1, <1>4, <1>6, <1>7, <1>8, <1>12, PaidAdvance
  <1>13. /\ tasks'[t].claimed_by = tasks[t].claimed_by
         /\ \A u \in TaskId : tasks'[u].claim_token = proc[p].token => Opens(p, u)
    <2>1. TaskChange(t)
      BY <1>1, BoardParts, NextChange
    <2>2. tasks[t].claim_token # NULL /\ tasks'[t].claim_token = tasks[t].claim_token
      BY <1>4, <1>6 DEF Opens, Advanced
    <2>3. tasks'[t].claimed_by = tasks[t].claimed_by
      BY <1>1, <2>1, <2>2, HolderSame
    <2>4. \A u \in TaskId : tasks'[u].claim_token = tasks[u].claim_token
      BY <1>5, <2>2 DEF TaskKept
    <2>5. QED
      BY <2>3, <2>4 DEF Opens
  <1>14. ASSUME NEW s \in StepSeq, Executing(t, s)' \subseteq Executing(t, s)
         PROVE  PaidFor(t, s)'
    <2>1. IsFiniteSet(Executing(t, s))
      BY <1>1 DEF PaidFor
    <2>2. /\ IsFiniteSet(Executing(t, s)')
          /\ Cardinality(Executing(t, s)') <= Cardinality(Executing(t, s))
          /\ Cardinality(Executing(t, s)') \in Nat /\ Cardinality(Executing(t, s)) \in Nat
      BY <1>14, <2>1, FS_Subset, FS_CardinalityType
    <2>3. /\ ToCome(t, s)' <= ToCome(t, s)
          /\ ToCome(t, s) \in {0, 1} /\ ToCome(t, s)' \in {0, 1}
      BY <1>4 DEF Advanced, ToCome
    <2>4. QED
      BY <1>12, <2>2, <2>3
  <1>15. CASE tasks'[t].status = "running" /\ \E s \in StepSeq : steps'[t][s] = "running"
    <2> DEFINE next == CHOOSE s \in StepSeq : steps'[t][s] = "running"
    <2>1. next \in StepSeq /\ steps'[t][next] = "running"
      BY <1>15
    <2>2. Become(p, [proc[p] EXCEPT !.pc = "executing", !.step = next])
      BY <1>4, <1>15 DEF Continue
    <2> HIDE DEF next
    <2>3. /\ proc' \in [Process -> ProcessState] /\ overdue' \subseteq Process
          /\ \A q \in Process \ {p} : proc'[q] = proc[q] /\ Noted(q)
          /\ proc'[p].pc = "executing" /\ proc'[p].task = t
          /\ proc'[p].token = proc[p].token /\ proc'[p].step = next
          /\ ProcessInv(p)'
      BY <1>2, <1>3, <1>4, <1>15, <1>13, <2>1, <2>2, GoesOn
    <2>4. WorkersTypeOK'
      BY <1>1, <1>2, <2>3 DEF WorkersTypeOK
    <2>5. \A q \in Process : ProcessInv(q)'
      BY <1>9, <2>3
    <2>6. \A q \in Process : proc'[q].token = proc[q].token
      BY <2>3
    <2>7. TokensApart' /\ OnlyResetAborts'
      BY <1>1, <1>5, <2>3, <2>6 DEF TokensApart, OnlyResetAborts
    <2>8. ASSUME NEW u \in TaskId, NEW s \in StepSeq PROVE PaidFor(u, s)'
      <3>1. CASE u # t
        <4>1. Executing(u, s)' \subseteq Executing(u, s)
          BY <2>3, <3>1 DEF Executing
        <4>2. QED
          BY <1>11, <3>1, <4>1
      <3>2. CASE u = t /\ s = next
        <4>1. Executing(t, s)' = Executing(t, s) \cup {p} /\ p \notin Executing(t, s)
          BY <1>3, <1>8, <2>3, <3>2 DEF Executing
        <4>2. IsFiniteSet(Executing(t, s))
          BY <1>1 DEF PaidFor
        <4>3. /\ IsFiniteSet(Executing(t, s)')
              /\ Cardinality(Executing(t, s)') = Cardinality(Executing(t, s)) + 1
              /\ Cardinality(Executing(t, s)) \in Nat
          BY <4>1, <4>2, FS_AddElement, FS_CardinalityType
        <4>4. ToCome(t, s) = 1 /\ ToCome(t, s)' = 0
          BY <1>4, <2>1, <3>2 DEF Advanced, ToCome
        <4>5. QED
          BY <1>12, <3>2, <4>3, <4>4
      <3>3. CASE u = t /\ s # next
        <4>1. Executing(t, s)' \subseteq Executing(t, s)
          BY <2>3, <3>3 DEF Executing
        <4>2. QED
          BY <1>14, <3>3, <4>1
      <3>4. QED
        BY <3>1, <3>2, <3>3
    <2>9. QED
      BY <1>2, <1>10, <2>4, <2>5, <2>7, <2>8 DEF WorkersInv
  <1>16. CASE ~(tasks'[t].status = "running" /\ \E s \in StepSeq : steps'[t][s] = "running")
    <2>1. Become(p, WithoutTask("polling", 0))
      BY <1>4, <1>16, IdleStates DEF Continue
    <2>2. WithoutTask("polling", 0) \in ProcessState
      BY DEF WithoutTask, ProcessState
    <2>3. /\ proc' \in [Process -> ProcessState]
          /\ proc'[p] = WithoutTask("polling", 0)
          /\ \A q \in Process \ {p} : proc'[q] = proc[q] /\ Noted(q)
          /\ overdue' \subseteq Process
      BY <1>1, <1>5, <2>1, <2>2, BecomeOne, OthersNoted
    <2>4. ProcessInv(p)' /\ proc'[p].pc = "polling" /\ proc'[p].token = NULL
      BY <2>3, Unequipped DEF Unclaiming, BeforeStart
    <2>5. WorkersTypeOK'
      BY <1>1, <1>2, <2>3 DEF WorkersTypeOK
    <2>6. \A q \in Process : ProcessInv(q)'
      BY <1>9, <2>3, <2>4
    <2>7. TokensApart' /\ OnlyResetAborts'
      BY <1>1, <1>5, <2>3, <2>4 DEF TokensApart, OnlyResetAborts
    <2>8. ASSUME NEW u \in TaskId, NEW s \in StepSeq PROVE PaidFor(u, s)'
      <3>1. Executing(u, s)' \subseteq Executing(u, s)
        BY <2>3, <2>4 DEF Executing
      <3>2. QED
        BY <1>11, <1>14, <3>1
    <2>9. QED
      BY <1>2, <1>10, <2>5, <2>6, <2>7, <2>8 DEF WorkersInv
  <1>17. QED
    BY <1>15, <1>16
LEMMA StartAdvances ==
  ASSUME WorkersInv, NEW t \in TaskId, NEW w \in Workers, NEW token \in Token,
         StartTask(t, w, token)
  PROVE  Advanced(t) /\ [BoardStep]_vars
  <1>1. BoardInv /\ TypeOK /\ tasks[t] \in TaskRow /\ StepsFollow(t)
    BY BoardParts DEF WorkersInv
  <1>2. PICK n \in StepSeq : /\ IsFirst(n, PendingSteps(t))
                             /\ steps' = [steps EXCEPT ![t][n] = "running"]
    BY DEF StartTask
  <1>3. /\ tasks[t].status = "claimed" /\ logs' = logs
        /\ tasks' = [tasks EXCEPT ![t] = Started(tasks[t], GroupParameters(t))]
        /\ audit' = RecordOperation(audit, t, "start")
        /\ UNCHANGED <<clock, nextTask, nextToken, resetLogged>>
    BY DEF StartTask
  <1>4. tasks'[t].status = "running" /\ tasks'[t].claim_token = tasks[t].claim_token
    BY <1>1, <1>3 DEF Started, TypeOK, TaskRow
  <1>5. audit'[t]["manual_requeue"] = audit[t]["manual_requeue"]
    BY <1>1, <1>3, RecordLogged DEF Logged, Event
  <1>6. ASSUME NEW s \in StepSeq
        PROVE  /\ steps'[t][s] \in {"pending", "running"} => steps[t][s] = "pending"
               /\ logs'[t][s] # NULL => effects[t][s] > 0
    <2>1. steps[t][n] = "pending" /\ steps[t][s] # "running"
      BY <1>1, <1>2, <1>3 DEF IsFirst, PendingSteps, StepsFollow, SomeStep
    <2>2. steps'[t][s] = IF s = n THEN "running" ELSE steps[t][s]
      BY <1>1, <1>2 DEF TypeOK
    <2>3. logs[t][s] # NULL => effects[t][s] > 0
      BY DEF WorkersInv, PaidFor
    <2>4. QED
      BY <1>3, <2>1, <2>2, <2>3
  <1>7. ASSUME NEW u \in TaskId \ {t} PROVE TaskKept(u)
    <2>1. Logged(u, {})
      BY <1>1, <1>3, RecordLogged DEF Event
    <2>2. tasks'[u] = tasks[u] /\ steps'[u] = steps[u] /\ logs'[u] = logs[u]
      BY <1>1, <1>2, <1>3 DEF TypeOK
    <2>3. QED
      BY <2>1, <2>2 DEF TaskKept, StepsKept
  <1>8. [BoardStep]_vars
    BY DEF BoardStep, Next, HolderRequest
  <1>9. Exists(t)'
    BY <1>4 DEF Exists
  <1>10. QED
    BY <1>3, <1>4, <1>5, <1>6, <1>7, <1>8, <1>9 DEF Advanced

LEMMA StartKeeps ==
  ASSUME WorkersInv, NEW p \in Process, Start(p)
  PROVE  WorkersInv'
  <1>1. /\ proc[p].pc = "claimed" /\ proc[p].pc \notin Unclaiming
        /\ UNCHANGED <<effects, kills>>
    BY DEF Start, Unclaiming
  <1>2. Equipped(p) /\ Waits(p)
    BY DEF WorkersInv, ProcessInv
  <1>3. PICK t \in TaskId, token \in Token : t = proc[p].task /\ token = proc[p].token
    BY <1>1, <1>2 DEF Equipped
  <1>4. WorkerIdOf[p] \in Workers
    BY ProcessAssumption
  <1>5. CASE StartTask(t, WorkerIdOf[p], token) /\ Continue(p, t)
    <2>1. Opens(p, t)
      BY <1>3, <1>5 DEF StartTask, CredentialsMatch, Opens
    <2>2. Advanced(t) /\ [BoardStep]_vars
      BY <1>4, <1>5, StartAdvances
    <2>3. QED
      BY <1>1, <1>3, <1>5, <2>1, <2>2, AdvanceKeeps
  <1>6. CASE RetryStart(t, WorkerIdOf[p], token)
    <2>1. Opens(p, t) /\ tasks[t].status = "running"
      BY <1>3, <1>6 DEF RetryStart, CredentialsMatch, Opens
    <2>2. QED
      BY <1>1, <1>2, <1>3, <2>1 DEF Waits, Granted
  <1>7. CASE Rejected(p, t)
    BY <1>1, <1>3, <1>7, RejectedKeeps
  <1>8. QED
    BY <1>3, <1>5, <1>6, <1>7 DEF Start

LEMMA ReportAdvances ==
  ASSUME WorkersInv, NEW t \in TaskId, NEW n \in StepSeq, NEW w \in Workers,
         NEW token \in Token, NEW outcome \in Outcome,
         CompleteStep(t, n, w, token, outcome), effects[t][n] > 0
  PROVE  Advanced(t) /\ [BoardStep]_vars
  <1>1. BoardInv /\ TypeOK /\ tasks[t] \in TaskRow
    BY BoardParts DEF WorkersInv
  <1>2. /\ tasks[t].status = "running" /\ steps[t][n] = "running"
        /\ logs' = [logs EXCEPT ![t][n] = outcome]
        /\ steps' = [steps EXCEPT ![t] = StepsAfterReport(t, n, outcome)]
        /\ tasks' = [tasks EXCEPT ![t] = TaskAfterReport(t, n, outcome)]
        /\ audit' = RecordOperation(audit, t, "step_report")
        /\ UNCHANGED <<clock, nextTask, nextToken, resetLogged>>
    BY DEF CompleteStep
  <1>3. /\ tasks'[t].status \in {"failed", "done", "running"}
        /\ tasks'[t].claim_token = tasks[t].claim_token
    BY <1>1, <1>2 DEF TaskAfterReport, TypeOK, TaskRow
  <1>4. audit'[t]["manual_requeue"] = audit[t]["manual_requeue"]
    BY <1>1, <1>2, RecordLogged DEF Logged, Event
  <1>5. ASSUME NEW s \in StepSeq
        PROVE  /\ steps'[t][s] \in {"pending", "running"} => steps[t][s] = "pending"
               /\ logs'[t][s] # NULL => effects[t][s] > 0
    <2>1. steps[t][s] = "running" => s = n
      BY <1>1, <1>2, AtMostOneRuns
    <2>2. /\ steps'[t][s] = StepsAfterReport(t, n, outcome)[s]
          /\ logs'[t][s] = IF s = n THEN outcome ELSE logs[t][s]
      BY <1>1, <1>2 DEF TypeOK
    <2>3. /\ s = n => steps'[t][s] \in {"done", "failed"}
          /\ s # n => \/ steps'[t][s] = steps[t][s]
                      \/ steps[t][s] = "pending"
      BY <2>2 DEF StepsAfterReport
    <2>4. logs[t][s] # NULL => effects[t][s] > 0
      BY DEF WorkersInv, PaidFor
    <2>5. QED
      BY <2>1, <2>2, <2>3, <2>4
  <1>6. ASSUME NEW u \in TaskId \ {t} PROVE TaskKept(u)
    <2>1. Logged(u, {})
      BY <1>1, <1>2, RecordLogged DEF Event
    <2>2. tasks'[u] = tasks[u] /\ steps'[u] = steps[u] /\ logs'[u] = logs[u]
      BY <1>1, <1>2 DEF TypeOK
    <2>3. QED
      BY <2>1, <2>2 DEF TaskKept, StepsKept
  <1>7. [BoardStep]_vars
    BY DEF BoardStep, Next, HolderRequest
  <1>8. Exists(t)'
    BY <1>3 DEF Exists
  <1>9. QED
    BY <1>2, <1>3, <1>4, <1>5, <1>6, <1>7, <1>8 DEF Advanced

(* Its step is under way, so the report it makes is the first.             *)
LEMMA ReportKeeps ==
  ASSUME WorkersInv, NEW p \in Process, Report(p)
  PROVE  WorkersInv'
  <1>1. /\ proc[p].pc = "performed" /\ proc[p].pc \notin Unclaiming
        /\ UNCHANGED <<effects, kills>>
    BY DEF Report, Unclaiming
  <1>2. BoardInv /\ Equipped(p) /\ Executes(p)
    BY DEF WorkersInv, ProcessInv
  <1>3. PICK t \in TaskId, token \in Token : t = proc[p].task /\ token = proc[p].token
    BY <1>1, <1>2 DEF Equipped
  <1>4. PICK s \in StepSeq : s = proc[p].step
    BY <1>1, <1>2 DEF Executes, Working
  <1>5. /\ effects[t][s] > 0 /\ WorkerIdOf[p] \in Workers
        /\ Opens(p, t) => steps[t][s] = "running"
    BY <1>1, <1>2, <1>3, <1>4, ProcessAssumption DEF Executes, Working
  <1>6. ASSUME NEW outcome \in Outcome,
               CompleteStep(t, s, WorkerIdOf[p], token, outcome), Continue(p, t)
        PROVE  WorkersInv'
    <2>1. Opens(p, t)
      BY <1>3, <1>6 DEF CompleteStep, CredentialsMatch, Opens
    <2>2. Advanced(t) /\ [BoardStep]_vars
      BY <1>5, <1>6, ReportAdvances
    <2>3. QED
      BY <1>1, <1>3, <1>6, <2>1, <2>2, AdvanceKeeps
  <1>7. ASSUME NEW outcome \in Outcome,
               DuplicateReport(t, s, WorkerIdOf[p], token, outcome)
        PROVE  FALSE
    <2>1. Opens(p, t) /\ logs[t][s] # NULL
      BY <1>3, <1>7 DEF DuplicateReport, CredentialsMatch, Opens
    <2>2. LedgerOf(t) /\ logs[t][s] \in Outcome \cup {NULL}
      BY <1>2, BoardParts
    <2>3. QED
      BY <1>5, <2>1, <2>2 DEF LedgerOf, Outcome
  <1>8. CASE Rejected(p, t)
    BY <1>1, <1>3, <1>8, RejectedKeeps
  <1>9. QED
    BY <1>3, <1>4, <1>6, <1>7, <1>8 DEF Report
-----------------------------------------------------------------------------
(* The inductive invariant.                                                *)

THEOREM WorkersInitHolds == WorkersInit => WorkersInv
  <1> SUFFICES ASSUME WorkersInit PROVE WorkersInv
    OBVIOUS
  <1>1. BoardInv /\ TypeOK
    BY BoardInit, InitType DEF WorkersInit
  <1>2. /\ proc = [p \in Process |-> Polling] /\ overdue = {} /\ kills = 0
        /\ effects = [t \in TaskId |-> [s \in StepSeq |-> 0]]
        /\ logs = [t \in TaskId |-> NoLogs] /\ nextTask = 1
        /\ tasks = [t \in TaskId |-> NoTask]
    BY DEF WorkersInit, Init
  <1>3. Polling \in ProcessState
    BY DEF Polling, ProcessState
  <1>4. /\ Polling.pc = "polling" /\ Polling.task = NULL /\ Polling.token = NULL
        /\ Polling.step = NULL
    BY DEF Polling
  <1>5. WorkersTypeOK
    BY <1>1, <1>2, <1>3, ProcessAssumption DEF WorkersTypeOK
  <1>6. \A p \in Process : ProcessInv(p)
    BY <1>2, <1>4
       DEF ProcessInv, Equipped, Waits, Executes, Marked, Unclaiming, Granted, Working, BeforeStart
  <1>7. TokensApart /\ OnlyResetAborts
    BY <1>2, <1>4 DEF TokensApart, OnlyResetAborts
  <1>8. RowsStay
    BY <1>2, BoundsAssumption DEF RowsStay, TaskId
  <1>9. ASSUME NEW t \in TaskId, NEW s \in StepSeq PROVE PaidFor(t, s)
    <2>1. Executing(t, s) = {}
      BY <1>2, <1>4 DEF Executing
    <2>2. IsFiniteSet(Executing(t, s))
      BY <2>1, FS_EmptySet
    <2>3. ~Exists(t) /\ effects[t][s] = 0 /\ logs[t][s] = NULL
      BY <1>2 DEF Exists, NoTask, NoLogs
    <2>4. QED
      BY <2>2, <2>3 DEF PaidFor
  <1>10. QED
    BY <1>1, <1>5, <1>6, <1>7, <1>8, <1>9 DEF WorkersInv

THEOREM WorkersNextKeeps == WorkersInv /\ [WorkersNext]_allVars => WorkersInv'
  <1> SUFFICES ASSUME WorkersInv, [WorkersNext]_allVars PROVE WorkersInv'
    OBVIOUS
  <1>1. ASSUME NEW p \in Process, WorkerStep(p) \/ Kill(p) \/ Respawn(p)
        PROVE  WorkersInv'
    <2>1. CASE AskForTask(p)
      BY <2>1, AskForTaskKeeps
    <2>2. CASE Claim(p)
      BY <2>2, ClaimKeeps
    <2>3. CASE ReadGrant(p)
      BY <2>3, ReadGrantKeeps
    <2>4. CASE Start(p)
      BY <2>4, StartKeeps
    <2>5. CASE Perform(p)
      BY <2>5, PerformKeeps
    <2>6. CASE Report(p)
      BY <2>6, ReportKeeps
    <2>7. CASE Kill(p)
      BY <2>7, KillKeeps
    <2>8. CASE Respawn(p)
      BY <2>8, RespawnKeeps
    <2>9. QED
      BY <1>1, <2>1, <2>2, <2>3, <2>4, <2>5, <2>6, <2>7, <2>8 DEF WorkerStep
  <1>2. CASE Operator
    <2>1. QuietBoard /\ UNCHANGED procVars /\ clock' = clock
      BY <1>2 DEF Operator, QuietBoard, CreateTask, RequeueTask
    <2>2. QED
      BY <2>1, BoardAloneKeeps DEF procVars
  <1>3. CASE ResetAll /\ UNCHANGED procVars
    <2>1. QuietBoard /\ clock' = clock
      BY <1>3 DEF QuietBoard, ResetAll
    <2>2. QED
      BY <1>3, <2>1, BoardAloneKeeps DEF procVars
  <1>4. CASE (Tick \/ ClockSetBack) /\ NoteDeadlines
    <2>1. QuietBoard /\ UNCHANGED <<proc, effects, kills>>
      BY <1>4 DEF QuietBoard, NoteDeadlines
    <2>2. QED
      BY <1>4, <2>1, BoardAloneKeeps
  <1>5. CASE UNCHANGED allVars
    <2>1. QuietBoard /\ UNCHANGED procVars /\ clock' = clock
      BY <1>5 DEF allVars, vars, QuietBoard
    <2>2. QED
      BY <2>1, BoardAloneKeeps DEF procVars
  <1>6. QED
    BY <1>1, <1>2, <1>3, <1>4, <1>5 DEF WorkersNext

THEOREM WorkersInvHolds == WorkersSpec => []WorkersInv
  BY WorkersInitHolds, WorkersNextKeeps, PTL DEF WorkersSpec

-----------------------------------------------------------------------------
(* What the worker processes promise.                                      *)

(* Tables and processes have the states that the code can put them in.     *)
THEOREM WorkersTypeCorrect == WorkersSpec => []WorkersTypeOK
  <1>1. WorkersInv => WorkersTypeOK
    BY DEF WorkersInv
  <1>2. QED
    BY <1>1, WorkersInvHolds, PTL

(* A worker loop ends by NotFoundError only after a reset wiped its task.  *)
THEOREM LoopsEndByResetOnly == WorkersSpec => []OnlyResetAborts
  <1>1. WorkersInv => OnlyResetAborts
    BY DEF WorkersInv
  <1>2. QED
    BY <1>1, WorkersInvHolds, PTL

LEMMA HolderOpens ==
  ASSUME WorkersInv, NEW p \in Process, proc[p].pc \notin Unclaiming
  PROVE  /\ proc[p].task \in TaskId
         /\ Holds(p, proc[p].task) <=> Opens(p, proc[p].task)
  <1>1. Equipped(p) /\ BoardInv
    BY DEF WorkersInv, ProcessInv
  <1>2. proc[p].task \in TaskId /\ proc[p].token # NULL
    BY <1>1, NullTypes DEF Equipped
  <1>3. Opens(p, proc[p].task) =>
          Exists(proc[p].task) /\ tasks[proc[p].task].claimed_by = WorkerIdOf[p]
    BY <1>1, <1>2, BoardParts DEF Equipped, Opens
  <1>4. QED
    BY <1>2, <1>3 DEF Holds, CredentialsMatch, Opens

(* A process that comes to start before the clock has ever been past the   *)
(* deadline it asked for is not refused, unless the operator requeued its  *)
(* task: no other claim, start or report, under its own worker_id or       *)
(* another, takes the task, whichever way the clock is moved.              *)
THEOREM PunctualityPays == WorkersSpec => []PunctualWorkersKeepTheirClaim
  <1>1. ASSUME WorkersInv PROVE PunctualWorkersKeepTheirClaim
    <2> SUFFICES ASSUME NEW p \in Process, proc[p].pc \in Granted,
                        Exists(proc[p].task), p \notin overdue
                 PROVE  \/ Holds(p, proc[p].task) /\ tasks[proc[p].task].status = "claimed"
                        \/ audit[proc[p].task]["manual_requeue"] > 0
      BY DEF PunctualWorkersKeepTheirClaim, Granted
    <2>1. Waits(p)
      BY <1>1 DEF WorkersInv, ProcessInv
    <2>2. proc[p].pc \notin Unclaiming
      BY DEF Granted, Unclaiming
    <2>3. QED
      BY <1>1, <2>1, <2>2, HolderOpens DEF Waits
  <1>2. QED
    BY <1>1, WorkersInvHolds, PTL

(* Two processes execute the same task at the same time only after the     *)
(* operator took it from one of them.                                      *)
THEOREM OneExecutorAtATime == WorkersSpec => []OneExecutor
  <1>1. ASSUME WorkersInv PROVE OneExecutor
    <2> SUFFICES ASSUME NEW t \in TaskId, NEW p \in Process, NEW q \in Process,
                        Busy(p, t), Busy(q, t), Exists(t),
                        ~(audit[t]["manual_requeue"] > 0)
                 PROVE  p = q
      BY DEF OneExecutor
    <2>1. /\ proc[p].pc \in Working /\ proc[p].task = t
          /\ proc[q].pc \in Working /\ proc[q].task = t
      BY DEF Busy, Working
    <2>2. /\ Equipped(p) /\ Executes(p) /\ Executes(q) /\ TokensApart
      BY <1>1 DEF WorkersInv, ProcessInv
    <2>3. Opens(p, t) /\ Opens(q, t)
      BY <2>1, <2>2 DEF Executes
    <2>4. proc[p].token # NULL
      BY <2>1, <2>2, NullTypes DEF Equipped, Working, Unclaiming
    <2>5. QED
      BY <2>2, <2>3, <2>4 DEF Opens, TokensApart
  <1>2. QED
    BY <1>1, WorkersInvHolds, PTL

(* The ledger never runs ahead of the world: a step with a report has been *)
(* executed, and the step the board shows under way is the one its holder  *)
(* is at.                                                                  *)
THEOREM LedgerFollowsTheWorld == WorkersSpec => []ReportsFollowEffects
  <1>1. ASSUME WorkersInv PROVE ReportsFollowEffects
    <2> SUFFICES ASSUME NEW t \in TaskId, NEW s \in StepSeq
                 PROVE  /\ logs[t][s] # NULL => effects[t][s] > 0
                        /\ \A p \in Process : Busy(p, t) /\ Holds(p, t)
                             => steps[t][proc[p].step] = "running"
      BY DEF ReportsFollowEffects
    <2>1. logs[t][s] # NULL => effects[t][s] > 0
      BY <1>1 DEF WorkersInv, PaidFor
    <2>2. ASSUME NEW p \in Process, Busy(p, t), Holds(p, t)
          PROVE  steps[t][proc[p].step] = "running"
      <3>1. proc[p].pc \in Working /\ proc[p].task = t /\ Opens(p, t)
        BY <2>2 DEF Busy, Working, Holds, CredentialsMatch, Opens
      <3>2. Executes(p)
        BY <1>1 DEF WorkersInv, ProcessInv
      <3>3. QED
        BY <3>1, <3>2 DEF Executes
    <2>3. QED
      BY <2>1, <2>2
  <1>2. QED
    BY <1>1, WorkersInvHolds, PTL

(* Nothing is executed twice behind the operator's back: crashes, lost     *)
(* leases and restarts under the same worker_id cannot make a step run     *)
(* again, only a manual requeue can, once each.                            *)
THEOREM ExecutionsArePaidFor == WorkersSpec => []EffectsAreCounted
  <1>1. ASSUME WorkersInv PROVE EffectsAreCounted
    <2> SUFFICES ASSUME NEW t \in TaskId, NEW s \in StepSeq, Exists(t)
                 PROVE  effects[t][s] <= 1 + audit[t]["manual_requeue"]
      BY DEF EffectsAreCounted
    <2>1. BoardInv /\ WorkersTypeOK /\ PaidFor(t, s)
      BY <1>1 DEF WorkersInv
    <2>2. effects[t][s] \in Nat /\ audit[t]["manual_requeue"] \in Nat
      BY <2>1, BoardParts DEF WorkersTypeOK
    <2>3. Cardinality(Executing(t, s)) \in Nat /\ ToCome(t, s) \in {0, 1}
      BY <2>1, FS_CardinalityType DEF PaidFor, ToCome
    <2>4. QED
      BY <2>1, <2>2, <2>3 DEF PaidFor
  <1>2. QED
    BY <1>1, WorkersInvHolds, PTL
-----------------------------------------------------------------------------
(* A step of the processes is a step of the board or leaves it alone, so   *)
(* the board keeps its promises whatever processes run against it, however *)
(* old the deadlines are that they bring along.                            *)

LEMMA StepsOfTheBoard == WorkersInv /\ [WorkersNext]_allVars => [BoardStep]_vars
  <1> SUFFICES ASSUME WorkersInv, [WorkersNext]_allVars PROVE [BoardStep]_vars
    OBVIOUS
  <1>1. BoardInv /\ WorkersTypeOK
    BY DEF WorkersInv
  <1>2. QuietBoard => [BoardStep]_vars
    BY <1>1, QuietSteps
  <1>3. ASSUME NEW p \in Process PROVE WorkerIdOf[p] \in Workers /\ proc[p].deadline \in Nat
    BY <1>1, ProcessAssumption, ProcessParts
  <1>4. ASSUME NEW p \in Process, Claim(p) PROVE QuietBoard
    BY <1>3, <1>4, DemoAssumption DEF Claim, QuietBoard, AnyClaim, ClaimNextTask
  <1>5. ASSUME NEW p \in Process, Start(p) PROVE [BoardStep]_vars
    <2>1. proc[p].task \in TaskId /\ proc[p].token \in Token
      BY <1>5 DEF WorkersInv, ProcessInv, Equipped, Start, Unclaiming
    <2>2. CASE StartTask(proc[p].task, WorkerIdOf[p], proc[p].token)
      BY <1>3, <2>1, <2>2 DEF BoardStep, Next, HolderRequest
    <2>3. QED
      BY <1>5, <2>2 DEF Start, RetryStart, Rejected
  <1>6. ASSUME NEW p \in Process, Report(p) PROVE [BoardStep]_vars
    <2>1. /\ proc[p].task \in TaskId /\ proc[p].token \in Token
          /\ proc[p].step \in StepSeq
      BY <1>6 DEF WorkersInv, ProcessInv, Equipped, Executes, Report, Unclaiming, Working
    <2>2. ASSUME NEW outcome \in Outcome,
                 \/ CompleteStep(proc[p].task, proc[p].step, WorkerIdOf[p], proc[p].token, outcome)
                 \/ DuplicateReport(proc[p].task, proc[p].step, WorkerIdOf[p], proc[p].token,
                                    outcome)
          PROVE  BoardStep
      BY <1>3, <2>1, <2>2 DEF BoardStep, Next, HolderRequest
    <2>3. QED
      BY <1>6, <2>2 DEF Report, Rejected
  <1>7. ASSUME NEW p \in Process,
               AskForTask(p) \/ ReadGrant(p) \/ Perform(p) \/ Kill(p) \/ Respawn(p)
        PROVE  UNCHANGED vars
    BY <1>7 DEF AskForTask, ReadGrant, Perform, Kill, Respawn
  <1>8. CASE Operator \/ ResetAll \/ Tick \/ ClockSetBack \/ UNCHANGED allVars
    <2>1. QuietBoard
      BY <1>8 DEF Operator, QuietBoard, allVars
    <2>2. QED
      BY <1>2, <2>1
  <1>9. QED
    BY <1>2, <1>4, <1>5, <1>6, <1>7, <1>8 DEF WorkersNext, WorkerStep

(* Every behaviour of the processes and the operator is, seen from the     *)
(* tables, one of the lifecycle of tasks.                                  *)
THEOREM WorkersImplementLifecycle == WorkersSpec => ImplementsLifecycle
  <1>1. WorkersInit => Lifecycle!Init
    BY InitImplements DEF WorkersInit
  <1>2. WorkersInv /\ [WorkersNext]_allVars
          => [Lifecycle!Next]_(Lifecycle!lifecycleVars)
    <2>1. WorkersInv => BoardInv
      BY DEF WorkersInv
    <2>2. QED
      BY <2>1, StepsOfTheBoard, NextImplements
  <1>3. QED
    BY <1>1, <1>2, WorkersInvHolds, PTL DEF WorkersSpec, ImplementsLifecycle, Lifecycle!Spec

(* A process loses its task only to the operator, or before it has started *)
(* and after its deadline, whatever the other processes do.                *)
THEOREM WorkersKeepTheirTask == WorkersSpec => HoldersKeepTheirTask
  <1>1. WorkersInv => StepInv
    BY DEF WorkersInv, BoardInv
  <1>2. WorkersInv /\ [WorkersNext]_allVars =>
          [\A t \in TaskId :
             Survives(t) /\ tasks[t].claim_token # NULL
                        /\ tasks'[t].claim_token # tasks[t].claim_token
             => \/ audit'[t]["manual_requeue"] > audit[t]["manual_requeue"]
                \/ /\ tasks[t].status = "claimed" /\ tasks[t].lease_expires_at < clock
                   /\ audit'[t]["lease_reclaim"] > audit[t]["lease_reclaim"]]_vars
    BY <1>1, StepsOfTheBoard, HolderKept
  <1>3. QED
    BY <1>2, WorkersInvHolds, PTL DEF WorkersSpec, HoldersKeepTheirTask
=============================================================================
