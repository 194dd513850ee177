------------------------- MODULE TaskBoardRefinement -------------------------
(***************************************************************************)
(* Every behaviour of TaskBoard is a behaviour of TaskLifecycle under the  *)
(* mapping TaskBoard!Lifecycle: initial states map to initial states and   *)
(* every action to one action of TaskLifecycle or to a stuttering step.    *)
(***************************************************************************)
EXTENDS TaskBoardProofs

(* What the proof uses of the invariant.                                   *)
LEMMA BoardFacts ==
  ASSUME BoardInv
  PROVE  /\ TypeOK /\ StepInv
         /\ \A t \in TaskId :
              /\ tasks[t] \in TaskRow
              /\ steps[t] \in [StepSeq -> StepStatus \cup {"absent"}]
              /\ logs[t] \in [StepSeq -> Outcome \cup {NULL}]
              /\ t >= nextTask => tasks[t] = NoTask
              /\ StepsFollow(t)
              /\ ColumnsAgree(tasks[t])
              /\ LedgerOf(t)
         /\ nextTask \in Nat /\ nextToken \in Nat /\ nextToken >= 1
BY BoundsAssumption DEF BoardInv, StepInv, CredentialInv, TypeOK, UnusedIds, StepsFollowTask,
   LedgerAgrees, LedgerOf, ClaimColumnsAgree

(* A row that exists has an id that was handed out, and its phase is its   *)
(* status under another name.                                              *)
LEMMA PhaseOfRow ==
  ASSUME BoardInv, NEW t \in TaskId, Exists(t)
  PROVE  /\ t < nextTask
         /\ tasks[t].status = "pending" => Phase(t) = "queued"
         /\ tasks[t].status = "claimed" => Phase(t) = "held"
         /\ tasks[t].status = "running" => Phase(t) = "executing"
<1>1. t < nextTask
  BY BoardFacts DEF Exists, NoTask, TaskId
<1> QED
  BY <1>1, BoardFacts DEF Phase, PhaseName, TaskId

LEMMA InitImplements == Init => Lifecycle!Init
<1> SUFFICES ASSUME Init PROVE Lifecycle!Init
  OBVIOUS
<1>1. PhaseNow = [t \in TaskId |-> "none"]
  BY DEF Init, PhaseNow, Phase, TaskId
<1>2. CredentialNow = [t \in TaskId |-> NULL] /\ ParamsNow = [t \in TaskId |-> NULL]
  BY DEF Init, CredentialNow, ParamsNow, NoTask
<1>3. PlanNow = [t \in TaskId |-> {}]
  BY DEF Init, PlanNow, NoSteps
<1>4. SpentNow = {}
  BY DEF Init, SpentNow
<1>5. logs = [t \in TaskId |-> [s \in StepSeq |-> NULL]]
  BY DEF Init, NoLogs
<1> QED
  BY <1>1, <1>2, <1>3, <1>4, <1>5 DEF Lifecycle!Init

LEMMA Stutters ==
  ASSUME UNCHANGED <<tasks, steps, logs, nextTask, nextToken>>
  PROVE  UNCHANGED Lifecycle!lifecycleVars
<1>1. UNCHANGED <<PhaseNow, CredentialNow, PlanNow, ParamsNow, SpentNow>>
  BY DEF PhaseNow, Phase, CredentialNow, PlanNow, ParamsNow, SpentNow
<1> QED
  BY <1>1 DEF Lifecycle!lifecycleVars

LEMMA CreateTaskImplements ==
  ASSUME BoardInv, NEW g \in GroupId \cup {NULL}, NEW n \in StepSeq, CreateTask(g, n),
         NEW u \in TaskId, u = nextTask
  PROVE  Lifecycle!Next
<1> DEFINE P == {s \in StepSeq : s <= n}
<1>1. nextTask' = u + 1 /\ u \in Nat
  BY DEF CreateTask, TaskId
<1>2. /\ \A t \in TaskId \ {u} : tasks'[t] = tasks[t] /\ steps'[t] = steps[t]
      /\ tasks'[u].status = "pending"
      /\ tasks'[u].claim_token = NULL /\ tasks'[u].snapshot = NULL
      /\ steps'[u] = [s \in StepSeq |-> IF s <= n THEN "pending" ELSE "absent"]
      /\ logs' = logs /\ nextToken' = nextToken
  BY BoardFacts DEF CreateTask, Born, BornSteps, TypeOK, NoTask
<1>3. Phase(u) = "none" /\ Phase(u)' = "queued"
  BY <1>1, <1>2 DEF Phase, PhaseName
<1>4. \A t \in TaskId \ {u} : t \in Nat /\ (t >= u <=> t >= u + 1)
  BY <1>1 DEF TaskId
<1>5. ASSUME NEW t \in TaskId \ {u} PROVE Phase(t)' = Phase(t)
  BY <1>1, <1>2, <1>4 DEF Phase
<1>6. PhaseNow' = [PhaseNow EXCEPT ![u] = "queued"]
  BY <1>3, <1>5 DEF PhaseNow
<1>7. tasks[u].claim_token = NULL /\ tasks[u].snapshot = NULL
  BY <1>1, BoardFacts DEF NoTask
<1>8. CredentialNow' = CredentialNow /\ ParamsNow' = ParamsNow
  BY <1>2, <1>7 DEF CredentialNow, ParamsNow
<1>9. PlanNow' = [PlanNow EXCEPT ![u] = P]
  <2>1. {s \in StepSeq : steps'[u][s] # "absent"} = P
    BY <1>2
  <2>2. ASSUME NEW t \in TaskId \ {u} PROVE PlanNow'[t] = PlanNow[t]
    BY <1>2 DEF PlanNow
  <2>3. PlanNow'[u] = P
    BY <2>1 DEF PlanNow
  <2> HIDE DEF P
  <2>4. PlanNow' = [t \in TaskId |-> PlanNow'[t]] /\ PlanNow = [t \in TaskId |-> PlanNow[t]]
    BY DEF PlanNow
  <2> QED
    BY <2>2, <2>3, <2>4
<1>10. Lifecycle!Submit(u, P)
  BY <1>2, <1>3, <1>6, <1>8, <1>9 DEF Lifecycle!Submit, PhaseNow, SpentNow
<1> QED
  BY <1>10 DEF Lifecycle!Next

LEMMA SeedRunningImplements ==
  ASSUME BoardInv, NEW g \in GroupId, NEW n \in StepSeq, NEW lease \in Leases,
         SeedRunning(g, n, lease), NEW u \in TaskId, u = nextTask, NEW c, c = nextToken
  PROVE  Lifecycle!Next
<1> DEFINE P == {s \in StepSeq : s <= n}
<1>1. /\ nextTask' = u + 1 /\ u \in Nat
      /\ nextToken' = c + 1 /\ c \in Token
      /\ logs' = logs
  BY BoardFacts, BoundsAssumption DEF SeedRunning, TaskId, Token
<1>2. /\ \A t \in TaskId \ {u} : tasks'[t] = tasks[t] /\ steps'[t] = steps[t]
      /\ tasks'[u] = Claimed(Born(g), DemoWorker, LeaseExpiry(lease, 0))
      /\ steps'[u] = [s \in StepSeq |-> IF s <= n THEN "pending" ELSE "absent"]
  BY BoardFacts DEF SeedRunning, BornSteps, TypeOK
<1>3. /\ tasks'[u].status = "claimed"
      /\ tasks'[u].claim_token = c /\ tasks'[u].snapshot = NULL
  BY <1>2 DEF Claimed, Born, NoTask
<1>4. Phase(u) = "none" /\ Phase(u)' = "held"
  BY <1>1, <1>3 DEF Phase, PhaseName
<1>5. \A t \in TaskId \ {u} : t \in Nat /\ (t >= u <=> t >= u + 1)
  BY <1>1 DEF TaskId
<1>6. ASSUME NEW t \in TaskId \ {u} PROVE Phase(t)' = Phase(t)
  BY <1>1, <1>2, <1>5 DEF Phase
<1>7. PhaseNow' = [PhaseNow EXCEPT ![u] = "held"]
  BY <1>4, <1>6 DEF PhaseNow
<1>8. tasks[u].snapshot = NULL
  BY <1>1, BoardFacts DEF NoTask
<1>9. CredentialNow' = [CredentialNow EXCEPT ![u] = c] /\ ParamsNow' = ParamsNow
  BY <1>2, <1>3, <1>8 DEF CredentialNow, ParamsNow
<1>10. PlanNow' = [PlanNow EXCEPT ![u] = P]
  <2>1. {s \in StepSeq : steps'[u][s] # "absent"} = P
    BY <1>2
  <2>2. ASSUME NEW t \in TaskId \ {u} PROVE PlanNow'[t] = PlanNow[t]
    BY <1>2 DEF PlanNow
  <2>3. PlanNow'[u] = P
    BY <2>1 DEF PlanNow
  <2> HIDE DEF P
  <2>4. PlanNow' = [t \in TaskId |-> PlanNow'[t]] /\ PlanNow = [t \in TaskId |-> PlanNow[t]]
    BY DEF PlanNow
  <2> QED
    BY <2>2, <2>3, <2>4
<1>11. c \notin SpentNow /\ SpentNow' = SpentNow \cup {c}
  BY <1>1 DEF SpentNow, Token
<1>12. Lifecycle!SubmitGranted(u, P, c)
  BY <1>1, <1>4, <1>7, <1>9, <1>10, <1>11 DEF Lifecycle!SubmitGranted, PhaseNow
<1> QED
  BY <1>1, <1>12 DEF Lifecycle!Next

(* The claims whose deadline has passed.                                   *)
Lapsed == {t \in TaskId : Expired(t)}

LEMMA LapsedHeld ==
  ASSUME BoardInv, NEW t \in TaskId
  PROVE  Phase(t) = "held" <=> tasks[t].status = "claimed"
<1>1. tasks[t].status = "claimed" => t < nextTask
  BY BoardFacts DEF NoTask, TaskId
<1>2. tasks[t].status \in TaskStatus \cup {"absent"}
  BY BoardFacts DEF TaskRow
<1> QED
  BY <1>1, <1>2, BoardFacts DEF Phase, PhaseName, TaskId, TaskStatus

(* What a reclaim leaves of a task in the mapping.                         *)
LEMMA ReclaimedPhase ==
  ASSUME BoardInv, NEW t \in TaskId, nextTask' = nextTask,
         tasks'[t] = ReclaimExpiredLeases[t]
  PROVE  /\ Phase(t)' = IF t \in Lapsed THEN "queued" ELSE Phase(t)
         /\ tasks'[t].claim_token = IF t \in Lapsed THEN NULL ELSE tasks[t].claim_token
         /\ tasks'[t].snapshot = tasks[t].snapshot
<1>1. CASE Expired(t)
  <2>0. tasks[t] \in TaskRow /\ tasks'[t] = Released(tasks[t])
    BY <1>1, ReclaimedRow, BoardFacts
  <2>1. /\ tasks'[t].status = "pending" /\ tasks'[t].claim_token = NULL
        /\ tasks'[t].snapshot = tasks[t].snapshot
    BY <2>0 DEF Released, TaskRow
  <2>2. t < nextTask
    BY <1>1, BoardFacts DEF Expired, NoTask, TaskId
  <2> QED
    BY <1>1, <2>1, <2>2, BoardFacts DEF Phase, PhaseName, Lapsed, TaskId
<1>2. CASE ~Expired(t)
  <2>1. tasks'[t] = tasks[t]
    BY <1>2, ReclaimedRow, BoardFacts
  <2> QED
    BY <1>2, <2>1 DEF Phase, PhaseName, Lapsed
<1> QED
  BY <1>1, <1>2

LEMMA ClaimNothingImplements ==
  ASSUME BoardInv, ClaimNothing
  PROVE  Lifecycle!Next
<1>1. /\ \A t \in TaskId : tasks'[t] = ReclaimExpiredLeases[t]
      /\ nextTask' = nextTask /\ nextToken' = nextToken /\ steps' = steps /\ logs' = logs
  BY DEF ClaimNothing
<1>2. Lapsed \subseteq TaskId /\ \A t \in Lapsed : PhaseNow[t] = "held"
  BY LapsedHeld DEF Lapsed, Expired, PhaseNow
<1>3. PhaseNow' = [t \in TaskId |-> IF t \in Lapsed THEN "queued" ELSE PhaseNow[t]]
  BY <1>1, ReclaimedPhase DEF PhaseNow
<1>4. CredentialNow' = [t \in TaskId |-> IF t \in Lapsed THEN NULL ELSE CredentialNow[t]]
  BY <1>1, ReclaimedPhase DEF CredentialNow
<1>5. ParamsNow' = ParamsNow
  BY <1>1, ReclaimedPhase DEF ParamsNow
<1>6. Lifecycle!Withdraw(Lapsed)
  BY <1>1, <1>2, <1>3, <1>4, <1>5 DEF Lifecycle!Withdraw, PlanNow, SpentNow
<1> QED
  BY <1>2, <1>6 DEF Lifecycle!Next

LEMMA ClaimTaskImplements ==
  ASSUME BoardInv, NEW w \in Workers, NEW expiry \in Nat, NEW t \in TaskId,
         ClaimTask(w, expiry, t), NEW c, c = nextToken
  PROVE  Lifecycle!Next
<1>1. /\ Unclaimed(ReclaimExpiredLeases[t])
      /\ tasks' = [ReclaimExpiredLeases EXCEPT ![t] = Claimed(@, w, expiry)]
      /\ nextTask' = nextTask /\ nextToken' = c + 1 /\ steps' = steps /\ logs' = logs
  BY DEF ClaimTask
<1>2. ReclaimExpiredLeases \in [TaskId -> TaskRow]
  BY BoardFacts, ReclaimType
<1>3. \A u \in TaskId \ {t} : tasks'[u] = ReclaimExpiredLeases[u]
  BY <1>1, <1>2
<1>4. /\ tasks'[t].status = "claimed" /\ tasks'[t].claim_token = c
      /\ tasks'[t].snapshot = ReclaimExpiredLeases[t].snapshot
  BY <1>1, <1>2 DEF Claimed, TaskRow
<1>5. ReclaimExpiredLeases[t].snapshot = tasks[t].snapshot
  BY ReclaimedRow, BoardFacts DEF Released, TaskRow
<1>6. Phase(t) = "queued" \/ t \in Lapsed
  BY <1>1, ReclaimedRow, PhaseOfRow, BoardFacts DEF Unclaimed, Lapsed, Exists
<1>7. t < nextTask
  BY <1>6, BoardFacts DEF Phase, PhaseName, Lapsed, Expired, NoTask, TaskId
<1>8. Phase(t)' = "held"
  BY <1>1, <1>4, <1>7, BoardFacts DEF Phase, PhaseName, TaskId
<1>9. Lapsed \subseteq TaskId /\ \A u \in Lapsed : PhaseNow[u] = "held"
  BY LapsedHeld DEF Lapsed, Expired, PhaseNow
<1>10. PhaseNow' = [u \in TaskId |-> IF u = t THEN "held"
                                     ELSE IF u \in Lapsed THEN "queued" ELSE PhaseNow[u]]
  BY <1>1, <1>3, <1>8, ReclaimedPhase DEF PhaseNow
<1>11. CredentialNow' = [u \in TaskId |-> IF u = t THEN c
                                          ELSE IF u \in Lapsed THEN NULL ELSE CredentialNow[u]]
  BY <1>1, <1>3, <1>4, ReclaimedPhase DEF CredentialNow
<1>12. ParamsNow' = ParamsNow
  BY <1>1, <1>3, <1>4, <1>5, ReclaimedPhase DEF ParamsNow
<1>13. c \in Token /\ c \notin SpentNow /\ SpentNow' = SpentNow \cup {c}
  BY <1>1, BoardFacts, BoundsAssumption DEF ClaimTask, SpentNow, Token
<1>14. Lifecycle!Grant(Lapsed, t, c)
  BY <1>1, <1>6, <1>9, <1>10, <1>11, <1>12, <1>13 DEF Lifecycle!Grant, PlanNow, PhaseNow
<1> QED
  BY <1>9, <1>13, <1>14 DEF Lifecycle!Next

(* A row that an action leaves alone stays as it is in the mapping.        *)
LEMMA OtherTasks ==
  ASSUME nextTask' = nextTask, NEW u \in TaskId, tasks'[u] = tasks[u]
  PROVE  /\ PhaseNow'[u] = PhaseNow[u] /\ Phase(u)' = Phase(u)
         /\ CredentialNow'[u] = CredentialNow[u] /\ ParamsNow'[u] = ParamsNow[u]
BY DEF PhaseNow, Phase, CredentialNow, ParamsNow

LEMMA StartTaskImplements ==
  ASSUME BoardInv, NEW t \in TaskId, NEW w \in Workers, NEW token \in Token,
         StartTask(t, w, token), NEW p, p = GroupParameters(t)
  PROVE  Lifecycle!Next
<1>1. /\ tasks[t].status = "claimed" /\ p # NULL
      /\ tasks' = [tasks EXCEPT ![t] = Started(@, p)]
      /\ nextTask' = nextTask /\ nextToken' = nextToken /\ logs' = logs
  BY DEF StartTask
<1>2. PICK s \in StepSeq : /\ steps[t][s] = "pending"
                           /\ steps' = [steps EXCEPT ![t][s] = "running"]
  BY DEF StartTask, IsFirst, PendingSteps
<1>3. tasks[t] \in TaskRow /\ tasks \in [TaskId -> TaskRow] /\ p \in Overrides
  BY <1>1, BoardFacts, GroupParametersType DEF TypeOK
<1>4. /\ tasks'[t].status = "running" /\ tasks'[t].snapshot = p
      /\ tasks'[t].claim_token = tasks[t].claim_token
  BY <1>1, <1>3 DEF Started, TaskRow
<1>5. \A u \in TaskId \ {t} : tasks'[u] = tasks[u]
  BY <1>1, <1>3
<1>6. t < nextTask /\ Phase(t) = "held"
  BY <1>1, PhaseOfRow DEF Exists
<1>7. Phase(t)' = "executing"
  BY <1>1, <1>4, <1>6, BoardFacts DEF Phase, PhaseName, TaskId
<1>8. PhaseNow' = [PhaseNow EXCEPT ![t] = "executing"]
  BY <1>1, <1>5, <1>7, OtherTasks DEF PhaseNow
<1>9. ParamsNow' = [ParamsNow EXCEPT ![t] = p]
  BY <1>4, <1>5 DEF ParamsNow
<1>10. CredentialNow' = CredentialNow
  BY <1>4, <1>5 DEF CredentialNow
<1>11. PlanNow' = PlanNow
  <2>1. \A u \in TaskId, q \in StepSeq : steps'[u][q] # "absent" <=> steps[u][q] # "absent"
    BY <1>2, BoardFacts DEF TypeOK
  <2> QED
    BY <2>1 DEF PlanNow
<1>12. s \in PlanNow[t] /\ logs[t][s] = NULL
  <2>1. logs[t][s] \in Outcome \cup {NULL}
    BY BoardFacts
  <2>2. logs[t][s] # "success" /\ logs[t][s] # "failure"
    BY <1>2, BoardFacts DEF LedgerOf
  <2> QED
    BY <1>2, <2>1, <2>2 DEF PlanNow, Outcome
<1>13. ParamsNow[t] \in {NULL, p}
  BY DEF ParamsNow, GroupParameters
<1>14. Lifecycle!Begin(t, p)
  BY <1>1, <1>6, <1>8, <1>9, <1>10, <1>11, <1>12, <1>13
     DEF Lifecycle!Begin, PhaseNow, SpentNow
<1> QED
  BY <1>3, <1>14 DEF Lifecycle!Next

LEMMA CompleteStepImplements ==
  ASSUME BoardInv, NEW t \in TaskId, NEW s \in StepSeq, NEW w \in Workers,
         NEW token \in Token, NEW outcome \in Outcome, CompleteStep(t, s, w, token, outcome)
  PROVE  Lifecycle!Next
<1>1. /\ tasks[t].status = "running" /\ steps[t][s] = "running" /\ logs[t][s] = NULL
      /\ logs' = [logs EXCEPT ![t][s] = outcome]
      /\ steps' = [steps EXCEPT ![t] = StepsAfterReport(t, s, outcome)]
      /\ tasks' = [tasks EXCEPT ![t] = TaskAfterReport(t, s, outcome)]
      /\ nextTask' = nextTask /\ nextToken' = nextToken
  BY DEF CompleteStep
<1>2. tasks[t] \in TaskRow /\ tasks \in [TaskId -> TaskRow]
  BY BoardFacts DEF TypeOK
<1>3. \A u \in TaskId \ {t} : tasks'[u] = tasks[u]
  BY <1>1, <1>2
<1>4. tasks'[t] = TaskAfterReport(t, s, outcome)
  BY <1>1, <1>2
<1>5. /\ tasks'[t].claim_token = tasks[t].claim_token
      /\ tasks'[t].snapshot = tasks[t].snapshot
  BY <1>2, <1>4 DEF TaskAfterReport, TaskRow
<1>6. CredentialNow' = CredentialNow /\ ParamsNow' = ParamsNow
  BY <1>3, <1>5 DEF CredentialNow, ParamsNow
<1>7. PlanNow' = PlanNow
  <2>1. \A q \in StepSeq :
          StepsAfterReport(t, s, outcome)[q] # "absent" <=> steps[t][q] # "absent"
    BY <1>1 DEF StepsAfterReport
  <2>2. \A u \in TaskId, q \in StepSeq : steps'[u][q] # "absent" <=> steps[u][q] # "absent"
    BY <1>1, <2>1, BoardFacts DEF TypeOK
  <2> QED
    BY <2>2 DEF PlanNow
<1>8. t < nextTask /\ Phase(t) = "executing"
  BY <1>1, PhaseOfRow DEF Exists
<1>9. LaterSteps(t, s) = {} <=> \A q \in PlanNow[t] : q <= s
  BY DEF LaterSteps, PlanNow, StepSeq
<1>10. Phase(t)' = IF outcome = "failure" THEN "failed"
                   ELSE IF \A q \in PlanNow[t] : q <= s THEN "succeeded"
                   ELSE "executing"
  <2>1. Phase(t)' = PhaseName[tasks'[t].status]
    BY <1>1, <1>8, BoardFacts DEF Phase, TaskId
  <2>2. tasks'[t].status = IF outcome = "failure" THEN "failed"
                           ELSE IF LaterSteps(t, s) = {} THEN "done" ELSE "running"
    BY <1>1, <1>2, <1>4 DEF TaskAfterReport, TaskRow
  <2> QED
    BY <1>9, <2>1, <2>2 DEF PhaseName
<1>11. PhaseNow' = [PhaseNow EXCEPT ![t] = Phase(t)']
  BY <1>1, <1>3, OtherTasks DEF PhaseNow
<1>12. s \in PlanNow[t] /\ \A q \in PlanNow[t] : q < s => logs[t][q] = "success"
  BY <1>1, AroundRunning, BoardFacts DEF PlanNow, LedgerOf
<1>13. Lifecycle!Report(t, s, outcome)
  BY <1>1, <1>6, <1>7, <1>8, <1>10, <1>11, <1>12
     DEF Lifecycle!Report, PhaseNow, SpentNow
<1> QED
  BY <1>13 DEF Lifecycle!Next, Lifecycle!Result, Outcome

LEMMA RequeueTaskImplements ==
  ASSUME BoardInv, NEW t \in TaskId, RequeueTask(t)
  PROVE  Lifecycle!Next
<1>1. /\ tasks[t].status \in {"claimed", "running"}
      /\ tasks' = [tasks EXCEPT ![t] = Released(@)]
      /\ steps' = [steps EXCEPT ![t] = Rewound(t)]
      /\ nextTask' = nextTask /\ nextToken' = nextToken /\ logs' = logs
  BY DEF RequeueTask, Requeueable
<1>2. tasks[t] \in TaskRow /\ tasks \in [TaskId -> TaskRow]
  BY BoardFacts DEF TypeOK
<1>3. \A u \in TaskId \ {t} : tasks'[u] = tasks[u]
  BY <1>1, <1>2
<1>4. /\ tasks'[t].status = "pending" /\ tasks'[t].claim_token = NULL
      /\ tasks'[t].snapshot = tasks[t].snapshot
  BY <1>1, <1>2 DEF Released, TaskRow
<1>5. t < nextTask /\ Phase(t) \in {"held", "executing"}
  BY <1>1, PhaseOfRow DEF Exists
<1>6. Phase(t)' = "queued"
  BY <1>1, <1>4, <1>5, BoardFacts DEF Phase, PhaseName, TaskId
<1>7. PhaseNow' = [PhaseNow EXCEPT ![t] = "queued"]
  BY <1>1, <1>3, <1>6, OtherTasks DEF PhaseNow
<1>8. CredentialNow' = [CredentialNow EXCEPT ![t] = NULL] /\ ParamsNow' = ParamsNow
  BY <1>3, <1>4 DEF CredentialNow, ParamsNow
<1>9. PlanNow' = PlanNow
  <2>1. \A u \in TaskId, q \in StepSeq : steps'[u][q] # "absent" <=> steps[u][q] # "absent"
    BY <1>1, BoardFacts DEF TypeOK, Rewound
  <2> QED
    BY <2>1 DEF PlanNow
<1>10. Lifecycle!TakeBack(t)
  BY <1>1, <1>5, <1>7, <1>8, <1>9 DEF Lifecycle!TakeBack, PhaseNow, SpentNow
<1> QED
  BY <1>10 DEF Lifecycle!Next

LEMMA ResetAllImplements ==
  ASSUME BoardInv, ResetAll
  PROVE  Lifecycle!Next
<1>1. /\ tasks' = [t \in TaskId |-> NoTask] /\ steps' = [t \in TaskId |-> NoSteps]
      /\ logs' = [t \in TaskId |-> [s \in StepSeq |-> NULL]]
      /\ nextTask' = nextTask /\ nextToken' = nextToken
  BY DEF ResetAll, NoLogs
<1>2. ASSUME NEW t \in TaskId
      PROVE  Phase(t)' = IF PhaseNow[t] = "none" THEN "none" ELSE "gone"
  <2>1. tasks[t].status \in TaskStatus \cup {"absent"}
    BY BoardFacts DEF TaskRow
  <2>2. PhaseNow[t] = "none" <=> t >= nextTask
    BY <2>1 DEF PhaseNow, Phase, PhaseName, TaskStatus
  <2> QED
    BY <1>1, <2>2 DEF Phase, PhaseName, NoTask
<1>3. PhaseNow' = [t \in TaskId |-> IF PhaseNow[t] = "none" THEN "none" ELSE "gone"]
  BY <1>2 DEF PhaseNow
<1>4. /\ CredentialNow' = [t \in TaskId |-> NULL]
      /\ ParamsNow' = [t \in TaskId |-> NULL]
  BY <1>1 DEF CredentialNow, ParamsNow, NoTask
<1>5. PlanNow' = [t \in TaskId |-> {}]
  BY <1>1 DEF PlanNow, NoSteps
<1>6. Lifecycle!Wipe
  BY <1>1, <1>3, <1>4, <1>5 DEF Lifecycle!Wipe, SpentNow
<1> QED
  BY <1>6 DEF Lifecycle!Next

LEMMA NextImplements ==
  BoardInv /\ [BoardStep]_vars => [Lifecycle!Next]_(Lifecycle!lifecycleVars)
<1> SUFFICES ASSUME BoardInv, [BoardStep]_vars
             PROVE  Lifecycle!Next \/ UNCHANGED Lifecycle!lifecycleVars
  OBVIOUS
<1>1. ASSUME NEW params \in Overrides,
             CreateGroup(params) \/ \E g \in GroupId : UpdateGroup(g, params)
      PROVE  UNCHANGED Lifecycle!lifecycleVars
  BY <1>1, Stutters DEF CreateGroup, UpdateGroup
<1>2. ASSUME NEW g \in GroupId \cup {NULL}, NEW n \in StepSeq, CreateTask(g, n)
      PROVE  Lifecycle!Next
  <2>1. nextTask \in TaskId
    BY <1>2, BoundsAssumption, BoardFacts DEF CreateTask, TypeOK, TaskId
  <2> QED
    BY <1>2, <2>1, CreateTaskImplements
<1>3. ASSUME NEW g \in GroupId, NEW n \in StepSeq, NEW lease \in Leases,
             SeedRunning(g, n, lease)
      PROVE  Lifecycle!Next
  <2>1. nextTask \in TaskId
    BY <1>3, BoundsAssumption, BoardFacts DEF SeedRunning, TypeOK, TaskId
  <2> QED
    BY <1>3, <2>1, SeedRunningImplements
<1>4. CASE Claiming \/ AnyClaim
  <2>1. PICK w \in Workers, expiry \in Nat : ClaimNextTask(w, expiry)
    BY <1>4, BoardFacts, LeaseExpiryType DEF Claiming, AnyClaim
  <2> QED
    BY <2>1, ClaimNothingImplements, ClaimTaskImplements DEF ClaimNextTask
<1>5. ASSUME NEW t \in TaskId, NEW w \in Workers, NEW token \in Token,
             HolderRequest(t, w, token)
      PROVE  Lifecycle!Next \/ UNCHANGED Lifecycle!lifecycleVars
  <2>1. CASE StartTask(t, w, token)
    BY <2>1, StartTaskImplements
  <2>2. CASE RetryStart(t, w, token)
    BY <2>2, Stutters DEF RetryStart, vars
  <2>3. ASSUME NEW s \in StepSeq, NEW outcome \in Outcome,
               CompleteStep(t, s, w, token, outcome)
        PROVE  Lifecycle!Next
    BY <2>3, CompleteStepImplements
  <2>4. ASSUME NEW s \in StepSeq, NEW outcome \in Outcome,
               DuplicateReport(t, s, w, token, outcome)
        PROVE  UNCHANGED Lifecycle!lifecycleVars
    BY <2>4, Stutters DEF DuplicateReport
  <2> QED
    BY <1>5, <2>1, <2>2, <2>3, <2>4 DEF HolderRequest
<1>6. CASE \E t \in TaskId : RequeueTask(t)
  BY <1>6, RequeueTaskImplements
<1>7. CASE ResetAll
  BY <1>7, ResetAllImplements
<1>8. CASE Tick \/ ClockSetBack \/ UNCHANGED vars
  BY <1>8, Stutters DEF Tick, ClockSetBack, vars
<1> QED
  BY <1>1, <1>2, <1>3, <1>4, <1>5, <1>6, <1>7, <1>8 DEF Next, BoardStep

(* The board implements the lifecycle of a task.                           *)
THEOREM BoardImplementsLifecycle == Spec => ImplementsLifecycle
BY InitImplements, NextImplements, NextIsStep, BoardInvHolds, PTL
   DEF Spec, ImplementsLifecycle, Lifecycle!Spec
=============================================================================
