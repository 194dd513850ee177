------------------------ MODULE DashboardSessionProofs ------------------------
(***************************************************************************)
(* A tab of the dashboard proved for any number of requests under way, any *)
(* number of equal reports, tasks, steps, tokens, lost answers and resets. *)
(* The board keeps the promises of TaskBoardProofs, every step being a     *)
(* BoardStep or leaving the board alone.                                   *)
(***************************************************************************)
EXTENDS DashboardSession, TaskBoardRefinement

Granting == {"claim", "demo"}    \* the answer brings a token
Using    == {"start", "report"}  \* the request carries one that is stored

(* Stages of a request that has no token yet.                              *)
Early == {"sent", "nothing", "create group", "read group", "queue", "insert"}

Issued(t, token) == t \in TaskId /\ t < nextTask /\ token \in Token /\ token < nextToken

(* What a request can be like, and that the tab gave up on those it does   *)
(* not wait for.                                                           *)
RequestSound(q) ==
  /\ q.kind = "free" => q = Free
  /\ q.kind # "free" /\ ~q.mine => lost > 0
  /\ q.token # NULL => Issued(q.task, q.token)
  /\ q.kind \in Using => q.token # NULL
  /\ q.kind = "report" =>
       q.step \in StepSeq /\ q.at \in {"sent", "inserted", "duplicate", "refused"}
  /\ q.kind \in Granting /\ q.at \in Early => q.token = NULL
  /\ q.kind \in Granting /\ q.at \in {"read", "start", "ok"} => q.token # NULL
  /\ q.kind = "demo" =>
       /\ q.at \in {"read group", "queue", "insert"} => q.group \in GroupId
       /\ q.token # NULL => q.worker = DemoWorker

StoredSound ==
  /\ \A t \in TaskId : stored[t] # NULL => Issued(t, stored[t]) /\ stored[t] \notin theirs
  /\ \A token \in theirs : token < nextToken

Verifying == busy # NULL /\ busy.kind = "report"

(* The requests the tab waits for are those of its action.                 *)
BusySound ==
  /\ \A r \in Mine : busy # NULL /\ requests[r].kind = busy.kind
  /\ ~Verifying => \A q, r \in Mine : q = r
  /\ Verifying =>
       /\ Issued(busy.task, busy.token) /\ busy.token \notin theirs
       /\ busy.step \in StepSeq
       /\ \A r \in Mine : /\ requests[r].task = busy.task /\ requests[r].step = busy.step
                          /\ requests[r].worker = busy.worker /\ requests[r].token = busy.token
       /\ lost = 0 => Cardinality(Mine) = Reports

Verdict == [passed : BOOLEAN, task : TaskId, step : StepSeq, worker : Workers, token : Token]

VerdictSound ==
  verdict # NULL => verdict \in Verdict /\ Issued(verdict.task, verdict.token)

(* A token on its way to the tab is known to nobody else, and it is younger *)
(* than those the tab has, if the tab still waits for it.                  *)
OnItsWay(q) == q.kind \in Granting /\ q.token # NULL

Apart(r) ==
  LET q == requests[r]
  IN  /\ q.token # NULL => q.token \notin theirs
      /\ OnItsWay(q) =>
           /\ \A t \in TaskId : stored[t] # q.token
           /\ \A p \in Request \ {r} : requests[p].token # q.token
      /\ OnItsWay(q) /\ q.mine =>
           /\ \A t \in TaskId : stored[t] # NULL => stored[t] < q.token
           /\ \A p \in Request : requests[p].kind \in Using => requests[p].token < q.token

(* What the row says of the task that a request has a token for.           *)
Opens(q) == tasks[q.task].claim_token = q.token

UserAgrees(q) ==
  q.kind \in Using /\ Opens(q) => stored[q.task] = q.token \/ q.token \in dropped

GrantAgrees(q) ==
  OnItsWay(q) =>
    /\ tasks[q.task].claim_token # NULL => tasks[q.task].claim_token >= q.token
    /\ Opens(q) => /\ q.at # "refused"
                   /\ ~(q.kind = "demo" /\ q.at = "ok") => tasks[q.task].status = "claimed"
    /\ q.kind = "demo" =>
         /\ Exists(q.task) => audit[q.task]["task_created_held"] > 0
         /\ q.at = "start" /\ Opens(q) => tasks[q.task].claimed_by = DemoWorker

(* The answers the tab has so far to its verification.                     *)
AnswersTell ==
  Verifying /\ Exists(busy.task) =>
    LET log == logs[busy.task][busy.step]
    IN  /\ Answers("inserted") # {} => log = "success"
        /\ Answers("duplicate") # {} => log # NULL
        /\ log = "success" =>
             Cardinality(Answers("duplicate")) <= audit[busy.task]["duplicate_report"]

(* Nothing lost, the tab offers to report the step under way of every task *)
(* it holds, and the first of its reports is the insertion.                *)
OffersAreNew ==
  lost = 0 /\ ~Verifying =>
    \A t \in TaskId :
      stored[t] # NULL /\ stored[t] = tasks[t].claim_token /\ offer[t] \in StepSeq
      => steps[t][offer[t]] = "running"

Undisputed ==
  lost = 0 /\ Verifying /\ CredentialsMatch(busy.task, busy.worker, busy.token) =>
    /\ Answers("refused") = {}
    /\ \/ /\ steps[busy.task][busy.step] = "running"
          /\ Answers("inserted") = {} /\ Answers("duplicate") = {}
       \/ /\ logs[busy.task][busy.step] # NULL
          /\ \E r \in Mine : Answers("inserted") = {r}

(* A row is there from its creation to a reset.                            *)
RowsRemain == resets = 0 => \A t \in TaskId : t < nextTask => Exists(t)

SessionInv ==
  /\ BoardInv /\ SessionTypeOK /\ lost \in Nat /\ resets \in Nat
  /\ \A r \in Request : /\ RequestSound(requests[r]) /\ Apart(r)
                        /\ UserAgrees(requests[r]) /\ GrantAgrees(requests[r])
  /\ StoredSound /\ BusySound /\ VerdictSound /\ RowsRemain
  /\ AnswersTell /\ OffersAreNew /\ Undisputed
  /\ DemoTaskIsNotSnatched /\ StartedTasksAreReachable
  /\ PassCertifies /\ AlarmsHaveACause

-----------------------------------------------------------------------------
(* What a step of the board does to a task and to a token that was issued. *)

LEMMA InvParts ==
  ASSUME SessionInv
  PROVE  /\ BoardInv /\ StepInv /\ CredentialInv /\ TypeOK
         /\ lost \in Nat /\ resets \in Nat
         /\ workerId \in Workers /\ theirs \subseteq Token
         /\ \A r \in Request : requests[r] \in RequestState
         /\ \A t \in TaskId : stored[t] \in Token \cup {NULL}
         /\ busy \in RequestState \cup {NULL}
  BY BoardParts DEF SessionInv, SessionTypeOK

LEMMA TokenTypes ==
  /\ NULL \notin Token /\ Token \subseteq Nat /\ TaskId \subseteq Nat
  /\ \A q \in RequestState : q # NULL
  BY NullAssumption, BoundsAssumption, RequestAssumption DEF Token, TaskId

LEMMA HandedOut ==
  ASSUME BoardInv, [BoardStep]_vars, NEW t, NEW token, Issued(t, token)
  PROVE  /\ t < nextTask' /\ token < nextToken' /\ t \in TaskId /\ token \in Token
         /\ tasks'[t].claim_token = token =>
              /\ tasks[t].claim_token = token /\ tasks'[t].claimed_by = tasks[t].claimed_by
              /\ Exists(t) /\ Exists(t)'
         /\ (tasks[t].claim_token # NULL => tasks[t].claim_token >= token)
              => (tasks'[t].claim_token # NULL => tasks'[t].claim_token >= token)
         /\ Exists(t)' => /\ Exists(t)
                          /\ \A e \in Event : audit[t][e] <= audit'[t][e]
                          /\ \A s \in StepSeq : logs[t][s] # NULL => logs'[t][s] = logs[t][s]
  <1>1. t \in TaskId /\ t < nextTask /\ token \in Token /\ token < nextToken
    BY DEF Issued
  <1>2. TaskChange(t) /\ BoardInv'
    BY <1>1, BoardParts, BoardNext, NextChange
  <1>3. t < nextTask' /\ token < nextToken'
    <2>1. /\ nextTask' = nextTask \/ nextTask' = nextTask + 1
          /\ nextToken' = nextToken \/ nextToken' = nextToken + 1
      BY BoardParts, Counters
    <2>2. QED
      BY <1>1, <2>1, BoardParts, TokenTypes
  <1>4. \/ tasks'[t].claim_token \in {NULL, tasks[t].claim_token}
        \/ tasks'[t].claim_token = nextToken
    BY <1>1, <1>2, BoardParts, RowToken
  <1>5. token # NULL /\ token \in Nat /\ nextToken \in Nat /\ tasks[t].claim_token \in Token \cup {NULL}
    BY <1>1, TokenTypes, BoardParts DEF TaskRow
  <1>6. ASSUME tasks'[t].claim_token = token
        PROVE  /\ tasks[t].claim_token = token /\ tasks'[t].claimed_by = tasks[t].claimed_by
               /\ Exists(t) /\ Exists(t)'
    <2>1. tasks[t].claim_token = token
      BY <1>1, <1>4, <1>5, <1>6
    <2>2. tasks'[t].claimed_by = tasks[t].claimed_by
      BY <1>1, <1>2, <1>5, <1>6, <2>1, HolderSame
    <2>3. ColumnsAgree(tasks[t]) /\ ColumnsAgree(tasks'[t])
      BY <1>1, <1>2 DEF BoardInv, StepInv, CredentialInv, ClaimColumnsAgree
    <2>4. QED
      BY <1>5, <1>6, <2>1, <2>2, <2>3 DEF ColumnsAgree, Exists
  <1>7. ASSUME tasks[t].claim_token # NULL => tasks[t].claim_token >= token,
               tasks'[t].claim_token # NULL
        PROVE  tasks'[t].claim_token >= token
    BY <1>1, <1>4, <1>5, <1>7
  <1>8. ASSUME Exists(t)'
        PROVE  /\ Exists(t)
               /\ \A e \in Event : audit[t][e] <= audit'[t][e]
               /\ \A s \in StepSeq : logs[t][s] # NULL => logs'[t][s] = logs[t][s]
    <2>1. Exists(t) /\ \A e \in Event : audit[t][e] <= audit'[t][e]
      BY <1>1, <1>2, <1>8, RowWasThere
    <2>2. Survives(t)
      BY <1>8, <2>1 DEF Survives, Exists
    <2>3. QED
      BY <1>1, <2>1, <2>2, BoardParts, ReportKept
  <1>9. QED
    BY <1>1, <1>3, <1>6, <1>7, <1>8

(* All but the two requests of a holder leave every task to its holder.    *)
Quiet ==
  \/ AnyClaim \/ ClaimNothing
  \/ \E params \in Overrides : CreateGroup(params)
  \/ \E g \in GroupId \cup {NULL}, n \in StepSeq : CreateTask(g, n)
  \/ \E g \in GroupId, n \in StepSeq, lease \in Leases : SeedRunning(g, n, lease)
  \/ \E t \in TaskId : RequeueTask(t)
  \/ Tick \/ ClockSetBack \/ UNCHANGED vars

NoRowGoes ==
  \A t \in TaskId : t < nextTask' /\ ~Exists(t)' => t < nextTask /\ ~Exists(t)

LEMMA QuietTasks ==
  ASSUME BoardInv, Quiet \/ ResetAll
  PROVE  /\ [BoardStep]_vars /\ \A t \in TaskId : Undisturbed(t)
         /\ Quiet => NoRowGoes
  <1>1. ClaimNothing => AnyClaim
    BY DemoAssumption DEF AnyClaim, ClaimNextTask
  <1>2. [BoardStep]_vars
    BY <1>1 DEF Quiet, BoardStep, Next
  <1>3. \A t \in TaskId : TaskChange(t)
    BY <1>2, BoardParts, NextChange
  <1>4. CASE AnyClaim \/ ClaimNothing
    <2>1. /\ steps' = steps /\ logs' = logs /\ nextTask' = nextTask
          /\ \A t \in TaskId : Exists(t) => Exists(t)'
      BY <1>1, <1>4, BoardParts, ClaimRows
    <2>2. ASSUME NEW t \in TaskId PROVE Undisturbed(t)
      <3>1. ~TaskStarted(t)
        BY <2>1, BoardParts DEF TaskStarted, IsFirst, PendingSteps
      <3>2. ~TaskReported(t)
        BY <2>1, BoardParts, NullAssumption DEF TaskReported, Outcome
      <3>3. QED
        BY <1>3, <3>1, <3>2 DEF TaskChange, Undisturbed
    <2>3. QED
      BY <1>2, <2>1, <2>2 DEF NoRowGoes
  <1>5. CASE \E params \in Overrides : CreateGroup(params)
    BY <1>2, <1>3, <1>5, NotWorkedOn DEF CreateGroup, NoRowGoes, Exists
  <1>6. CASE \E g \in GroupId \cup {NULL}, n \in StepSeq : CreateTask(g, n)
    <2>1. PICK g \in GroupId \cup {NULL}, n \in StepSeq : CreateTask(g, n)
      BY <1>6
    <2>2. Born(g).status = "pending"
      BY DEF Born, NoTask
    <2>3. /\ logs' = logs /\ nextTask' = nextTask + 1
          /\ \A t \in TaskId : tasks'[t] = IF t = nextTask THEN Born(g) ELSE tasks[t]
      BY <2>1, BoardParts DEF CreateTask, TypeOK
    <2>4. ASSUME NEW t \in TaskId, t < nextTask', ~Exists(t)'
          PROVE  t < nextTask /\ ~Exists(t)
      <3>1. t # nextTask /\ tasks'[t] = tasks[t]
        BY <2>2, <2>3, <2>4 DEF Exists
      <3>2. nextTask \in Nat /\ t \in Nat
        BY BoardParts, TokenTypes
      <3>3. QED
        BY <2>3, <2>4, <3>1, <3>2 DEF Exists
    <2>5. QED
      BY <1>2, <1>3, <2>2, <2>3, <2>4, NotWorkedOn DEF NoRowGoes
  <1>7. CASE \E g \in GroupId, n \in StepSeq, lease \in Leases : SeedRunning(g, n, lease)
    <2>1. PICK g \in GroupId, n \in StepSeq, lease \in Leases : SeedRunning(g, n, lease)
      BY <1>7
    <2> DEFINE row == Claimed(Born(g), DemoWorker, LeaseExpiry(lease, 0))
    <2>2. row.status = "claimed"
      BY DEF Born, NoTask, Claimed
    <2>3. /\ logs' = logs /\ nextTask' = nextTask + 1
          /\ \A t \in TaskId : tasks'[t] = IF t = nextTask THEN row ELSE tasks[t]
      BY <2>1, BoardParts DEF SeedRunning, TypeOK
    <2> HIDE DEF row
    <2>4. NoRowGoes
      BY <2>2, <2>3, BoardParts, TokenTypes DEF NoRowGoes, Exists
    <2>5. QED
      BY <1>2, <1>3, <2>2, <2>3, <2>4, NotWorkedOn
  <1>8. CASE \E t \in TaskId : RequeueTask(t)
    <2>1. PICK u \in TaskId : RequeueTask(u)
      BY <1>8
    <2>2. Released(tasks[u]).status = "pending"
      BY BoardParts DEF Released, TaskRow
    <2>3. /\ logs' = logs /\ nextTask' = nextTask /\ Exists(u)
          /\ \A t \in TaskId : tasks'[t] = IF t = u THEN Released(tasks[u]) ELSE tasks[t]
      BY <2>1, BoardParts DEF RequeueTask, TypeOK, Exists, Requeueable
    <2>4. NoRowGoes
      BY <2>2, <2>3 DEF NoRowGoes, Exists
    <2>5. QED
      BY <1>2, <1>3, <2>2, <2>3, <2>4, NotWorkedOn
  <1>9. CASE ResetAll /\ ~Quiet
    BY <1>2, <1>9 DEF ResetAll, Undisturbed, TaskWiped
  <1>10. CASE Tick \/ ClockSetBack \/ UNCHANGED vars
    BY <1>2, <1>3, <1>10, NotWorkedOn DEF Tick, ClockSetBack, vars, NoRowGoes, Exists
  <1>11. QED
    BY <1>4, <1>5, <1>6, <1>7, <1>8, <1>9, <1>10 DEF Quiet

(* The requests of a holder are about its task alone.                      *)
LEMMA HolderTasks ==
  ASSUME BoardInv, NEW u \in TaskId, NEW w \in Workers, NEW token \in Token,
         NEW s \in StepSeq,
         \/ StartTask(u, w, token) \/ RetryStart(u, w, token)
         \/ \E outcome \in Outcome :
              CompleteStep(u, s, w, token, outcome) \/ DuplicateReport(u, s, w, token, outcome)
  PROVE  /\ [BoardStep]_vars /\ CredentialsMatch(u, w, token)
         /\ \A t \in TaskId \ {u} : Undisturbed(t)
         /\ (\E outcome \in Outcome : DuplicateReport(u, s, w, token, outcome)) => Undisturbed(u)
         /\ tasks'[u].claim_token = token /\ NoRowGoes
  <1>1. [BoardStep]_vars
    BY DEF BoardStep, Next, HolderRequest
  <1>2. \A t \in TaskId : TaskChange(t)
    BY <1>1, BoardParts, NextChange
  <1>3. CredentialsMatch(u, w, token)
    BY DEF StartTask, RetryStart, CompleteStep, DuplicateReport
  <1>4. \A t \in TaskId \ {u} : tasks'[t] = tasks[t] /\ logs'[t] = logs[t]
    BY BoardParts DEF StartTask, RetryStart, CompleteStep, DuplicateReport, vars, TypeOK
  <1>5. \A t \in TaskId \ {u} : Undisturbed(t)
    BY <1>2, <1>4, NotWorkedOn
  <1>6. ASSUME NEW outcome \in Outcome, DuplicateReport(u, s, w, token, outcome)
        PROVE  Undisturbed(u)
    BY <1>2, <1>6, NotWorkedOn DEF DuplicateReport
  <1>7. tasks[u] \in TaskRow /\ TypeOK
    BY BoardParts
  <1>8. /\ tasks'[u].claim_token = token /\ tasks'[u].status # "absent"
        /\ nextTask' = nextTask
    <2>1. CASE StartTask(u, w, token)
      <3>1. tasks'[u] = Started(tasks[u], GroupParameters(u)) /\ nextTask' = nextTask
        BY <1>7, <2>1 DEF StartTask, TypeOK
      <3>2. QED
        BY <1>3, <1>7, <3>1 DEF Started, TaskRow, CredentialsMatch
    <2>2. ASSUME NEW outcome \in Outcome, CompleteStep(u, s, w, token, outcome)
          PROVE  /\ tasks'[u].claim_token = token /\ tasks'[u].status # "absent"
                 /\ nextTask' = nextTask
      <3>1. tasks'[u] = TaskAfterReport(u, s, outcome) /\ nextTask' = nextTask
        BY <1>7, <2>2 DEF CompleteStep, TypeOK
      <3>2. QED
        BY <1>3, <1>7, <3>1 DEF TaskAfterReport, TaskRow, CredentialsMatch, Exists
    <2>3. QED
      BY <1>3, <2>1, <2>2 DEF RetryStart, DuplicateReport, vars, CredentialsMatch, Exists
  <1>9. NoRowGoes
    BY <1>4, <1>8 DEF NoRowGoes, Exists
  <1>10. QED
    BY <1>1, <1>3, <1>5, <1>6, <1>8, <1>9

(* Whoever keeps the token that was issued, undisturbed, keeps the row.    *)
LEMMA RowIsKept ==
  ASSUME BoardInv, [BoardStep]_vars, NEW t, NEW token, Issued(t, token),
         Undisturbed(t), tasks'[t].claim_token = token
  PROVE  tasks[t].claim_token = token /\ tasks'[t] = tasks[t] /\ steps'[t] = steps[t]
  <1>1. t \in TaskId /\ token # NULL
    BY TokenTypes DEF Issued
  <1>2. tasks[t].claim_token = token
    BY HandedOut
  <1>3. QED
    BY <1>1, <1>2, OpenIsKept

-----------------------------------------------------------------------------
(* A step of the server, seen from the request that it is about.           *)

(* The same request at another stage.                                      *)
SameRequest(q, p) ==
  /\ p.kind = q.kind /\ p.mine = q.mine /\ p.worker = q.worker
  /\ p.task = q.task /\ p.step = q.step /\ p.token = q.token

OthersStay(r) ==
  /\ requests'[r] \in RequestState
  /\ \A p \in Request \ {r} : requests'[p] = requests[p]
  /\ requests' \in [Request -> RequestState]

Replied(r, a) ==
  /\ OthersStay(r)
  /\ requests[r].mine => SameRequest(requests[r], requests'[r]) /\ requests'[r].at = a
  /\ ~requests[r].mine => requests'[r] = Free

(* It was given the token just issued, for a row that was just claimed.    *)
Given(r) ==
  LET q == requests[r]
      p == requests'[r]
  IN  /\ OthersStay(r) /\ q.token = NULL
      /\ p.kind = q.kind /\ p.mine = q.mine /\ p.token = nextToken
      /\ nextToken' = nextToken + 1 /\ p.task \in TaskId /\ p.task < nextTask'
      /\ p.token \in Token
      /\ tasks'[p.task].claim_token = p.token /\ tasks'[p.task].status = "claimed"
      /\ p.at = IF q.kind = "claim" THEN "read" ELSE "start"
      /\ q.kind \in Granting
      /\ q.kind = "demo" => /\ p.worker = DemoWorker /\ tasks'[p.task].claimed_by = DemoWorker
                            /\ audit'[p.task]["task_created_held"] > 0

LEMMA FreeType ==
  /\ Free \in RequestState /\ Free.token = NULL /\ Free.kind = "free" /\ ~Free.mine
  BY SessionAssumption DEF Free, RequestState, Stage

LEMMA RequestMoves ==
  ASSUME SessionInv, NEW r \in Request, NEW p \in RequestState, GoesOn(r, p)
  PROVE  OthersStay(r) /\ requests'[r] = p
  BY DEF SessionInv, SessionTypeOK, GoesOn, OthersStay

LEMMA ReplyMoves ==
  ASSUME SessionInv, NEW r \in Request, NEW a \in Stage \cup Answer, RepliesWith(r, a)
  PROVE  Replied(r, a)
  <1> DEFINE q == requests[r]
             p == [q EXCEPT !.at = a]
  <1>1. q \in RequestState
    BY InvParts
  <1> HIDE DEF q
  <1>2. p \in RequestState /\ SameRequest(q, p) /\ p.at = a
    BY <1>1 DEF RequestState, SameRequest
  <1>3. GoesOn(r, IF q.mine THEN p ELSE Free)
    BY DEF RepliesWith, Replies, q
  <1> HIDE DEF p
  <1>4. CASE q.mine
    <2>1. OthersStay(r) /\ requests'[r] = p
      BY <1>2, <1>3, <1>4, RequestMoves
    <2>2. QED
      BY <1>2, <1>4, <2>1 DEF Replied, q
  <1>5. CASE ~q.mine
    <2>1. OthersStay(r) /\ requests'[r] = Free
      BY <1>3, <1>5, FreeType, RequestMoves
    <2>2. QED
      BY <1>5, <2>1 DEF Replied, q
  <1>6. QED
    BY <1>4, <1>5

(* seed_demo before it has a task.                                         *)
Proceeds(r) ==
  LET q == requests[r]
      p == requests'[r]
  IN  /\ OthersStay(r) /\ Quiet
      /\ q.kind = "demo" /\ q.token = NULL
      /\ \/ p = Free /\ ~q.mine
         \/ /\ SameRequest(q, p) /\ p.at \in Early \cup {"refused"}
            /\ p.at \in {"read group", "queue", "insert"} => p.group \in GroupId

(* The answers of the server.                                              *)
Serves(r, a) ==
  LET q == requests[r]
      t == q.task
  IN  \/ q.kind = "claim" /\ q.token = NULL /\ a = "nothing" /\ ClaimNothing
      \/ /\ q.kind = "claim" /\ q.at = "read" /\ a \in {"ok", "refused"}
         /\ UNCHANGED vars /\ (a = "refused" => ~Exists(t))
      \/ q.kind = "start" /\ a = "ok" /\ StartTask(t, q.worker, q.token)
      \/ q.kind = "start" /\ a \in {"ok", "refused"} /\ UNCHANGED vars
      \/ /\ q.kind = "report" /\ q.at = "sent" /\ a = "inserted"
         /\ CompleteStep(t, q.step, q.worker, q.token, "success")
      \/ /\ q.kind = "report" /\ q.at = "sent" /\ a = "duplicate"
         /\ DuplicateReport(t, q.step, q.worker, q.token, "success")
      \/ /\ q.kind = "report" /\ q.at = "sent" /\ a = "refused"
         /\ UNCHANGED vars /\ ReportRefused(t, q.step, q.worker, q.token)
      \/ /\ q.kind = "demo" /\ q.at = "start" /\ a = "ok" /\ StartTask(t, q.worker, q.token)
         /\ q.mine \/ q.token \in dropped'
      \/ /\ q.kind = "demo" /\ q.at = "start" /\ a = "refused" /\ UNCHANGED vars
         /\ ~(CredentialsMatch(t, q.worker, q.token) /\ tasks[t].status = "claimed")

ServerMove(r) ==
  \/ Given(r) /\ Quiet
  \/ Proceeds(r)
  \/ \E a \in Answer : Replied(r, a) /\ Serves(r, a)

LEMMA ClaimMoves ==
  ASSUME SessionInv, NEW r \in Request, ServeClaim(r)
  PROVE  ServerMove(r)
  <1> DEFINE q == requests[r]
  <1>1. q \in RequestState /\ RequestSound(q) /\ BoardInv /\ q.kind = "claim"
    BY InvParts DEF SessionInv, ServeClaim
  <1>2. ASSUME NEW lease \in Leases, NEW t \in TaskId, q.at = "sent",
               ClaimTask(q.worker, LeaseExpiry(lease, 0), t),
               GoesOn(r, [q EXCEPT !.at = "read", !.task = t, !.token = nextToken])
        PROVE  Given(r) /\ Quiet
    <2> DEFINE q1 == [q EXCEPT !.at = "read"]
               q2 == [q1 EXCEPT !.task = t]
               q3 == [q2 EXCEPT !.token = nextToken]
               expiry == LeaseExpiry(lease, 0)
    <2>1. /\ nextToken \in Token /\ nextToken' = nextToken + 1 /\ nextTask' = nextTask
          /\ q.worker \in Workers /\ expiry \in Nat
      BY <1>1, <1>2, BoardParts, BoundsAssumption
         DEF ClaimTask, Token, TypeOK, RequestState, LeaseExpiry
    <2>2. AnyClaim
      BY <1>2, <2>1 DEF AnyClaim, ClaimNextTask
    <2> HIDE DEF expiry
    <2>3. Quiet /\ [BoardStep]_vars
      BY <1>1, <2>2, QuietTasks DEF Quiet
    <2>4. /\ tasks'[t].claim_token = nextToken /\ tasks'[t].status = "claimed"
      <3> DEFINE table == ReclaimExpiredLeases
      <3>1. table \in [TaskId -> TaskRow]
        BY <1>1, BoardParts, ReclaimType
      <3>2. tasks' = [table EXCEPT ![t] = Claimed(@, q.worker, expiry)]
        BY <1>2 DEF ClaimTask, expiry
      <3> HIDE DEF table
      <3>3. tasks'[t] = Claimed(table[t], q.worker, expiry)
        BY <3>1, <3>2
      <3>4. table[t] \in TaskRow
        BY <3>1
      <3>5. QED
        BY <3>3, <3>4 DEF Claimed, TaskRow
    <2>5. t < nextTask'
      <3>1. Exists(t)'
        BY <2>4 DEF Exists
      <3>2. UnusedIds'
        BY <1>1, <2>3, BoardNext DEF BoardInv, StepInv, CredentialInv
      <3>3. nextTask' \in Nat
        BY <1>1, <2>1, BoardParts
      <3>4. QED
        BY <3>1, <3>2, <3>3, TokenTypes DEF UnusedIds, Exists, NoTask
    <2> HIDE DEF q
    <2>6. /\ q1 \in RequestState /\ q1.at = "read" /\ q1.mine = q.mine /\ q1.kind = "claim"
      BY <1>1 DEF RequestState, Stage
    <2>7. GoesOn(r, q3)
      BY <1>2
    <2> HIDE DEF q1
    <2>8. /\ q2 \in RequestState /\ q2.at = "read" /\ q2.mine = q.mine /\ q2.kind = "claim"
          /\ q2.task = t
      BY <2>6 DEF RequestState
    <2> HIDE DEF q2
    <2>9. /\ q3 \in RequestState /\ q3.at = "read" /\ q3.mine = q.mine /\ q3.kind = "claim"
          /\ q3.task = t /\ q3.token = nextToken
      BY <2>1, <2>8 DEF RequestState
    <2> HIDE DEF q3
    <2>10. OthersStay(r) /\ requests'[r] = q3
      BY <2>7, <2>9, RequestMoves
    <2>11. q.token = NULL
      BY <1>1, <1>2 DEF RequestSound, Granting, Early
    <2>12. QED
      BY <1>1, <2>1, <2>3, <2>4, <2>5, <2>9, <2>10, <2>11 DEF Given, Granting, q
  <1>3. ASSUME q.at = "sent", ClaimNothing, RepliesWith(r, "nothing")
        PROVE  ServerMove(r)
    <2>1. Replied(r, "nothing") /\ q.token = NULL
      BY <1>1, <1>3, ReplyMoves DEF RequestSound, Granting, Early, Answer
    <2>2. QED
      BY <1>1, <1>3, <2>1 DEF ServerMove, Serves, Answer
  <1>4. ASSUME q.at = "read", RepliesWith(r, IF Exists(q.task) THEN "ok" ELSE "refused"),
               UNCHANGED vars
        PROVE  ServerMove(r)
    <2>1. PICK a \in {"ok", "refused"} : RepliesWith(r, a) /\ (a = "refused" => ~Exists(q.task))
      <3>1. CASE Exists(q.task)
        BY <1>4, <3>1
      <3>2. CASE ~Exists(q.task)
        BY <1>4, <3>2
      <3>3. QED
        BY <3>1, <3>2
    <2>2. Replied(r, a)
      BY <2>1, ReplyMoves DEF Answer
    <2>3. Serves(r, a)
      BY <1>1, <1>4, <2>1 DEF Serves
    <2>4. QED
      BY <2>1, <2>2, <2>3 DEF ServerMove, Answer
  <1>5. QED
    BY <1>2, <1>3, <1>4 DEF ServeClaim, ServerMove

LEMMA UserParts ==
  ASSUME SessionInv, NEW r \in Request, requests[r].kind \in Using
  PROVE  /\ requests[r].task \in TaskId /\ requests[r].token \in Token
         /\ requests[r].token # NULL /\ Issued(requests[r].task, requests[r].token)
         /\ requests[r].worker \in Workers
         /\ requests[r].kind = "report" => requests[r].step \in StepSeq
  <1>1. requests[r] \in RequestState /\ RequestSound(requests[r])
    BY InvParts DEF SessionInv
  <1>2. QED
    BY <1>1 DEF RequestSound, Issued, RequestState

LEMMA StartMoves ==
  ASSUME SessionInv, NEW r \in Request, ServeStart(r)
  PROVE  ServerMove(r)
  <1>1. requests[r].kind = "start"
    BY DEF ServeStart
  <1>2. PICK a \in {"ok", "refused"} :
          /\ RepliesWith(r, a)
          /\ \/ /\ a = "ok"
                /\ StartTask(requests[r].task, requests[r].worker, requests[r].token)
             \/ UNCHANGED vars
    BY DEF ServeStart, RetryStart, Refuses
  <1>3. Replied(r, a)
    BY <1>2, ReplyMoves DEF Answer
  <1>4. Serves(r, a)
    BY <1>1, <1>2 DEF Serves
  <1>5. QED
    BY <1>2, <1>3, <1>4 DEF ServerMove, Answer

LEMMA ReportMoves ==
  ASSUME SessionInv, NEW r \in Request, ServeReport(r)
  PROVE  ServerMove(r)
  <1>1. requests[r].kind = "report" /\ requests[r].at = "sent"
    BY DEF ServeReport
  <1>2. PICK a \in {"inserted", "duplicate", "refused"} : RepliesWith(r, a) /\ Serves(r, a)
    BY <1>1 DEF ServeReport, Serves, Refuses
  <1>3. Replied(r, a)
    BY <1>2, ReplyMoves DEF Answer
  <1>4. QED
    BY <1>2, <1>3 DEF ServerMove, Answer

LEMMA SeedGroupMoves ==
  ASSUME SessionInv, NEW r \in Request, requests[r].kind = "demo", SeedGroup(r)
  PROVE  Proceeds(r)
  <1> DEFINE q == requests[r]
  <1>1. q \in RequestState /\ RequestSound(q) /\ BoardInv /\ demoGroup \in GroupId \cup {NULL}
    BY InvParts DEF SessionInv, SessionTypeOK
  <1>2. q.at \in Early /\ q.token = NULL
    BY <1>1 DEF SeedGroup, RequestSound, Granting, Early
  <1>3. q.at = "read group" => q.group \in GroupId
    BY <1>1 DEF RequestSound
  <1>4. ASSUME NEW a \in Early, NEW g \in GroupId \cup {NULL},
               GoesOn(r, [[q EXCEPT !.at = a] EXCEPT !.group = g]), Quiet, a \in Stage,
               a \in {"read group", "queue", "insert"} => g \in GroupId
        PROVE  Proceeds(r)
    <2> DEFINE q1 == [q EXCEPT !.at = a]
               q2 == [q1 EXCEPT !.group = g]
    <2> HIDE DEF q
    <2>1. q1 \in RequestState /\ q1.at = a /\ SameRequest(q, q1)
      BY <1>1, <1>4 DEF RequestState, SameRequest
    <2>2. GoesOn(r, q2)
      BY <1>4
    <2> HIDE DEF q1
    <2>3. q2 \in RequestState /\ q2.at = a /\ SameRequest(q, q2) /\ q2.group = g
      BY <2>1, <1>4 DEF RequestState, SameRequest
    <2> HIDE DEF q2
    <2>4. OthersStay(r) /\ requests'[r] = q2
      BY <2>2, <2>3, RequestMoves
    <2>5. QED
      BY <1>2, <1>4, <2>3, <2>4 DEF Proceeds, q
  <1>5. ASSUME NEW p \in RequestState, GoesOn(r, p), Quiet, SameRequest(q, p),
               p.at \in Early, p.at \in {"read group", "queue", "insert"} => p.group \in GroupId
        PROVE  Proceeds(r)
    <2>1. OthersStay(r) /\ requests'[r] = p
      BY <1>5, RequestMoves
    <2>2. QED
      BY <1>2, <1>5, <2>1 DEF Proceeds
  <1>6. ASSUME q.at = "sent", UNCHANGED vars,
               GoesOn(r, IF demoGroup = NULL THEN [q EXCEPT !.at = "create group"]
                         ELSE [q EXCEPT !.at = "queue", !.group = demoGroup])
        PROVE  Proceeds(r)
    <2>1. Quiet
      BY <1>6 DEF Quiet
    <2>2. CASE demoGroup = NULL
      <3> DEFINE p == [q EXCEPT !.at = "create group"]
      <3> HIDE DEF q
      <3>1. p \in RequestState /\ SameRequest(q, p) /\ p.at = "create group"
        BY <1>1 DEF RequestState, SameRequest, Stage
      <3>2. GoesOn(r, p)
        BY <1>6, <2>2
      <3> HIDE DEF p
      <3>3. QED
        BY <1>5, <2>1, <3>1, <3>2 DEF Early
    <2>3. CASE demoGroup # NULL
      <3>1. GoesOn(r, [[q EXCEPT !.at = "queue"] EXCEPT !.group = demoGroup])
        BY <1>6, <2>3
      <3>2. QED
        BY <1>1, <1>4, <2>1, <2>3, <3>1 DEF Early, Stage
    <2>4. QED
      BY <2>2, <2>3
  <1>7. ASSUME q.at = "create group", \E params \in Overrides : CreateGroup(params),
               GoesOn(r, [q EXCEPT !.at = "read group", !.group = nextGroup])
        PROVE  Proceeds(r)
    <2>1. Quiet
      BY <1>7 DEF Quiet
    <2>2. nextGroup \in GroupId
      <3>1. TypeOK
        BY <1>1, BoardParts
      <3>2. nextGroup \in 1..MaxGroup + 1 /\ MaxGroup \in Nat
        BY <3>1, BoundsAssumption DEF TypeOK
      <3>3. nextGroup <= MaxGroup
        BY <1>7 DEF CreateGroup
      <3>4. QED
        BY <3>2, <3>3 DEF GroupId
    <2>3. GoesOn(r, [[q EXCEPT !.at = "read group"] EXCEPT !.group = nextGroup])
      BY <1>7
    <2>4. QED
      BY <1>4, <2>1, <2>2, <2>3 DEF Early, Stage
  <1>8. ASSUME Refuses(r) PROVE Proceeds(r)
    <2>1. Replied(r, "refused") /\ Quiet
      BY <1>8, ReplyMoves DEF Refuses, Answer, Quiet
    <2>2. QED
      BY <1>2, <2>1 DEF Replied, Proceeds
  <1>9. ASSUME q.at = "read group", GoesOn(r, [q EXCEPT !.at = "queue"]), UNCHANGED vars
        PROVE  Proceeds(r)
    <2> DEFINE p == [q EXCEPT !.at = "queue"]
    <2>1. Quiet /\ q.group \in GroupId
      BY <1>3, <1>9 DEF Quiet
    <2> HIDE DEF q
    <2>2. p \in RequestState /\ SameRequest(q, p) /\ p.at = "queue" /\ p.group = q.group
      BY <1>1 DEF RequestState, SameRequest, Stage
    <2>3. GoesOn(r, p)
      BY <1>9
    <2> HIDE DEF p
    <2>4. QED
      BY <1>5, <2>1, <2>2, <2>3 DEF Early
  <1>10. QED
    BY <1>6, <1>7, <1>8, <1>9 DEF SeedGroup

LEMMA SeedTasksMoves ==
  ASSUME SessionInv, NEW r \in Request, requests[r].kind = "demo", SeedTasks(r)
  PROVE  ServerMove(r)
  <1> DEFINE q == requests[r]
  <1>1. q \in RequestState /\ RequestSound(q) /\ BoardInv
    BY InvParts DEF SessionInv
  <1>2. q.at \in {"queue", "insert"} => q.token = NULL /\ q.group \in GroupId
    BY <1>1 DEF RequestSound, Granting, Early
  <1>3. ASSUME q.at = "queue", CreateTask(q.group, 1), GoesOn(r, [q EXCEPT !.at = "insert"])
        PROVE  Proceeds(r)
    <2> DEFINE p == [q EXCEPT !.at = "insert"]
    <2>1. Quiet
      BY <1>2, <1>3, BoundsAssumption DEF Quiet, StepSeq
    <2>2. p \in RequestState /\ SameRequest(q, p) /\ p.at = "insert" /\ p.group = q.group
      <3> HIDE DEF q
      <3> QED
        BY <1>1 DEF RequestState, SameRequest, Stage
    <2>3. OthersStay(r) /\ requests'[r] = p
      BY <1>3, <2>2, RequestMoves
    <2> HIDE DEF p
    <2>4. QED
      BY <1>2, <1>3, <2>1, <2>2, <2>3 DEF Proceeds, Early
  <1>4. ASSUME q.at = "insert", NEW lease \in Leases, SeedRunning(q.group, MaxStep, lease),
               GoesOn(r, [q EXCEPT !.at = "start", !.worker = DemoWorker,
                                   !.task = nextTask, !.token = nextToken])
        PROVE  Given(r) /\ Quiet
    <2> DEFINE q1 == [q EXCEPT !.at = "start"]
               q2 == [q1 EXCEPT !.worker = DemoWorker]
               q3 == [q2 EXCEPT !.task = nextTask]
               q4 == [q3 EXCEPT !.token = nextToken]
               row == Claimed(Born(q.group), DemoWorker, LeaseExpiry(lease, 0))
    <2>1. TypeOK
      BY <1>1, BoardParts
    <2>2. Quiet
      BY <1>2, <1>4, BoundsAssumption DEF Quiet, StepSeq
    <2>3. /\ nextToken <= MaxToken /\ nextToken' = nextToken + 1
          /\ nextTask <= MaxTask /\ nextTask' = nextTask + 1
          /\ tasks' = [tasks EXCEPT ![nextTask] = row]
          /\ audit' = RecordOperation(audit, nextTask, "task_created_held")
      BY <1>4 DEF SeedRunning
    <2>4. /\ nextToken \in Token /\ nextTask \in TaskId /\ nextTask < nextTask'
      BY <2>1, <2>3, BoundsAssumption DEF TypeOK, Token, TaskId
    <2>5. /\ row.claim_token = nextToken /\ row.status = "claimed"
          /\ row.claimed_by = DemoWorker
      BY DEF Claimed, Born, NoTask
    <2> HIDE DEF row
    <2>6. tasks'[nextTask] = row
      BY <2>1, <2>3, <2>4 DEF TypeOK
    <2>7. audit'[nextTask]["task_created_held"] > 0
      <3>1. audit[nextTask]["task_created_held"] \in Nat /\ "task_created_held" \in Event
        BY <2>1, <2>4 DEF TypeOK, Event
      <3>2. audit'[nextTask]["task_created_held"] = audit[nextTask]["task_created_held"] + 1
        BY <2>1, <2>3, <2>4, <3>1 DEF RecordOperation, TypeOK
      <3>3. QED
        BY <3>1, <3>2
    <2> HIDE DEF q
    <2>8. /\ q1 \in RequestState /\ q1.at = "start" /\ q1.mine = q.mine /\ q1.kind = q.kind
      BY <1>1 DEF RequestState, Stage
    <2>9. GoesOn(r, q4)
      BY <1>4
    <2> HIDE DEF q1
    <2>10. /\ q2 \in RequestState /\ q2.at = "start" /\ q2.mine = q.mine /\ q2.kind = q.kind
           /\ q2.worker = DemoWorker
      BY <2>8, DemoAssumption DEF RequestState
    <2> HIDE DEF q2
    <2>11. /\ q3 \in RequestState /\ q3.at = "start" /\ q3.mine = q.mine /\ q3.kind = q.kind
           /\ q3.worker = DemoWorker /\ q3.task = nextTask
      BY <2>4, <2>10 DEF RequestState
    <2> HIDE DEF q3
    <2>12. /\ q4 \in RequestState /\ q4.at = "start" /\ q4.mine = q.mine /\ q4.kind = q.kind
           /\ q4.worker = DemoWorker /\ q4.task = nextTask /\ q4.token = nextToken
      BY <2>4, <2>11 DEF RequestState
    <2> HIDE DEF q4
    <2>13. OthersStay(r) /\ requests'[r] = q4
      BY <2>9, <2>12, RequestMoves
    <2>14. q.kind = "demo" /\ q.token = NULL
      BY <1>2, <1>4 DEF q
    <2>15. QED
      BY <2>2, <2>3, <2>4, <2>5, <2>6, <2>7, <2>12, <2>13, <2>14 DEF Given, Granting, q
  <1>5. QED
    BY <1>3, <1>4 DEF SeedTasks, ServerMove

LEMMA SeedStartMoves ==
  ASSUME SessionInv, NEW r \in Request, requests[r].kind = "demo", SeedStart(r)
  PROVE  ServerMove(r)
  <1>1. Replied(r, "ok")
    BY ReplyMoves DEF SeedStart, Answer
  <1>2. requests[r].mine \/ requests[r].token \in dropped'
    BY DEF SeedStart
  <1>3. Serves(r, "ok")
    BY <1>2 DEF SeedStart, Serves
  <1>4. QED
    BY <1>1, <1>3 DEF ServerMove, Answer

LEMMA SeedFailsMoves ==
  ASSUME SessionInv, NEW r \in Request, requests[r].kind = "demo", SeedFails(r)
  PROVE  ServerMove(r)
  <1>1. RequestSound(requests[r])
    BY DEF SessionInv
  <1>2. Replied(r, "refused") /\ UNCHANGED vars
    BY ReplyMoves DEF SeedFails, Refuses, Answer
  <1>3. CASE requests[r].at \in {"read group", "queue", "insert"}
    <2>1. requests[r].token = NULL
      BY <1>1, <1>3 DEF RequestSound, Granting, Early
    <2>2. Proceeds(r)
      BY <1>2, <2>1 DEF Replied, Proceeds, Quiet
    <2>3. QED
      BY <2>2 DEF ServerMove
  <1>4. CASE requests[r].at = "start"
    <2>1. ~(/\ CredentialsMatch(requests[r].task, requests[r].worker, requests[r].token)
            /\ tasks[requests[r].task].status = "claimed")
      BY <1>4 DEF SeedFails
    <2>2. Serves(r, "refused")
      BY <1>2, <1>4, <2>1 DEF Serves
    <2>3. QED
      BY <1>2, <2>2 DEF ServerMove, Answer
  <1>5. QED
    BY <1>3, <1>4 DEF SeedFails

LEMMA ServerMoves ==
  ASSUME SessionInv, Server
  PROVE  /\ UNCHANGED <<tab, theirs, bounds>> /\ \E r \in Request : ServerMove(r)
         /\ dropped \subseteq dropped' /\ dropped' \subseteq Token
  <1>1. UNCHANGED <<tab, theirs, bounds>>
    BY DEF Server
  <1>2. ASSUME NEW r \in Request, ServeDemo(r) PROVE ServerMove(r)
    BY <1>2, SeedGroupMoves, SeedTasksMoves, SeedStartMoves, SeedFailsMoves
       DEF ServeDemo, ServerMove
  <1>3. dropped \subseteq dropped' /\ dropped' \subseteq Token
    <2>1. dropped \subseteq Token
      BY DEF SessionInv, SessionTypeOK
    <2>2. CASE dropped' = dropped
      BY <2>1, <2>2
    <2>3. ASSUME NEW r \in Request, requests[r].kind = "demo", SeedStart(r)
          PROVE  dropped' \in {dropped, dropped \cup {requests[r].token}} /\ requests[r].token \in Token
      <3>1. RequestSound(requests[r]) /\ requests[r].at = "start"
        BY <2>3 DEF SessionInv, SeedStart
      <3>2. Issued(requests[r].task, requests[r].token)
        BY <2>3, <3>1 DEF RequestSound, Granting
      <3>3. QED
        BY <2>3, <3>2 DEF SeedStart, Issued
    <2>4. dropped' = dropped \/ \E r \in Request : requests[r].kind = "demo" /\ SeedStart(r)
      BY DEF Server, ServeClaim, ServeStart, ServeReport, ServeDemo, SeedGroup, SeedTasks, SeedFails
    <2>5. QED
      BY <2>1, <2>2, <2>3, <2>4
  <1>4. QED
    BY <1>1, <1>2, <1>3, ClaimMoves, StartMoves, ReportMoves DEF Server

-----------------------------------------------------------------------------
(* What a request, or anybody else, changes of the board.                  *)

Begins(r) ==
  LET q == requests[r]
  IN  /\ \/ q.kind = "start"
         \/ q.kind = "demo" /\ q.at = "start" /\ (q.mine \/ q.token \in dropped')
      /\ Replied(r, "ok") /\ StartTask(q.task, q.worker, q.token)

Completes(r) ==
  LET q == requests[r]
  IN  /\ q.kind = "report" /\ Replied(r, "inserted")
      /\ CompleteStep(q.task, q.step, q.worker, q.token, "success")

LEMMA ServerBoard ==
  ASSUME SessionInv, NEW r \in Request, ServerMove(r)
  PROVE  /\ [BoardStep]_vars /\ NoRowGoes /\ OthersStay(r)
         /\ \A t \in TaskId : \/ Undisturbed(t)
                              \/ /\ t = requests[r].task /\ (Begins(r) \/ Completes(r))
                                 /\ Issued(t, requests[r].token)
                                 /\ CredentialsMatch(t, requests[r].worker, requests[r].token)
                                 /\ tasks'[t].claim_token = requests[r].token
  <1> DEFINE q == requests[r]
  <1>1. q \in RequestState /\ RequestSound(q) /\ BoardInv
    BY InvParts DEF SessionInv
  <1>2. Quiet => [BoardStep]_vars /\ NoRowGoes /\ \A t \in TaskId : Undisturbed(t)
    BY <1>1, QuietTasks
  <1>3. OthersStay(r)
    BY DEF ServerMove, Given, Proceeds, Replied
  <1>4. CASE Quiet
    BY <1>2, <1>3, <1>4
  <1>5. ASSUME NEW s \in StepSeq, q.token # NULL, Begins(r) \/ Completes(r),
               \/ StartTask(q.task, q.worker, q.token)
               \/ CompleteStep(q.task, s, q.worker, q.token, "success")
        PROVE  /\ [BoardStep]_vars /\ NoRowGoes
               /\ \A t \in TaskId : \/ Undisturbed(t)
                                    \/ /\ t = q.task /\ (Begins(r) \/ Completes(r))
                                       /\ Issued(t, q.token)
                                       /\ CredentialsMatch(t, q.worker, q.token)
                                       /\ tasks'[t].claim_token = q.token
    <2>1. /\ Issued(q.task, q.token) /\ q.task \in TaskId /\ q.token \in Token
          /\ q.worker \in Workers /\ "success" \in Outcome
      BY <1>1, <1>5 DEF RequestSound, Issued, RequestState, Outcome
    <2> HIDE DEF q
    <2>2. /\ [BoardStep]_vars /\ NoRowGoes
          /\ \A t \in TaskId \ {q.task} : Undisturbed(t)
          /\ CredentialsMatch(q.task, q.worker, q.token)
          /\ tasks'[q.task].claim_token = q.token
      BY <1>1, <1>5, <2>1, HolderTasks
    <2>3. QED
      BY <1>5, <2>1, <2>2
  <1>6. ASSUME NEW a \in Answer, Replied(r, a),
               \/ q.kind = "start"
               \/ q.kind = "demo" /\ q.at = "start" /\ (q.mine \/ q.token \in dropped'),
               a = "ok", StartTask(q.task, q.worker, q.token)
        PROVE  Begins(r) /\ q.token # NULL
    BY <1>1, <1>6 DEF Begins, RequestSound, Granting, Using
  <1>7. ASSUME NEW a \in Answer, Replied(r, a), q.kind = "report", a = "inserted",
               CompleteStep(q.task, q.step, q.worker, q.token, "success")
        PROVE  Completes(r) /\ q.token # NULL /\ q.step \in StepSeq
    BY <1>1, <1>7 DEF Completes, RequestSound, Using
  <1>8. ASSUME q.kind = "report", DuplicateReport(q.task, q.step, q.worker, q.token, "success")
        PROVE  /\ [BoardStep]_vars /\ NoRowGoes
               /\ \A t \in TaskId : Undisturbed(t)
    <2>1. /\ q.task \in TaskId /\ q.token \in Token /\ q.step \in StepSeq
          /\ q.worker \in Workers /\ "success" \in Outcome
      BY <1>1, <1>8 DEF RequestSound, Issued, RequestState, Using, Outcome
    <2> HIDE DEF q
    <2>2. /\ [BoardStep]_vars /\ NoRowGoes
          /\ \A t \in TaskId \ {q.task} : Undisturbed(t)
          /\ Undisturbed(q.task)
      BY <1>1, <1>8, <2>1, HolderTasks
    <2>3. QED
      BY <2>2
  <1>9. ASSUME NEW a \in Answer, Replied(r, a), Serves(r, a)
        PROVE  \/ Quiet
               \/ Begins(r) /\ q.token # NULL /\ StartTask(q.task, q.worker, q.token)
               \/ /\ Completes(r) /\ q.token # NULL /\ q.step \in StepSeq
                  /\ CompleteStep(q.task, q.step, q.worker, q.token, "success")
               \/ /\ q.kind = "report"
                  /\ DuplicateReport(q.task, q.step, q.worker, q.token, "success")
    <2>1. UNCHANGED vars \/ ClaimNothing => Quiet
      BY DEF Quiet
    <2>2. \/ Quiet
          \/ /\ \/ q.kind = "start"
                \/ q.kind = "demo" /\ q.at = "start" /\ (q.mine \/ q.token \in dropped')
             /\ a = "ok" /\ StartTask(q.task, q.worker, q.token)
          \/ /\ q.kind = "report" /\ a = "inserted"
             /\ CompleteStep(q.task, q.step, q.worker, q.token, "success")
          \/ /\ q.kind = "report"
             /\ DuplicateReport(q.task, q.step, q.worker, q.token, "success")
      BY <1>9, <2>1 DEF Serves
    <2>3. QED
      BY <1>6, <1>7, <1>9, <2>2
  <1>10. 1 \in StepSeq
    BY BoundsAssumption DEF StepSeq
  <1>11. QED
    BY <1>3, <1>4, <1>5, <1>8, <1>9, <1>10 DEF ServerMove, Proceeds

LEMMA OthersMoves ==
  ASSUME SessionInv, OthersClaim \/ OthersWork \/ OthersGroup \/ SetBack \/ Reset
  PROVE  /\ [BoardStep]_vars /\ UNCHANGED <<tab, requests, dropped, lost>>
         /\ theirs' \subseteq Token /\ theirs \subseteq theirs'
         /\ \A token \in theirs' : token < nextToken' /\ (token \in theirs \/ token >= nextToken)
         /\ demoGroup' \in GroupId \cup {NULL}
         /\ \/ NoRowGoes /\ resets' = resets
            \/ resets' = resets + 1
         /\ \A t \in TaskId : \/ Undisturbed(t)
                              \/ /\ tasks[t].claim_token \in theirs
                                 /\ tasks'[t].claim_token = tasks[t].claim_token
  <1>1. /\ BoardInv /\ TypeOK /\ demoGroup \in GroupId \cup {NULL} /\ theirs \subseteq Token
        /\ \A token \in theirs : token < nextToken
        /\ nextToken \in Nat /\ MaxToken \in Nat
    BY InvParts, BoardParts, BoundsAssumption DEF SessionInv, SessionTypeOK, StoredSound
  <1>2. Quiet => [BoardStep]_vars /\ NoRowGoes /\ \A t \in TaskId : Undisturbed(t)
    BY <1>1, QuietTasks
  <1>3. CASE OthersClaim
    <2>1. PICK w \in Others, lease \in Leases : ClaimNextTask(w, LeaseExpiry(lease, 0))
      BY <1>3 DEF OthersClaim
    <2>2. w \in Workers /\ LeaseExpiry(lease, 0) \in Nat
      BY <1>1, BoundsAssumption, SessionAssumption DEF LeaseExpiry, TypeOK
    <2>3. Quiet
      BY <2>1, <2>2 DEF Quiet, AnyClaim
    <2>4. [BoardStep]_vars /\ NoRowGoes /\ \A t \in TaskId : Undisturbed(t)
      BY <1>2, <2>3
    <2>5. TypeOK' /\ nextToken' \in {nextToken, nextToken + 1}
      BY <1>1, <2>4, NextType, Counters
    <2>6. nextToken' \in 1..MaxToken + 1 /\ nextToken \in 1..MaxToken + 1
      BY <1>1, <2>5 DEF TypeOK
    <2>7. theirs' = theirs \cup (nextToken..nextToken' - 1)
      BY <1>3 DEF OthersClaim
    <2>8. \A token \in theirs : token \in Nat
      BY <1>1, TokenTypes
    <2>9. \A token \in nextToken..nextToken' - 1 :
            token \in Token /\ token < nextToken' /\ token >= nextToken
      <3>1. \A a, b, m \in Nat :
              1 <= a /\ b <= m + 1 =>
                \A token \in a..b - 1 : token \in 1..m /\ token < b /\ token >= a
        OBVIOUS
      <3>2. nextToken' \in Nat /\ 1 <= nextToken /\ nextToken' <= MaxToken + 1
        BY <1>1, <2>6
      <3>3. QED
        BY <1>1, <3>1, <3>2 DEF Token
    <2>10. /\ theirs' \subseteq Token
           /\ \A token \in theirs' :
                token < nextToken' /\ (token \in theirs \/ token >= nextToken)
      <3>1. ASSUME NEW token \in theirs PROVE token \in Token /\ token < nextToken'
        <4>1. token \in Token /\ token < nextToken /\ token \in Nat /\ nextToken \in Nat
          BY <1>1, <2>8
        <4>2. nextToken' \in {nextToken, nextToken + 1}
          BY <2>5
        <4>3. QED
          BY <4>1, <4>2
      <3>2. QED
        BY <2>7, <2>9, <3>1
    <2>11. QED
      BY <1>1, <1>3, <2>4, <2>7, <2>10 DEF OthersClaim, bounds
  <1>4. ASSUME Quiet, UNCHANGED <<tab, requests, theirs, dropped, lost, resets>>, nextToken' >= nextToken,
               demoGroup' \in GroupId \cup {NULL}
        PROVE  /\ [BoardStep]_vars /\ UNCHANGED <<tab, requests, dropped, lost>>
               /\ theirs' \subseteq Token /\ theirs \subseteq theirs'
               /\ \A token \in theirs' : token < nextToken' /\ token \in theirs
               /\ resets' = resets /\ NoRowGoes
               /\ \A t \in TaskId : Undisturbed(t)
    <2>1. [BoardStep]_vars /\ NoRowGoes /\ \A t \in TaskId : Undisturbed(t)
      BY <1>2, <1>4
    <2>2. nextToken' \in {nextToken, nextToken + 1}
      BY <1>1, <2>1, Counters
    <2>3. \A token \in theirs : token \in Nat
      BY <1>1, TokenTypes
    <2>4. \A token \in theirs' : token < nextToken' /\ token \in theirs
      BY <1>1, <1>4, <2>2, <2>3
    <2>5. QED
      BY <1>1, <1>4, <2>1, <2>4
  <1>5. CASE OthersGroup
    <2>1. Quiet /\ nextToken' = nextToken
      BY <1>5 DEF OthersGroup, Quiet, CreateGroup
    <2>2. nextGroup \in GroupId
      <3>1. nextGroup \in 1..MaxGroup + 1 /\ MaxGroup \in Nat /\ nextGroup <= MaxGroup
        BY <1>1, <1>5, BoundsAssumption DEF TypeOK, OthersGroup, CreateGroup
      <3>2. QED
        BY <3>1 DEF GroupId
    <2>3. UNCHANGED <<tab, requests, theirs, dropped, lost, resets>> /\ demoGroup' = nextGroup
      BY <1>5 DEF OthersGroup, bounds
    <2>4. QED
      BY <1>1, <1>4, <2>1, <2>2, <2>3
  <1>6. CASE Reset
    <2>1. [BoardStep]_vars /\ \A t \in TaskId : Undisturbed(t)
      BY <1>1, <1>6, QuietTasks DEF Reset
    <2>2. /\ nextToken' = nextToken /\ UNCHANGED <<tab, requests, theirs, dropped, lost>>
          /\ demoGroup' = NULL /\ resets' = resets + 1
      BY <1>6 DEF Reset, ResetAll
    <2>3. QED
      BY <1>1, <2>1, <2>2
  <1>7. CASE OthersWork
    <2>1. UNCHANGED <<tab, requests, demoGroup, theirs, dropped, lost, resets>>
      BY <1>7 DEF OthersWork, bounds
    <2>2. CASE \/ \E n \in StepSeq : CreateTask(NULL, n)
               \/ \E t \in TaskId : RequeueTask(t)
               \/ Tick
      <3>1. Quiet
        BY <2>2 DEF Quiet
      <3>2. nextToken' = nextToken
        BY <2>2 DEF CreateTask, RequeueTask, Tick
      <3>3. QED
        BY <1>1, <1>4, <2>1, <3>1, <3>2
    <2>3. ASSUME NEW u \in TaskId, NEW w \in Others, NEW token \in theirs,
                 HolderRequest(u, w, token)
          PROVE  /\ [BoardStep]_vars /\ NoRowGoes /\ nextToken' = nextToken
                 /\ \A t \in TaskId : \/ Undisturbed(t)
                                      \/ /\ tasks[t].claim_token \in theirs
                                         /\ tasks'[t].claim_token = tasks[t].claim_token
      <3>1. PICK s \in StepSeq :
              \/ StartTask(u, w, token) \/ RetryStart(u, w, token)
              \/ \E outcome \in Outcome :
                   CompleteStep(u, s, w, token, outcome) \/ DuplicateReport(u, s, w, token, outcome)
        <4>1. 1 \in StepSeq
          BY BoundsAssumption DEF StepSeq
        <4>2. QED
          BY <2>3, <4>1 DEF HolderRequest
      <3>2. w \in Workers /\ token \in Token
        BY <1>1, SessionAssumption
      <3>3. /\ [BoardStep]_vars /\ NoRowGoes /\ CredentialsMatch(u, w, token)
            /\ \A t \in TaskId \ {u} : Undisturbed(t)
            /\ tasks'[u].claim_token = token
        BY <1>1, <3>1, <3>2, HolderTasks
      <3>4. nextToken' = nextToken
        BY <3>1 DEF StartTask, RetryStart, CompleteStep, DuplicateReport, vars
      <3>5. tasks[u].claim_token = token
        BY <3>3 DEF CredentialsMatch
      <3>6. QED
        BY <3>3, <3>4, <3>5
    <2>4. CASE \E t \in TaskId, w \in Others, token \in theirs : HolderRequest(t, w, token)
      <3>1. /\ [BoardStep]_vars /\ NoRowGoes /\ nextToken' = nextToken
            /\ \A t \in TaskId : \/ Undisturbed(t)
                                 \/ /\ tasks[t].claim_token \in theirs
                                    /\ tasks'[t].claim_token = tasks[t].claim_token
        BY <2>3, <2>4
      <3>2. QED
        BY <1>1, <2>1, <3>1
    <2>5. QED
      BY <1>7, <2>2, <2>4 DEF OthersWork
  <1>8. CASE SetBack
    <2>1. Quiet
      BY <1>8 DEF SetBack, Quiet
    <2>2. UNCHANGED <<tab, requests, demoGroup, theirs, dropped, lost, resets, nextToken>>
      BY <1>8 DEF SetBack, ClockSetBack
    <2>3. QED
      BY <1>1, <1>4, <2>1, <2>2
  <1>9. QED
    BY <1>3, <1>5, <1>6, <1>7, <1>8

-----------------------------------------------------------------------------
(* What stays true of a request that the step is not about.                *)

(* As it was, unless the tab stopped to wait for it.                       *)
Kept(r) ==
  LET q == requests[r]
      p == requests'[r]
  IN  \/ p = q
      \/ /\ q.mine /\ ~p.mine /\ lost' > 0
         /\ p.kind = q.kind /\ p.at = q.at /\ p.worker = q.worker /\ p.task = q.task
         /\ p.step = q.step /\ p.token = q.token /\ p.group = q.group

(* The tokens that the tab has stay with it, or are dropped.               *)
TokensStay ==
  /\ dropped \subseteq dropped'
  /\ \A t \in TaskId : \/ stored'[t] = stored[t]
                       \/ stored'[t] = NULL /\ stored[t] \in dropped' \cup {NULL}

LEMMA StoredStays ==
  ASSUME stored' = stored, dropped \subseteq dropped'
  PROVE  TokensStay
  BY DEF TokensStay

LEMMA FreedSound ==
  ASSUME NEW r \in Request, requests'[r] = Free
  PROVE  /\ RequestSound(requests[r])' /\ UserAgrees(requests[r])'
         /\ GrantAgrees(requests[r])' /\ Apart(r)'
  BY FreeType DEF RequestSound, UserAgrees, GrantAgrees, Apart, OnItsWay, Using, Granting

LEMMA IssuedKept ==
  ASSUME BoardInv, [BoardStep]_vars, NEW t, NEW token, Issued(t, token)
  PROVE  Issued(t, token)'
  BY HandedOut DEF Issued

LEMMA KeptFields ==
  ASSUME SessionInv, NEW r \in Request, Kept(r)
  PROVE  LET q == requests[r]
             p == requests'[r]
         IN  /\ p.kind = q.kind /\ p.at = q.at /\ p.worker = q.worker /\ p.task = q.task
             /\ p.step = q.step /\ p.token = q.token /\ p.group = q.group
             /\ p.mine => q.mine
             /\ p.mine = q.mine \/ lost' > 0
             /\ q.kind = "free" => p = Free
  <1>1. RequestSound(requests[r])
    BY DEF SessionInv
  <1>2. requests[r].kind = "free" => requests[r] = Free
    BY <1>1 DEF RequestSound
  <1>3. requests[r].kind = "free" => ~requests[r].mine
    BY <1>2, FreeType
  <1>4. QED
    BY <1>2, <1>3 DEF Kept

LEMMA SoundKept ==
  ASSUME SessionInv, [BoardStep]_vars, NEW r \in Request, Kept(r), lost' \in Nat, lost' >= lost
  PROVE  RequestSound(requests[r])'
  <1>1. PICK q, p : q = requests[r] /\ p = requests'[r]
    OBVIOUS
  <1>2. /\ p.kind = q.kind /\ p.at = q.at /\ p.worker = q.worker /\ p.task = q.task
        /\ p.step = q.step /\ p.token = q.token /\ p.group = q.group
        /\ p.mine = q.mine \/ lost' > 0
        /\ q.kind = "free" => p = Free
    BY <1>1, KeptFields
  <1>3. RequestSound(q) /\ BoardInv /\ lost \in Nat
    BY <1>1 DEF SessionInv
  <1>4. ASSUME q.token # NULL PROVE Issued(q.task, q.token)'
    <2>1. Issued(q.task, q.token)
      BY <1>3, <1>4 DEF RequestSound
    <2>2. QED
      BY <1>3, <2>1, IssuedKept
  <1>5. ASSUME q.kind # "free", ~p.mine PROVE lost' > 0
    <2>1. lost > 0 => lost' > 0
      BY <1>3
    <2>2. q.kind # "free" /\ ~q.mine => lost > 0
      BY <1>3 DEF RequestSound
    <2>3. QED
      BY <1>2, <1>5, <2>1, <2>2, Zenon
  <1>6. RequestSound(p)'
    BY <1>2, <1>3, <1>4, <1>5 DEF RequestSound
  <1>7. QED
    BY <1>1, <1>6

LEMMA UserKept ==
  ASSUME SessionInv, [BoardStep]_vars, NEW r \in Request, TokensStay,
         requests'[r].kind = requests[r].kind, requests'[r].task = requests[r].task,
         requests'[r].token = requests[r].token
  PROVE  UserAgrees(requests[r])'
  <1>1. BoardInv /\ RequestSound(requests[r]) /\ UserAgrees(requests[r])
    BY DEF SessionInv
  <1>2. ASSUME requests[r].kind \in Using, Opens(requests[r])'
        PROVE  \/ stored'[requests[r].task] = requests[r].token
               \/ requests[r].token \in dropped'
    <2>1. Issued(requests[r].task, requests[r].token)
      BY <1>1, <1>2 DEF RequestSound
    <2>2. tasks'[requests[r].task].claim_token = requests[r].token
      BY <1>2 DEF Opens
    <2>3. tasks[requests[r].task].claim_token = requests[r].token
      BY <1>1, <2>1, <2>2, HandedOut
    <2>4. \/ stored[requests[r].task] = requests[r].token
          \/ requests[r].token \in dropped
      BY <1>1, <1>2, <2>3 DEF UserAgrees, Opens
    <2>5. requests[r].task \in TaskId /\ requests[r].token # NULL
      BY <2>1, TokenTypes DEF Issued
    <2>6. QED
      BY <2>4, <2>5 DEF TokensStay
  <1>3. QED
    BY <1>2 DEF UserAgrees

LEMMA GrantKept ==
  ASSUME SessionInv, [BoardStep]_vars, NEW r \in Request, Kept(r),
         OnItsWay(requests[r]) => Undisturbed(requests[r].task) \/ ~Opens(requests[r])
  PROVE  GrantAgrees(requests[r])'
  <1>1. PICK q, p : q = requests[r] /\ p = requests'[r]
    OBVIOUS
  <1>2. p.kind = q.kind /\ p.at = q.at /\ p.task = q.task /\ p.token = q.token
    BY <1>1, KeptFields
  <1>3. BoardInv /\ RequestSound(q) /\ GrantAgrees(q)
    BY <1>1 DEF SessionInv
  <1>4. CASE ~OnItsWay(q)
    BY <1>1, <1>2, <1>4 DEF GrantAgrees, OnItsWay
  <1>5. CASE OnItsWay(q)
    <2>1. Issued(q.task, q.token) /\ q.kind \in Granting /\ q.token # NULL
      BY <1>3, <1>5 DEF RequestSound, OnItsWay
    <2>2. tasks'[q.task].claim_token # NULL => tasks'[q.task].claim_token >= q.token
      BY <1>3, <1>5, <2>1, HandedOut DEF GrantAgrees
    <2>3. Exists(q.task)' => /\ Exists(q.task)
                             /\ audit[q.task]["task_created_held"]
                                  <= audit'[q.task]["task_created_held"]
      BY <1>3, <2>1, HandedOut DEF Event
    <2>4. ASSUME tasks'[q.task].claim_token = q.token
          PROVE  Opens(q) /\ tasks'[q.task] = tasks[q.task]
      <3>1. tasks[q.task].claim_token = q.token
        BY <1>3, <2>1, <2>4, HandedOut
      <3>2. Undisturbed(q.task)
        BY <1>1, <1>5, <3>1 DEF Opens
      <3>3. tasks'[q.task] = tasks[q.task]
        BY <1>3, <2>1, <2>4, <3>2, RowIsKept
      <3>4. QED
        BY <3>1, <3>3 DEF Opens
    <2>5. Exists(q.task)' /\ q.kind = "demo" => audit'[q.task]["task_created_held"] > 0
      <3>1. q.task \in TaskId /\ "task_created_held" \in Event
        BY <2>1 DEF Issued, Event
      <3>2. audit[q.task]["task_created_held"] \in Nat
        BY <1>3, <3>1, BoardParts
      <3>3. BoardInv'
        BY <1>3, BoardNext
      <3>4. audit'[q.task]["task_created_held"] \in Nat
        <4>1. TypeOK'
          BY <3>3 DEF BoardInv, StepInv, CredentialInv
        <4>2. QED
          BY <3>1, <4>1 DEF TypeOK
      <3>5. q.kind = "demo" /\ Exists(q.task) => audit[q.task]["task_created_held"] > 0
        BY <1>3, <1>5 DEF GrantAgrees
      <3>6. QED
        BY <2>3, <3>2, <3>4, <3>5
    <2>6. /\ tasks'[q.task].claim_token = q.token =>
               /\ q.at # "refused"
               /\ ~(q.kind = "demo" /\ q.at = "ok") => tasks'[q.task].status = "claimed"
          /\ q.kind = "demo" /\ q.at = "start" /\ tasks'[q.task].claim_token = q.token =>
               tasks'[q.task].claimed_by = DemoWorker
      BY <1>3, <1>5, <2>4 DEF GrantAgrees
    <2>7. /\ p.kind = "demo" /\ Exists(p.task)' => audit'[p.task]["task_created_held"] > 0
          /\ tasks'[p.task].claim_token # NULL => tasks'[p.task].claim_token >= p.token
          /\ tasks'[p.task].claim_token = p.token =>
               /\ p.at # "refused"
               /\ ~(p.kind = "demo" /\ p.at = "ok") => tasks'[p.task].status = "claimed"
          /\ p.kind = "demo" /\ p.at = "start" /\ tasks'[p.task].claim_token = p.token =>
               tasks'[p.task].claimed_by = DemoWorker
      BY <1>2, <2>2, <2>5, <2>6
    <2>8. GrantAgrees(p)'
      BY <2>7 DEF GrantAgrees, Opens
    <2>9. QED
      BY <1>1, <2>8
  <1>6. QED
    BY <1>4, <1>5

LEMMA TokensIssued ==
  ASSUME SessionInv
  PROVE  /\ \A r \in Request : requests[r].token # NULL =>
              requests[r].token \in Token /\ requests[r].token \in Nat /\ requests[r].token < nextToken
         /\ \A t \in TaskId : stored[t] # NULL =>
              stored[t] \in Token /\ stored[t] \in Nat /\ stored[t] < nextToken /\ stored[t] \notin theirs
         /\ \A token \in theirs : token \in Nat /\ token < nextToken
         /\ nextToken \in Nat /\ nextToken # NULL
  <1>1. /\ BoardInv /\ StoredSound /\ theirs \subseteq Token
        /\ \A r \in Request : RequestSound(requests[r])
    BY InvParts DEF SessionInv
  <1>2. nextToken \in Nat /\ nextToken # NULL
    BY <1>1, BoardParts, NullAssumption
  <1>3. \A r \in Request : requests[r].token # NULL =>
          requests[r].token \in Token /\ requests[r].token < nextToken
    BY <1>1 DEF RequestSound, Issued
  <1>4. \A t \in TaskId : stored[t] # NULL =>
          stored[t] \in Token /\ stored[t] < nextToken /\ stored[t] \notin theirs
    BY <1>1 DEF StoredSound, Issued
  <1>5. \A token \in theirs : token \in Token /\ token < nextToken
    BY <1>1 DEF StoredSound
  <1>6. QED
    BY <1>2, <1>3, <1>4, <1>5, TokenTypes

LEMMA ApartKept ==
  ASSUME SessionInv, NEW r \in Request, TokensStay,
         \A p \in Request : \/ requests'[p] = Free
                            \/ /\ requests'[p].kind = requests[p].kind
                               /\ requests'[p].token = requests[p].token
                               /\ requests'[p].mine => requests[p].mine,
         \A token \in theirs' : token \in theirs \/ token >= nextToken
  PROVE  Apart(r)'
  <1>1. Apart(r)
    BY DEF SessionInv
  <1>2. CASE requests'[r] = Free
    BY <1>2, FreedSound
  <1>3. CASE requests'[r] # Free
    <2>1. PICK q : q = requests'[r]
      OBVIOUS
    <2>2. /\ q.kind = requests[r].kind /\ q.token = requests[r].token
          /\ q.mine => requests[r].mine
      BY <1>3, <2>1
    <2>3. q.token # NULL => q.token \notin theirs'
      <3>1. requests[r].token # NULL => /\ requests[r].token \notin theirs
                                        /\ requests[r].token \in Nat
                                        /\ requests[r].token < nextToken
        BY <1>1, TokensIssued DEF Apart
      <3>2. nextToken \in Nat
        BY TokensIssued
      <3>3. QED
        BY <2>2, <3>1, <3>2
    <2>4. ASSUME q.kind \in Granting, q.token # NULL
          PROVE  /\ \A t \in TaskId : stored'[t] # q.token
                 /\ \A p \in Request \ {r} : requests'[p].token # q.token
                 /\ q.mine =>
                      /\ \A t \in TaskId : stored'[t] # NULL => stored'[t] < q.token
                      /\ \A p \in Request : requests'[p].kind \in Using => requests'[p].token < q.token
      <3>1. /\ \A t \in TaskId : stored[t] # q.token
            /\ \A p \in Request \ {r} : requests[p].token # q.token
            /\ q.mine =>
                 /\ \A t \in TaskId : stored[t] # NULL => stored[t] < q.token
                 /\ \A p \in Request : requests[p].kind \in Using => requests[p].token < q.token
        BY <1>1, <2>2, <2>4 DEF Apart, OnItsWay
      <3>2. Free.token = NULL /\ Free.kind \notin Using
        BY FreeType DEF Using
      <3>3. \A t \in TaskId : stored'[t] = stored[t] \/ stored'[t] = NULL
        BY DEF TokensStay
      <3>4. QED
        BY <2>4, <3>1, <3>2, <3>3
    <2>5. QED
      BY <2>1, <2>3, <2>4 DEF Apart, OnItsWay
  <1>4. QED
    BY <1>2, <1>3

LEMMA ApartGiven ==
  ASSUME SessionInv, NEW r \in Request, Given(r), stored' = stored, theirs' = theirs,
         NEW p \in Request
  PROVE  Apart(p)'
  <1>1. PICK q : q = requests'[p]
    OBVIOUS
  <1>2. /\ requests'[r].token = nextToken /\ requests'[r].kind = requests[r].kind
        /\ requests[r].kind \in Granting
        /\ \A x \in Request \ {r} : requests'[x] = requests[x]
    BY DEF Given, OthersStay
  <1>3. requests'[r].kind \notin Using
    BY <1>2 DEF Granting, Using
  <1>4. CASE p = r
    <2>1. /\ nextToken \notin theirs /\ \A t \in TaskId : stored[t] # nextToken
          /\ \A x \in Request : requests[x].token # nextToken
          /\ \A t \in TaskId : stored[t] # NULL => stored[t] < nextToken
      BY TokensIssued
    <2>2. \A x \in Request : requests'[x].kind \in Using => requests'[x].token < nextToken
      <3>1. ASSUME NEW x \in Request, requests'[x].kind \in Using
            PROVE  requests'[x].token < nextToken
        <4>1. requests'[x] = requests[x]
          BY <1>2, <1>3, <3>1
        <4>2. RequestSound(requests[x])
          BY DEF SessionInv
        <4>3. requests[x].token # NULL
          BY <3>1, <4>1, <4>2 DEF RequestSound
        <4>4. QED
          BY <4>1, <4>3, TokensIssued
      <3>2. QED
        BY <3>1
    <2>3. q.token = nextToken
      BY <1>1, <1>2, <1>4
    <2>4. QED
      BY <1>1, <1>2, <1>4, <2>1, <2>2, <2>3 DEF Apart, OnItsWay
  <1>5. CASE p # r
    <2>1. q = requests[p] /\ Apart(p)
      BY <1>1, <1>2, <1>5 DEF SessionInv
    <2>2. q.token # nextToken /\ nextToken # NULL
      BY <2>1, TokensIssued
    <2>3. /\ q.token # NULL => q.token \notin theirs
          /\ OnItsWay(q) =>
               /\ \A t \in TaskId : stored[t] # q.token
               /\ \A x \in Request \ {p} : requests[x].token # q.token
          /\ OnItsWay(q) /\ q.mine =>
               /\ \A t \in TaskId : stored[t] # NULL => stored[t] < q.token
               /\ \A x \in Request : requests[x].kind \in Using => requests[x].token < q.token
      BY <2>1 DEF Apart
    <2>4. \A x \in Request \ {p} : requests[x].token # q.token => requests'[x].token # q.token
      BY <1>2, <2>2
    <2>5. \A x \in Request : requests'[x].kind \in Using => requests'[x] = requests[x]
      BY <1>2, <1>3
    <2>6. QED
      BY <1>1, <2>3, <2>4, <2>5 DEF Apart, OnItsWay
  <1>6. QED
    BY <1>4, <1>5

-----------------------------------------------------------------------------
(* The requests after a step of the server.                                *)

LEMMA GivenSound ==
  ASSUME SessionInv, NEW r \in Request, Given(r), lost' = lost
  PROVE  /\ RequestSound(requests[r])' /\ UserAgrees(requests[r])'
         /\ GrantAgrees(requests[r])'
  <1>1. PICK q, p : q = requests[r] /\ p = requests'[r]
    OBVIOUS
  <1>2. /\ RequestSound(q) /\ nextToken \in Nat /\ nextToken # NULL
    BY <1>1, TokensIssued DEF SessionInv
  <1>3. /\ p.kind = q.kind /\ p.mine = q.mine /\ p.token = nextToken
        /\ nextToken' = nextToken + 1 /\ p.task \in TaskId /\ p.task < nextTask'
        /\ p.token \in Token
        /\ tasks'[p.task].claim_token = p.token /\ tasks'[p.task].status = "claimed"
        /\ p.at = IF q.kind = "claim" THEN "read" ELSE "start"
        /\ q.kind \in {"claim", "demo"}
        /\ q.kind = "demo" => /\ p.worker = DemoWorker /\ tasks'[p.task].claimed_by = DemoWorker
                              /\ audit'[p.task]["task_created_held"] > 0
    BY <1>1 DEF Given, Granting
  <1>4. q.kind # "free" /\ ~q.mine => lost > 0
    BY <1>2 DEF RequestSound
  <1>5. Issued(p.task, p.token)'
    BY <1>2, <1>3 DEF Issued
  <1>6. p.kind # "free" /\ ~p.mine => lost' > 0
    <2>1. CASE q.mine
      BY <1>3, <2>1, Zenon
    <2>2. CASE ~q.mine
      BY <1>3, <1>4, <2>2
    <2>3. QED
      BY <2>1, <2>2
  <1>7. p.kind \in {"claim", "demo"} /\ p.at \in {"read", "start"}
    BY <1>3
  <1>8. RequestSound(p)'
    BY <1>2, <1>3, <1>5, <1>6, <1>7 DEF RequestSound, Using, Granting, Early
  <1>9. UserAgrees(p)'
    BY <1>7 DEF UserAgrees, Using
  <1>10. GrantAgrees(p)'
    BY <1>2, <1>3, <1>7 DEF GrantAgrees, OnItsWay, Opens
  <1>11. QED
    BY <1>1, <1>8, <1>9, <1>10

LEMMA ProceedsSound ==
  ASSUME SessionInv, NEW r \in Request, Proceeds(r), lost' = lost
  PROVE  /\ RequestSound(requests[r])' /\ UserAgrees(requests[r])'
         /\ GrantAgrees(requests[r])'
  <1>1. PICK q, p : q = requests[r] /\ p = requests'[r]
    OBVIOUS
  <1>2. RequestSound(q)
    BY <1>1 DEF SessionInv
  <1>3. CASE p = Free
    BY <1>1, <1>3, FreedSound
  <1>4. CASE p # Free
    <2>1. /\ SameRequest(q, p) /\ p.at \in Early \cup {"refused"}
          /\ p.at \in {"read group", "queue", "insert"} => p.group \in GroupId
          /\ q.kind = "demo" /\ q.token = NULL
      BY <1>1, <1>4 DEF Proceeds
    <2>2. p.kind = "demo" /\ p.token = NULL /\ p.mine = q.mine
      BY <2>1 DEF SameRequest
    <2>3. ~p.mine => lost' > 0
      <3>1. ~q.mine => lost' > 0
        BY <1>2, <2>1 DEF RequestSound
      <3>2. QED
        BY <2>2, <3>1, Zenon
    <2>4. RequestSound(p)'
      BY <2>1, <2>2, <2>3 DEF RequestSound, Using, Granting, Early
    <2>5. UserAgrees(p)' /\ GrantAgrees(p)'
      BY <2>2 DEF UserAgrees, GrantAgrees, OnItsWay, Using
    <2>6. QED
      BY <1>1, <2>4, <2>5
  <1>5. QED
    BY <1>3, <1>4

(* The answer tells what the board says of the task that it is about.      *)
LEMMA ServesSound ==
  ASSUME SessionInv, NEW r \in Request, NEW a \in Answer, Serves(r, a), [BoardStep]_vars,
         requests[r].kind \in Granting, requests[r].token # NULL
  PROVE  LET q == requests[r]
         IN  /\ a \in {"ok", "refused"}
             /\ tasks'[q.task].claim_token # NULL => tasks'[q.task].claim_token >= q.token
             /\ tasks'[q.task].claim_token = q.token =>
                  /\ a = "ok"
                  /\ q.kind # "demo" => tasks'[q.task].status = "claimed"
             /\ q.kind = "demo" /\ tasks'[q.task].status # "absent" =>
                  audit'[q.task]["task_created_held"] > 0
  <1>1. PICK q : q = requests[r]
    OBVIOUS
  <1>2. /\ BoardInv /\ RequestSound(q) /\ GrantAgrees(q) /\ OnItsWay(q)
        /\ q.kind \in {"claim", "demo"} /\ q.token # NULL
    BY <1>1 DEF SessionInv, OnItsWay, Granting
  <1>3. Issued(q.task, q.token)
    BY <1>2 DEF RequestSound
  <1>4. tasks'[q.task].claim_token # NULL => tasks'[q.task].claim_token >= q.token
    BY <1>2, <1>3, HandedOut DEF GrantAgrees
  <1>5. ASSUME q.kind = "demo", Exists(q.task)'
        PROVE  audit'[q.task]["task_created_held"] > 0
    <2>1. q.task \in TaskId /\ "task_created_held" \in Event
      BY <1>3 DEF Issued, Event
    <2>2. /\ Exists(q.task)
          /\ audit[q.task]["task_created_held"] <= audit'[q.task]["task_created_held"]
      BY <1>2, <1>3, <1>5, <2>1, HandedOut
    <2>3. audit[q.task]["task_created_held"] > 0
      BY <1>2, <1>5, <2>2 DEF GrantAgrees
    <2>4. audit[q.task]["task_created_held"] \in Nat
      BY <1>2, <2>1, BoardParts
    <2>5. audit'[q.task]["task_created_held"] \in Nat
      <3>1. TypeOK'
        BY <1>2, BoardParts, NextType
      <3>2. QED
        BY <2>1, <3>1 DEF TypeOK
    <2>6. QED
      BY <2>2, <2>3, <2>4, <2>5
  <1>6. \/ /\ q.kind = "claim" /\ a \in {"ok", "refused"} /\ tasks' = tasks
           /\ a = "refused" => ~Exists(q.task)
        \/ q.kind = "demo" /\ a = "ok"
        \/ /\ q.kind = "demo" /\ a = "refused" /\ q.at = "start" /\ tasks' = tasks
           /\ ~(CredentialsMatch(q.task, q.worker, q.token) /\ tasks[q.task].status = "claimed")
    BY <1>1, <1>2 DEF Serves, vars
  <1>7. ASSUME tasks'[q.task].claim_token = q.token
        PROVE  a = "ok" /\ (q.kind # "demo" => tasks'[q.task].status = "claimed")
    <2>1. tasks[q.task].claim_token = q.token /\ Exists(q.task)
      BY <1>2, <1>3, <1>7, HandedOut
    <2>2. Opens(q)
      BY <2>1 DEF Opens
    <2>3. ~(q.kind = "demo" /\ q.at = "ok") => tasks[q.task].status = "claimed"
      BY <1>2, <2>2 DEF GrantAgrees
    <2>4. CASE q.kind = "claim"
      BY <1>6, <2>1, <2>3, <2>4
    <2>5. CASE q.kind = "demo"
      <3>1. ASSUME a # "ok" PROVE FALSE
        <4>1. /\ q.at = "start" /\ tasks[q.task].status = "claimed"
              /\ ~CredentialsMatch(q.task, q.worker, q.token)
          BY <1>6, <2>3, <2>5, <3>1
        <4>2. tasks[q.task].claimed_by = DemoWorker
          BY <1>2, <2>2, <2>5, <4>1 DEF GrantAgrees
        <4>3. q.worker = DemoWorker
          BY <1>2, <2>5 DEF RequestSound
        <4>4. QED
          BY <2>1, <4>1, <4>2, <4>3 DEF CredentialsMatch
      <3>2. QED
        BY <2>5, <3>1
    <2>6. QED
      BY <1>2, <2>4, <2>5
  <1>8. a \in {"ok", "refused"}
    BY <1>6
  <1>9. QED
    BY <1>1, <1>4, <1>5, <1>7, <1>8 DEF Exists

LEMMA RepliedSound ==
  ASSUME SessionInv, NEW r \in Request, NEW a \in Answer, Replied(r, a), Serves(r, a),
         [BoardStep]_vars, lost' = lost, TokensStay
  PROVE  /\ RequestSound(requests[r])' /\ UserAgrees(requests[r])'
         /\ GrantAgrees(requests[r])'
  <1>1. PICK q, p : q = requests[r] /\ p = requests'[r]
    OBVIOUS
  <1>2. RequestSound(q) /\ BoardInv
    BY <1>1 DEF SessionInv
  <1>3. CASE ~q.mine
    BY <1>1, <1>3, FreedSound DEF Replied
  <1>4. CASE q.mine
    <2>1. /\ p.kind = q.kind /\ p.mine = q.mine /\ p.worker = q.worker /\ p.task = q.task
          /\ p.step = q.step /\ p.token = q.token /\ p.at = a
      BY <1>1, <1>4 DEF Replied, SameRequest
    <2>2. p.mine
      BY <1>4, <2>1, Zenon
    <2>3. /\ q.kind \in {"claim", "demo", "start", "report"}
          /\ q.kind = "report" => a \in {"inserted", "duplicate", "refused"}
          /\ q.kind \in {"claim", "demo"} /\ a = "nothing" => q.token = NULL
          /\ q.kind \in {"claim", "demo"} /\ a = "ok" => q.at \in {"read", "start"}
      BY <1>1 DEF Serves
    <2>4. a \in {"ok", "nothing", "inserted", "duplicate", "refused"}
      BY DEF Answer
    <2>5. ASSUME p.token # NULL PROVE Issued(p.task, p.token)'
      <3>1. Issued(p.task, p.token)
        BY <1>2, <2>1, <2>5 DEF RequestSound
      <3>2. QED
        BY <1>2, <3>1, IssuedKept
    <2>6. /\ p.kind \in Using => p.token # NULL
          /\ p.kind = "report" => p.step \in StepSeq
          /\ p.kind = "demo" /\ p.token # NULL => p.worker = DemoWorker
          /\ p.kind \in {"claim", "demo"} /\ a = "ok" => p.token # NULL
      BY <1>2, <2>1, <2>3 DEF RequestSound, Granting
    <2>7. RequestSound(p)'
      BY <2>1, <2>2, <2>3, <2>4, <2>5, <2>6 DEF RequestSound, Granting, Early
    <2>8. UserAgrees(requests[r])'
      BY <1>1, <2>1, UserKept
    <2>9. ASSUME OnItsWay(p)
          PROVE  /\ a \in {"ok", "refused"}
                 /\ tasks'[p.task].claim_token # NULL => tasks'[p.task].claim_token >= p.token
                 /\ tasks'[p.task].claim_token = p.token =>
                      /\ a = "ok"
                      /\ p.kind # "demo" => tasks'[p.task].status = "claimed"
                 /\ p.kind = "demo" /\ Exists(p.task)' => audit'[p.task]["task_created_held"] > 0
      <3>1. q.kind \in Granting /\ q.token # NULL
        BY <2>1, <2>9 DEF OnItsWay
      <3>2. QED
        BY <1>1, <2>1, <3>1, ServesSound DEF Exists
    <2>10. GrantAgrees(p)'
      BY <2>1, <2>9 DEF GrantAgrees, Opens
    <2>11. QED
      BY <1>1, <2>7, <2>8, <2>10
  <1>5. QED
    BY <1>3, <1>4

LEMMA ServerRequests ==
  ASSUME SessionInv, NEW r \in Request, ServerMove(r), UNCHANGED <<tab, theirs, bounds>>,
         TokensStay, NEW p \in Request
  PROVE  /\ RequestSound(requests[p])' /\ Apart(p)' /\ UserAgrees(requests[p])'
         /\ GrantAgrees(requests[p])'
  <1>1. /\ stored' = stored /\ theirs' = theirs /\ lost' = lost /\ lost \in Nat
        /\ BoardInv /\ RequestSound(requests[p]) /\ Apart(p)
    BY DEF tab, bounds, SessionInv
  <1>2. /\ [BoardStep]_vars
        /\ \A x \in Request \ {r} : requests'[x] = requests[x]
        /\ \A t \in TaskId : \/ Undisturbed(t)
                             \/ CredentialsMatch(t, requests[r].worker, requests[r].token)
    BY ServerBoard DEF OthersStay
  <1>3. Apart(p)'
    <2>1. CASE Given(r)
      BY <1>1, <2>1, ApartGiven
    <2>2. CASE ~Given(r)
      <3>1. \/ requests'[r] = Free
            \/ /\ requests'[r].kind = requests[r].kind
               /\ requests'[r].token = requests[r].token
               /\ requests'[r].mine = requests[r].mine
        BY <2>2 DEF ServerMove, Proceeds, Replied, SameRequest
      <3>2. \A x \in Request : \/ requests'[x] = Free
                               \/ /\ requests'[x].kind = requests[x].kind
                                  /\ requests'[x].token = requests[x].token
                                  /\ requests'[x].mine => requests[x].mine
        BY <1>2, <3>1, Zenon
      <3>3. QED
        BY <1>1, <3>2, ApartKept
    <2>3. QED
      BY <2>1, <2>2
  <1>4. CASE p = r
    <2>1. CASE Given(r)
      BY <1>1, <1>3, <1>4, <2>1, GivenSound
    <2>2. CASE Proceeds(r)
      BY <1>1, <1>3, <1>4, <2>2, ProceedsSound
    <2>3. ASSUME NEW a \in Answer, Replied(r, a), Serves(r, a)
          PROVE  /\ RequestSound(requests[r])' /\ UserAgrees(requests[r])'
                 /\ GrantAgrees(requests[r])'
      BY <1>1, <1>2, <2>3, RepliedSound
    <2>4. QED
      BY <1>3, <1>4, <2>1, <2>2, <2>3 DEF ServerMove
  <1>5. CASE p # r
    <2>1. requests'[p] = requests[p] /\ Kept(p)
      BY <1>2, <1>5 DEF Kept
    <2>2. OnItsWay(requests[p]) => Undisturbed(requests[p].task) \/ ~Opens(requests[p])
      <3>1. ASSUME OnItsWay(requests[p]), Opens(requests[p])
            PROVE  Undisturbed(requests[p].task)
        <4>1. requests[p].task \in TaskId
          BY <1>1, <3>1 DEF RequestSound, Issued, OnItsWay
        <4>2. requests[r].token # requests[p].token
          BY <1>1, <1>5, <3>1 DEF Apart
        <4>3. ~CredentialsMatch(requests[p].task, requests[r].worker, requests[r].token)
          BY <3>1, <4>2 DEF Opens, CredentialsMatch
        <4>4. QED
          BY <1>2, <4>1, <4>3
      <3>2. QED
        BY <3>1
    <2>3. RequestSound(requests[p])'
      BY <1>1, <1>2, <2>1, SoundKept
    <2>4. GrantAgrees(requests[p])'
      BY <1>2, <2>1, <2>2, GrantKept
    <2>5. UserAgrees(requests[p])'
      BY <1>1, <1>2, <2>1, UserKept
    <2>6. QED
      BY <1>3, <2>3, <2>4, <2>5
  <1>6. QED
    BY <1>4, <1>5

-----------------------------------------------------------------------------
(* What the tab has stays true while the server and the others work.       *)

LEMMA StoredKept ==
  ASSUME SessionInv, [BoardStep]_vars, TokensStay,
         \A token \in theirs' : token < nextToken' /\ (token \in theirs \/ token >= nextToken)
  PROVE  /\ StoredSound'
         /\ \A t, token : Issued(t, token) /\ token \notin theirs
                             => Issued(t, token)' /\ token \notin theirs'
  <1>1. BoardInv /\ StoredSound
    BY DEF SessionInv
  <1>2. nextToken \in Nat /\ Token \subseteq Nat
    BY TokensIssued, TokenTypes
  <1>3. \A t, token : Issued(t, token) /\ token \notin theirs => token \notin theirs'
    BY <1>2 DEF Issued
  <1>4. \A t, token : Issued(t, token) => Issued(t, token)'
    BY <1>1, IssuedKept
  <1>5. PICK f : f = stored'
    OBVIOUS
  <1>6. \A t \in TaskId : f[t] # NULL => Issued(t, f[t]) /\ f[t] \notin theirs
    BY <1>1, <1>5 DEF TokensStay, StoredSound
  <1>7. \A t \in TaskId : f[t] # NULL => Issued(t, f[t])' /\ f[t] \notin theirs'
    BY <1>3, <1>4, <1>6
  <1>8. StoredSound'
    BY <1>5, <1>7 DEF StoredSound
  <1>9. QED
    BY <1>3, <1>4, <1>8

LEMMA VerdictKept ==
  ASSUME SessionInv, [BoardStep]_vars, verdict' = verdict, lost' \in Nat, lost' >= lost
  PROVE  VerdictSound' /\ PassCertifies' /\ AlarmsHaveACause'
  <1>1. /\ BoardInv /\ VerdictSound /\ PassCertifies /\ AlarmsHaveACause /\ lost \in Nat
    BY DEF SessionInv
  <1>2. \A t, token : Issued(t, token) => Issued(t, token)'
    BY <1>1, IssuedKept
  <1>3. PICK v : v = verdict /\ verdict' = v
    OBVIOUS
  <1>4. v # NULL => v \in Verdict /\ Issued(v.task, v.token)
    BY <1>1, <1>3 DEF VerdictSound
  <1>5. VerdictSound'
    BY <1>2, <1>3, <1>4 DEF VerdictSound
  <1>6. PassCertifies'
    <2>1. ASSUME v # NULL, v.passed, Exists(v.task)'
          PROVE  /\ logs'[v.task][v.step] = "success"
                 /\ audit'[v.task]["step_report"] >= 1
                 /\ audit'[v.task]["duplicate_report"] >= Reports - 1
      <3>1. v.task \in TaskId /\ v.step \in StepSeq /\ Issued(v.task, v.token)
        BY <1>4, <2>1 DEF Verdict
      <3>2. /\ Exists(v.task)
            /\ \A e \in Event : audit[v.task][e] <= audit'[v.task][e]
            /\ logs[v.task][v.step] # NULL => logs'[v.task][v.step] = logs[v.task][v.step]
        BY <1>1, <2>1, <3>1, HandedOut
      <3>3. /\ logs[v.task][v.step] = "success"
            /\ audit[v.task]["step_report"] >= 1
            /\ audit[v.task]["duplicate_report"] >= Reports - 1
        BY <1>1, <1>3, <2>1, <3>2 DEF PassCertifies
      <3>4. TypeOK /\ TypeOK'
        BY <1>1, BoardParts, NextType
      <3>5. /\ audit[v.task]["step_report"] \in Nat /\ audit'[v.task]["step_report"] \in Nat
            /\ audit[v.task]["duplicate_report"] \in Nat
            /\ audit'[v.task]["duplicate_report"] \in Nat
        BY <3>1, <3>4 DEF TypeOK, Event
      <3>6. /\ audit[v.task]["step_report"] <= audit'[v.task]["step_report"]
            /\ audit[v.task]["duplicate_report"] <= audit'[v.task]["duplicate_report"]
        BY <3>2 DEF Event
      <3>7. Reports \in Int /\ NULL # "success"
        BY SessionAssumption, NullAssumption
      <3>8. QED
        BY <3>2, <3>3, <3>5, <3>6, <3>7
    <2>2. QED
      BY <1>3, <2>1 DEF PassCertifies
  <1>7. AlarmsHaveACause'
    <2>1. lost > 0 => lost' > 0
      BY <1>1
    <2>2. ASSUME v # NULL, ~v.passed, ~(lost > 0), CredentialsMatch(v.task, v.worker, v.token)'
          PROVE  FALSE
      <3>1. Issued(v.task, v.token)
        BY <1>4, <2>2
      <3>2. tasks'[v.task].claim_token = v.token /\ tasks'[v.task].claimed_by = v.worker
        BY <2>2 DEF CredentialsMatch
      <3>3. CredentialsMatch(v.task, v.worker, v.token)
        BY <1>1, <3>1, <3>2, HandedOut DEF CredentialsMatch
      <3>4. QED
        BY <1>1, <1>3, <2>2, <3>3 DEF AlarmsHaveACause
    <2>3. QED
      BY <1>3, <2>1, <2>2 DEF AlarmsHaveACause
  <1>8. QED
    BY <1>5, <1>6, <1>7

LEMMA BoardKeepsTab ==
  ASSUME SessionInv, [BoardStep]_vars, UNCHANGED tab, TokensStay, lost' = lost, Mine' = Mine,
         \A r \in Mine :
           /\ requests'[r].kind = requests[r].kind
           /\ requests[r].kind = "report" =>
                /\ requests'[r].task = requests[r].task /\ requests'[r].step = requests[r].step
                /\ requests'[r].worker = requests[r].worker
                /\ requests'[r].token = requests[r].token,
         \A token \in theirs' : token < nextToken' /\ (token \in theirs \/ token >= nextToken)
  PROVE  StoredSound' /\ BusySound' /\ VerdictSound' /\ PassCertifies' /\ AlarmsHaveACause'
  <1>1. /\ BusySound /\ lost \in Nat
    BY DEF SessionInv
  <1>2. stored' = stored /\ busy' = busy /\ verdict' = verdict
    BY DEF tab
  <1>3. /\ StoredSound'
        /\ \A t, token : Issued(t, token) /\ token \notin theirs
                            => Issued(t, token)' /\ token \notin theirs'
    BY <1>2, StoredKept
  <1>4. VerdictSound' /\ PassCertifies' /\ AlarmsHaveACause'
    BY <1>1, <1>2, VerdictKept
  <1>5. BusySound'
    <2>1. Verifying' <=> Verifying
      BY <1>2 DEF Verifying
    <2>2. /\ \A r \in Mine : busy # NULL /\ requests'[r].kind = busy.kind
          /\ ~Verifying => \A q, r \in Mine : q = r
      BY <1>1 DEF BusySound
    <2>3. ASSUME Verifying
          PROVE  /\ Issued(busy.task, busy.token) /\ busy.token \notin theirs
                 /\ busy.step \in StepSeq
                 /\ \A r \in Mine : /\ requests'[r].task = busy.task /\ requests'[r].step = busy.step
                                    /\ requests'[r].worker = busy.worker
                                    /\ requests'[r].token = busy.token
                 /\ lost = 0 => Cardinality(Mine) = Reports
      <3>1. \A r \in Mine : requests[r].kind = "report"
        BY <1>1, <2>3 DEF BusySound, Verifying
      <3>2. QED
        BY <1>1, <2>3, <3>1 DEF BusySound
    <2>4. PICK b : b = busy
      OBVIOUS
    <2>5. Verifying => Issued(b.task, b.token)' /\ b.token \notin theirs'
      BY <1>3, <2>3, <2>4
    <2>6. QED
      BY <1>2, <2>1, <2>2, <2>3, <2>4, <2>5 DEF BusySound
  <1>6. QED
    BY <1>3, <1>4, <1>5

LEMMA AnswersKept ==
  ASSUME SessionInv, [BoardStep]_vars, busy' = busy,
         Answers("inserted")' = Answers("inserted"), Answers("duplicate")' = Answers("duplicate")
  PROVE  AnswersTell'
  <1>1. PICK b, ins, dup : b = busy /\ ins = Answers("inserted") /\ dup = Answers("duplicate")
    OBVIOUS
  <1>2. /\ BoardInv /\ AnswersTell
        /\ b # NULL /\ b.kind = "report" => Issued(b.task, b.token) /\ b.step \in StepSeq
    BY <1>1 DEF SessionInv, BusySound, Verifying
  <1>3. ASSUME b # NULL, b.kind = "report", Exists(b.task)'
        PROVE  /\ ins # {} => logs'[b.task][b.step] = "success"
               /\ dup # {} => logs'[b.task][b.step] # NULL
               /\ logs'[b.task][b.step] = "success" =>
                    Cardinality(dup) <= audit'[b.task]["duplicate_report"]
    <2>1. /\ Exists(b.task) /\ b.task \in TaskId
          /\ logs[b.task][b.step] # NULL => logs'[b.task][b.step] = logs[b.task][b.step]
          /\ audit[b.task]["duplicate_report"] <= audit'[b.task]["duplicate_report"]
      <3>1. Issued(b.task, b.token) /\ b.step \in StepSeq /\ "duplicate_report" \in Event
        BY <1>2, <1>3 DEF Event
      <3>2. QED
        BY <1>2, <1>3, <3>1, HandedOut
    <2>2. /\ ins # {} => logs[b.task][b.step] = "success"
          /\ dup # {} => logs[b.task][b.step] # NULL
          /\ logs[b.task][b.step] = "success" =>
               Cardinality(dup) <= audit[b.task]["duplicate_report"]
      BY <1>1, <1>2, <1>3, <2>1 DEF AnswersTell, Verifying
    <2>3. audit[b.task]["duplicate_report"] \in Nat /\ audit'[b.task]["duplicate_report"] \in Nat
      <3>1. TypeOK /\ TypeOK'
        BY <1>2, BoardParts, NextType
      <3>2. QED
        BY <2>1, <3>1 DEF TypeOK, Event
    <2>4. Cardinality({}) = 0 /\ NULL # "success"
      BY FS_EmptySet, NullAssumption
    <2>5. ASSUME logs'[b.task][b.step] = "success"
          PROVE  Cardinality(dup) <= audit'[b.task]["duplicate_report"]
      <3>1. CASE dup = {}
        BY <2>3, <2>4, <3>1
      <3>2. CASE dup # {}
        <4>1. Cardinality(dup) <= audit[b.task]["duplicate_report"]
          BY <2>1, <2>2, <2>5, <3>2
        <4>2. IsFiniteSet(dup)
          <5>1. dup \subseteq Request
            BY <1>1 DEF Answers, Mine
          <5>2. QED
            BY <5>1, SessionAssumption, FS_Subset
        <4>3. Cardinality(dup) \in Nat
          BY <4>2, FS_CardinalityType
        <4>4. QED
          BY <2>1, <2>3, <4>1, <4>3
      <3>3. QED
        BY <3>1, <3>2
    <2>6. QED
      BY <2>1, <2>2, <2>4, <2>5
  <1>4. QED
    BY <1>1, <1>3 DEF AnswersTell, Verifying

LEMMA HeldCount ==
  ASSUME TypeOK, NEW t \in TaskId
  PROVE  /\ audit[t]["task_created_held"] \in Nat /\ audit[t]["manual_requeue"] \in Nat
         /\ audit[t]["lease_reclaim"] \in Nat
  BY DEF TypeOK, Event

LEMMA RowsKept ==
  ASSUME SessionInv, [BoardStep]_vars,
         (NoRowGoes /\ resets' = resets) \/ resets' = resets + 1
  PROVE  RowsRemain'
  <1>1. RowsRemain /\ resets \in Nat
    BY DEF SessionInv
  <1>2. CASE resets' = resets + 1
    <2>1. resets' # 0
      BY <1>1, <1>2
    <2>2. QED
      BY <2>1 DEF RowsRemain
  <1>3. CASE NoRowGoes /\ resets' = resets
    BY <1>1, <1>3 DEF RowsRemain, NoRowGoes
  <1>4. QED
    BY <1>2, <1>3

(* What ends the claim of a task that is not started.                      *)
LEMMA ClaimEnds ==
  ASSUME BoardInv, NEW t \in TaskId, t < nextTask, Undisturbed(t), tasks[t].status = "claimed"
  PROVE  \/ tasks'[t] = tasks[t] \/ ~Exists(t)'
         \/ audit'[t]["manual_requeue"] + audit'[t]["lease_reclaim"] > 0
  <1>1. audit[t]["manual_requeue"] \in Nat /\ audit[t]["lease_reclaim"] \in Nat
    BY BoardParts, HeldCount
  <1>2. ~TaskCreated(t)
    BY BoardParts DEF TaskCreated
  <1>3. "manual_requeue" \in Event /\ "lease_reclaim" \in Event
    BY DEF Event
  <1>4. ASSUME NEW events, Logged(t, events),
               "manual_requeue" \in events \/ "lease_reclaim" \in events
        PROVE  audit'[t]["manual_requeue"] + audit'[t]["lease_reclaim"] > 0
    <2>1. /\ audit'[t]["manual_requeue"] \in Nat /\ audit'[t]["lease_reclaim"] \in Nat
          /\ audit'[t]["manual_requeue"] > 0 \/ audit'[t]["lease_reclaim"] > 0
      <3>1. /\ audit'[t]["manual_requeue"] = IF "manual_requeue" \in events
                 THEN audit[t]["manual_requeue"] + 1 ELSE audit[t]["manual_requeue"]
            /\ audit'[t]["lease_reclaim"] = IF "lease_reclaim" \in events
                 THEN audit[t]["lease_reclaim"] + 1 ELSE audit[t]["lease_reclaim"]
        BY <1>3, <1>4 DEF Logged
      <3>2. QED
        BY <1>1, <1>4, <3>1
    <2>2. QED
      BY <2>1
  <1>5. CASE TaskKept(t)
    BY <1>5 DEF TaskKept
  <1>6. CASE TaskReclaimed(t)
    <2>1. Logged(t, {"lease_reclaim"})
      BY <1>6 DEF TaskReclaimed
    <2>2. QED
      BY <1>4, <2>1
  <1>7. CASE TaskRequeued(t)
    <2>1. Logged(t, {"manual_requeue"})
      BY <1>7 DEF TaskRequeued
    <2>2. QED
      BY <1>4, <2>1
  <1>8. CASE TaskGranted(t)
    <2>1. ~Unclaimed(tasks[t])
      BY DEF Unclaimed
    <2>2. Logged(t, {"claim", "lease_reclaim"})
      BY <1>8, <2>1 DEF TaskGranted
    <2>3. QED
      BY <1>4, <2>2
  <1>9. CASE TaskWiped(t)
    BY <1>9 DEF TaskWiped, Exists, NoTask
  <1>10. QED
    BY <1>2, <1>5, <1>6, <1>7, <1>8, <1>9 DEF Undisturbed

DemoHolds(q) ==
  q.kind = "demo" /\ q.at = "start" =>
    \/ CredentialsMatch(q.task, DemoWorker, q.token) /\ tasks[q.task].status = "claimed"
    \/ resets > 0
    \/ audit[q.task]["manual_requeue"] + audit[q.task]["lease_reclaim"] > 0

LEMMA DemoEach ==
  DemoTaskIsNotSnatched <=> \A r \in Request : DemoHolds(requests[r])
BY DEF DemoTaskIsNotSnatched, DemoHolds

LEMMA DemoKept ==
  ASSUME SessionInv, [BoardStep]_vars, NEW r \in Request,
         (NoRowGoes /\ resets' = resets) \/ resets' = resets + 1,
         requests'[r] = Free \/ Kept(r),
         OnItsWay(requests[r]) => Undisturbed(requests[r].task) \/ ~Opens(requests[r])
  PROVE  DemoHolds(requests[r])'
  <1>1. PICK q, p : q = requests[r] /\ p = requests'[r]
    OBVIOUS
  <1>2. /\ BoardInv /\ RequestSound(q) /\ DemoHolds(q) /\ RowsRemain /\ resets \in Nat
    BY <1>1, DemoEach DEF SessionInv
  <1>3. CASE p = Free
    BY <1>1, <1>3, FreeType DEF DemoHolds
  <1>4. CASE q.kind # "demo" \/ q.at # "start"
    BY <1>1, <1>3, <1>4, KeptFields DEF DemoHolds
  <1>5. CASE resets > 0
    <2>1. resets' > 0
      BY <1>2, <1>5
    <2>2. QED
      BY <2>1 DEF DemoHolds
  <1>6. CASE p # Free /\ q.kind = "demo" /\ q.at = "start" /\ ~(resets > 0) /\ resets' = resets
    <2>1. PICK t : t = q.task
      OBVIOUS
    <2>2. p.kind = "demo" /\ p.at = "start" /\ p.task = t /\ p.token = q.token
      BY <1>1, <1>6, <2>1, KeptFields
    <2>3. OnItsWay(q) /\ Issued(t, q.token) /\ t \in TaskId /\ t < nextTask
      BY <1>2, <1>6, <2>1 DEF RequestSound, OnItsWay, Granting, Issued
    <2>4. Exists(t)'
      <3>1. resets = 0 /\ NoRowGoes
        BY <1>2, <1>6
      <3>2. Exists(t)
        BY <1>2, <2>3, <3>1 DEF RowsRemain
      <3>3. t < nextTask'
        BY <1>2, <2>3, HandedOut
      <3>4. QED
        BY <2>3, <3>1, <3>2, <3>3 DEF NoRowGoes
    <2>5. \A e \in Event : audit[t][e] <= audit'[t][e]
      BY <1>2, <2>3, <2>4, HandedOut
    <2>6. CASE audit[t]["manual_requeue"] + audit[t]["lease_reclaim"] > 0
      <3>1. /\ audit[t]["manual_requeue"] \in Nat /\ audit[t]["lease_reclaim"] \in Nat
            /\ audit'[t]["manual_requeue"] \in Nat /\ audit'[t]["lease_reclaim"] \in Nat
        <4>1. TypeOK /\ TypeOK'
          BY <1>2, BoardParts, NextType
        <4>2. QED
          BY <2>3, <4>1 DEF TypeOK, Event
      <3>2. /\ audit[t]["manual_requeue"] <= audit'[t]["manual_requeue"]
            /\ audit[t]["lease_reclaim"] <= audit'[t]["lease_reclaim"]
        BY <2>5 DEF Event
      <3>3. audit'[t]["manual_requeue"] + audit'[t]["lease_reclaim"] > 0
        BY <2>6, <3>1, <3>2
      <3>4. QED
        BY <1>1, <2>2, <3>3 DEF DemoHolds
    <2>7. CASE CredentialsMatch(t, DemoWorker, q.token) /\ tasks[t].status = "claimed"
      <3>1. Undisturbed(t)
        BY <1>1, <2>1, <2>3, <2>7 DEF CredentialsMatch, Opens
      <3>2. \/ tasks'[t] = tasks[t]
            \/ audit'[t]["manual_requeue"] + audit'[t]["lease_reclaim"] > 0
        BY <1>2, <2>3, <2>4, <2>7, <3>1, ClaimEnds
      <3>3. CASE tasks'[t] = tasks[t]
        <4>1. CredentialsMatch(t, DemoWorker, q.token)' /\ tasks'[t].status = "claimed"
          BY <2>7, <3>3 DEF CredentialsMatch, Exists
        <4>2. DemoHolds(p)'
          BY <2>2, <4>1 DEF DemoHolds
        <4>3. QED
          BY <1>1, <4>2
      <3>4. CASE audit'[t]["manual_requeue"] + audit'[t]["lease_reclaim"] > 0
        BY <1>1, <2>2, <3>4 DEF DemoHolds
      <3>5. QED
        BY <3>2, <3>3, <3>4
    <2>8. QED
      BY <1>2, <1>6, <2>1, <2>6, <2>7 DEF DemoHolds
  <1>7. CASE resets' = resets + 1
    <2>1. resets' > 0
      BY <1>2, <1>7
    <2>2. QED
      BY <2>1 DEF DemoHolds
  <1>8. QED
    BY <1>3, <1>4, <1>5, <1>6, <1>7

(* A task that others than its holder leave alone is running as it was.    *)
LEMMA StartedKept ==
  ASSUME SessionInv, [BoardStep]_vars, NEW t \in TaskId, Undisturbed(t),
         tasks'[t].status = "running"
  PROVE  /\ tasks[t].status = "running" /\ tasks'[t] = tasks[t]
         /\ ~Known(t) => tasks[t].claim_token \in dropped
  <1>1. BoardInv /\ StartedTasksAreReachable /\ TypeOK
    BY InvParts DEF SessionInv
  <1>2. tasks[t] \in TaskRow
    BY <1>1, BoardParts
  <1>3. ~TaskCreated(t)
    BY DEF TaskCreated, Born, NoTask, Claimed
  <1>4. ~TaskReclaimed(t) /\ ~TaskRequeued(t)
    BY <1>2 DEF TaskReclaimed, TaskRequeued, Released, TaskRow
  <1>5. ~TaskGranted(t)
    BY <1>2 DEF TaskGranted, Claimed, Released, TaskRow
  <1>6. ~TaskWiped(t)
    BY DEF TaskWiped, NoTask
  <1>7. TaskKept(t)
    BY <1>3, <1>4, <1>5, <1>6 DEF Undisturbed
  <1>8. tasks'[t] = tasks[t] /\ tasks[t].status = "running"
    BY <1>7 DEF TaskKept
  <1>9. QED
    BY <1>1, <1>8 DEF StartedTasksAreReachable

LEMMA OffersKept ==
  ASSUME SessionInv, [BoardStep]_vars, UNCHANGED tab, lost' = lost,
         lost = 0 /\ ~Verifying =>
           \A t \in TaskId :
             stored[t] # NULL /\ stored[t] = tasks[t].claim_token /\ offer[t] \in StepSeq
               /\ steps[t][offer[t]] = "running" => Undisturbed(t)
  PROVE  OffersAreNew'
  <1>1. /\ stored' = stored /\ offer' = offer /\ busy' = busy
        /\ BoardInv /\ StoredSound /\ OffersAreNew
    BY DEF tab, SessionInv
  <1>2. ASSUME lost = 0, ~Verifying, NEW t \in TaskId, stored[t] # NULL,
               stored[t] = tasks'[t].claim_token, offer[t] \in StepSeq
        PROVE  steps'[t][offer[t]] = "running"
    <2>1. Issued(t, stored[t])
      BY <1>1, <1>2 DEF StoredSound
    <2>2. tasks[t].claim_token = stored[t]
      BY <1>1, <1>2, <2>1, HandedOut
    <2>3. steps[t][offer[t]] = "running"
      BY <1>1, <1>2, <2>2 DEF OffersAreNew
    <2>4. Undisturbed(t)
      BY <1>2, <2>2, <2>3
    <2>5. steps'[t] = steps[t]
      BY <1>1, <1>2, <2>1, <2>4, RowIsKept
    <2>6. QED
      BY <2>3, <2>5
  <1>3. QED
    BY <1>1, <1>2 DEF OffersAreNew, Verifying

LEMMA OthersUndisputed ==
  ASSUME SessionInv, OthersClaim \/ OthersWork \/ OthersGroup \/ SetBack \/ Reset
  PROVE  Undisputed'
  <1>1. /\ [BoardStep]_vars /\ busy' = busy /\ requests' = requests /\ lost' = lost
        /\ \A t \in TaskId : Undisturbed(t) \/ tasks[t].claim_token \in theirs
        /\ BoardInv /\ BusySound /\ Undisputed
    BY OthersMoves DEF SessionInv, tab
  <1>2. PICK b : b = busy
    OBVIOUS
  <1>3. ASSUME lost = 0, Verifying, CredentialsMatch(b.task, b.worker, b.token)'
        PROVE  /\ Answers("refused") = {}
               /\ \/ /\ steps'[b.task][b.step] = "running"
                     /\ Answers("inserted") = {} /\ Answers("duplicate") = {}
                  \/ /\ logs'[b.task][b.step] # NULL
                     /\ \E r \in Mine : Answers("inserted") = {r}
    <2>1. Issued(b.task, b.token) /\ b.token \notin theirs /\ b.step \in StepSeq
      BY <1>1, <1>2, <1>3 DEF BusySound
    <2>2. tasks'[b.task].claim_token = b.token /\ tasks'[b.task].claimed_by = b.worker
          /\ Exists(b.task)'
      BY <1>3 DEF CredentialsMatch
    <2>3. /\ tasks[b.task].claim_token = b.token /\ tasks[b.task].claimed_by = b.worker
          /\ Exists(b.task)
          /\ logs[b.task][b.step] # NULL => logs'[b.task][b.step] = logs[b.task][b.step]
      BY <1>1, <2>1, <2>2, HandedOut
    <2>4. CredentialsMatch(b.task, b.worker, b.token) /\ b.task \in TaskId
      BY <2>1, <2>3 DEF CredentialsMatch, Issued
    <2>5. Undisturbed(b.task)
      BY <1>1, <2>1, <2>3, <2>4
    <2>6. steps'[b.task] = steps[b.task]
      BY <1>1, <2>1, <2>2, <2>5, RowIsKept
    <2>7. /\ Answers("refused") = {}
          /\ \/ /\ steps[b.task][b.step] = "running"
                /\ Answers("inserted") = {} /\ Answers("duplicate") = {}
             \/ /\ logs[b.task][b.step] # NULL
                /\ \E r \in Mine : Answers("inserted") = {r}
      BY <1>1, <1>2, <1>3, <2>4 DEF Undisputed
    <2>8. QED
      BY <2>3, <2>6, <2>7
  <1>4. Verifying' <=> Verifying
    BY <1>1 DEF Verifying
  <1>5. Mine' = Mine /\ \A a : Answers(a)' = Answers(a)
    BY <1>1 DEF Mine, Answers
  <1>6. QED
    BY <1>1, <1>2, <1>3, <1>4, <1>5 DEF Undisputed

LEMMA OthersStarted ==
  ASSUME SessionInv, OthersClaim \/ OthersWork \/ OthersGroup \/ SetBack \/ Reset
  PROVE  StartedTasksAreReachable'
  <1>1. /\ [BoardStep]_vars /\ stored' = stored /\ requests' = requests /\ dropped' = dropped
        /\ theirs \subseteq theirs'
        /\ \A t \in TaskId : \/ Undisturbed(t)
                             \/ /\ tasks[t].claim_token \in theirs
                                /\ tasks'[t].claim_token = tasks[t].claim_token
    BY OthersMoves DEF tab
  <1>2. ASSUME NEW t \in TaskId, tasks'[t].status = "running", ~Known(t)'
        PROVE  tasks'[t].claim_token \in dropped'
    <2>1. tasks'[t].claim_token \notin theirs
      BY <1>1, <1>2 DEF Known
    <2>2. Undisturbed(t)
      BY <1>1, <2>1
    <2>3. /\ tasks'[t] = tasks[t]
          /\ ~Known(t) => tasks[t].claim_token \in dropped
      BY <1>1, <1>2, <2>2, StartedKept
    <2>4. ~Known(t)
      BY <1>1, <1>2, <2>3 DEF Known
    <2>5. QED
      BY <1>1, <2>3, <2>4
  <1>3. QED
    BY <1>2 DEF StartedTasksAreReachable

LEMMA OthersKeep ==
  ASSUME SessionInv, OthersClaim \/ OthersWork \/ OthersGroup \/ SetBack \/ Reset
  PROVE  SessionInv'
  <1>1. /\ [BoardStep]_vars /\ UNCHANGED tab /\ requests' = requests /\ lost' = lost
        /\ dropped' = dropped
        /\ theirs' \subseteq Token /\ theirs \subseteq theirs'
        /\ \A token \in theirs' : token < nextToken' /\ (token \in theirs \/ token >= nextToken)
        /\ demoGroup' \in GroupId \cup {NULL}
        /\ (NoRowGoes /\ resets' = resets) \/ resets' = resets + 1
        /\ \A t \in TaskId : Undisturbed(t) \/ tasks[t].claim_token \in theirs
    BY OthersMoves
  <1>2. /\ BoardInv /\ SessionTypeOK /\ StoredSound /\ lost \in Nat /\ resets \in Nat
        /\ \A r \in Request : RequestSound(requests[r]) /\ Apart(r)
    BY DEF SessionInv
  <1>3. BoardInv' /\ lost' \in Nat /\ resets' \in Nat
    BY <1>1, <1>2, BoardNext
  <1>4. SessionTypeOK'
    <2>1. TypeOK'
      BY <1>3 DEF BoardInv, StepInv, CredentialInv
    <2>2. QED
      BY <1>1, <1>2, <2>1 DEF SessionTypeOK, tab
  <1>5. ASSUME NEW r \in Request, OnItsWay(requests[r]), Opens(requests[r])
        PROVE  Undisturbed(requests[r].task)
    <2>1. requests[r].task \in TaskId /\ requests[r].token \notin theirs
      BY <1>2, <1>5 DEF RequestSound, Issued, OnItsWay, Apart
    <2>2. QED
      BY <1>1, <1>5, <2>1 DEF Opens
  <1>6. ASSUME NEW r \in Request
        PROVE  /\ RequestSound(requests[r])' /\ Apart(r)' /\ UserAgrees(requests[r])'
               /\ GrantAgrees(requests[r])' /\ DemoHolds(requests[r])'
    <2>1. Kept(r) /\ lost' >= lost /\ TokensStay
      BY <1>1, <1>2, StoredStays DEF Kept, tab
    <2>2. RequestSound(requests[r])'
      BY <1>1, <1>3, <2>1, SoundKept
    <2>3. Apart(r)'
      BY <1>1, <2>1, ApartKept
    <2>4. UserAgrees(requests[r])'
      BY <1>1, <2>1, UserKept
    <2>5. GrantAgrees(requests[r])'
      BY <1>1, <1>5, <2>1, GrantKept
    <2>6. DemoHolds(requests[r])'
      BY <1>1, <1>5, <2>1, DemoKept
    <2>7. QED
      BY <2>2, <2>3, <2>4, <2>5, <2>6
  <1>7. DemoTaskIsNotSnatched'
    BY <1>6 DEF DemoTaskIsNotSnatched, DemoHolds
  <1>8. Mine' = Mine /\ \A a : Answers(a)' = Answers(a)
    BY <1>1 DEF Mine, Answers
  <1>9. StoredSound' /\ BusySound' /\ VerdictSound' /\ PassCertifies' /\ AlarmsHaveACause'
    BY <1>1, <1>8, StoredStays, BoardKeepsTab DEF tab
  <1>10. AnswersTell'
    BY <1>1, <1>8, AnswersKept DEF tab
  <1>11. OffersAreNew'
    <2>1. \A t \in TaskId : stored[t] # NULL /\ stored[t] = tasks[t].claim_token => Undisturbed(t)
      BY <1>1, <1>2 DEF StoredSound
    <2>2. QED
      BY <1>1, <2>1, OffersKept
  <1>12. RowsRemain'
    BY <1>1, RowsKept
  <1>13. QED
    BY <1>3, <1>4, <1>6, <1>7, <1>9, <1>10, <1>11, <1>12, OthersUndisputed, OthersStarted
       DEF SessionInv

-----------------------------------------------------------------------------
(* A step of the server.                                                   *)

LEMMA ServerMine ==
  ASSUME SessionInv, NEW r \in Request, ServerMove(r)
  PROVE  /\ Mine' = Mine /\ requests[r].kind # "free"
         /\ \A x \in Mine :
              /\ requests'[x].kind = requests[x].kind
              /\ requests[x].kind = "report" =>
                   /\ requests'[x].task = requests[x].task /\ requests'[x].step = requests[x].step
                   /\ requests'[x].worker = requests[x].worker
                   /\ requests'[x].token = requests[x].token
  <1>1. PICK q, p : q = requests[r] /\ p = requests'[r]
    OBVIOUS
  <1>2. q \in RequestState /\ q.mine \in BOOLEAN
    <2>1. q \in RequestState
      BY <1>1, InvParts
    <2>2. QED
      BY <2>1 DEF RequestState
  <1>3. \/ /\ p.mine = q.mine /\ p.kind = q.kind
           /\ q.kind = "report" => /\ p.task = q.task /\ p.step = q.step
                                   /\ p.worker = q.worker /\ p.token = q.token
        \/ p = Free /\ ~q.mine
    BY <1>1, <1>2 DEF ServerMove, Given, Proceeds, Replied, SameRequest, Granting
  <1>4. /\ \A x \in Request \ {r} : requests'[x] = requests[x]
        /\ requests[r].kind # "free"
    BY <1>1 DEF ServerMove, Given, Proceeds, Replied, OthersStay, Serves, Granting
  <1>5. p.mine <=> q.mine
    BY <1>3, FreeType, Zenon
  <1>6. Mine' = Mine
    <2>1. \A x \in Request : requests'[x].mine <=> requests[x].mine
      BY <1>1, <1>4, <1>5, Zenon
    <2>2. QED
      BY <2>1 DEF Mine
  <1>7. ASSUME NEW x \in Mine
        PROVE  /\ requests'[x].kind = requests[x].kind
               /\ requests[x].kind = "report" =>
                    /\ requests'[x].task = requests[x].task /\ requests'[x].step = requests[x].step
                    /\ requests'[x].worker = requests[x].worker
                    /\ requests'[x].token = requests[x].token
    <2>1. x \in Request /\ requests[x].mine
      BY DEF Mine
    <2>2. QED
      BY <1>1, <1>3, <1>4, <2>1
  <1>8. QED
    BY <1>4, <1>6, <1>7

(* While the tab verifies, only the answers to its reports come.           *)
LEMMA ServerAnswers ==
  ASSUME SessionInv, NEW r \in Request, ServerMove(r), Verifying
  PROVE  \/ r \notin Mine /\ \A x : Answers(x)' = Answers(x)
         \/ \E a \in {"inserted", "duplicate", "refused"} :
              /\ r \in Mine /\ Replied(r, a) /\ Serves(r, a)
              /\ requests[r].kind = "report" /\ requests[r].at = "sent"
              /\ requests[r].task = busy.task /\ requests[r].step = busy.step
              /\ requests[r].worker = busy.worker /\ requests[r].token = busy.token
              /\ Answers(a)' = Answers(a) \cup {r}
              /\ \A x \in {"inserted", "duplicate", "refused"} \ {a} : Answers(x)' = Answers(x)
  <1>1. /\ Mine' = Mine /\ \A x \in Request \ {r} : requests'[x] = requests[x]
        /\ Mine \subseteq Request
    BY ServerMine, ServerBoard DEF OthersStay, Mine
  <1>2. CASE r \notin Mine
    <2>1. \A x \in Mine : requests'[x] = requests[x]
      BY <1>1, <1>2
    <2>2. \A x : Answers(x)' = Answers(x)
      BY <1>1, <2>1 DEF Answers
    <2>3. QED
      BY <1>2, <2>2
  <1>3. CASE r \in Mine
    <2>1. /\ requests[r].kind = "report" /\ requests[r].mine
          /\ requests[r].task = busy.task /\ requests[r].step = busy.step
          /\ requests[r].worker = busy.worker /\ requests[r].token = busy.token
      BY <1>3 DEF SessionInv, BusySound, Verifying, Mine
    <2>2. PICK a \in Answer : Replied(r, a) /\ Serves(r, a)
      BY <2>1 DEF ServerMove, Given, Proceeds, Granting
    <2>3. a \in {"inserted", "duplicate", "refused"} /\ requests[r].at = "sent"
      BY <2>1, <2>2 DEF Serves
    <2>4. requests'[r].at = a
      BY <2>1, <2>2 DEF Replied
    <2>5. Answers(a)' = Answers(a) \cup {r}
      BY <1>1, <1>3, <2>4 DEF Answers
    <2>6. ASSUME NEW x \in {"inserted", "duplicate", "refused"} \ {a}
          PROVE  Answers(x)' = Answers(x)
      BY <1>1, <1>3, <2>3, <2>4 DEF Answers
    <2>7. QED
      BY <1>3, <2>1, <2>2, <2>3, <2>5, <2>6
  <1>4. QED
    BY <1>2, <1>3

LEMMA AnswersFinite ==
  ASSUME NEW a
  PROVE  Answers(a) \subseteq Request /\ IsFiniteSet(Answers(a)) /\ Cardinality(Answers(a)) \in Nat
  <1>1. Answers(a) \subseteq Request
    BY DEF Answers, Mine
  <1>2. IsFiniteSet(Answers(a))
    BY <1>1, SessionAssumption, FS_Subset
  <1>3. QED
    BY <1>1, <1>2, FS_CardinalityType

LEMMA ServerTells ==
  ASSUME SessionInv, NEW r \in Request, ServerMove(r), UNCHANGED <<tab, theirs, bounds>>
  PROVE  AnswersTell'
  <1>1. PICK b, ins, dup : b = busy /\ ins = Answers("inserted") /\ dup = Answers("duplicate")
    OBVIOUS
  <1>2. /\ [BoardStep]_vars /\ busy' = busy /\ BoardInv /\ AnswersTell
    BY ServerBoard DEF tab, SessionInv
  <1>3. CASE ~Verifying
    BY <1>2, <1>3 DEF AnswersTell, Verifying
  <1>4. CASE Verifying /\ r \notin Mine
    BY <1>2, <1>4, ServerAnswers, AnswersKept
  <1>5. ASSUME Verifying, NEW a \in {"inserted", "duplicate", "refused"},
               Serves(r, a), r \in Mine,
               requests[r].kind = "report" /\ requests[r].at = "sent",
               requests[r].task = b.task /\ requests[r].step = b.step,
               requests[r].worker = b.worker /\ requests[r].token = b.token,
               Answers(a)' = Answers(a) \cup {r},
               \A x \in {"inserted", "duplicate", "refused"} \ {a} : Answers(x)' = Answers(x)
        PROVE  AnswersTell'
    <2>1. b.task \in TaskId /\ b.step \in StepSeq /\ Issued(b.task, b.token)
      BY <1>1, <1>5 DEF SessionInv, BusySound, Issued
    <2>2. TypeOK /\ NULL # "success" /\ Cardinality({}) = 0
      BY <1>2, BoardParts, NullAssumption, FS_EmptySet
    <2>3. Exists(b.task) =>
            /\ ins # {} => logs[b.task][b.step] = "success"
            /\ dup # {} => logs[b.task][b.step] # NULL
            /\ logs[b.task][b.step] = "success" =>
                 Cardinality(dup) <= audit[b.task]["duplicate_report"]
      BY <1>1, <1>2, <1>5 DEF AnswersTell, Verifying
    <2>4. CASE a = "refused"
      BY <1>2, <1>5, <2>4, AnswersKept
    <2>5. CASE a = "inserted"
      <3>1. CompleteStep(b.task, b.step, b.worker, b.token, "success")
        BY <1>5, <2>5 DEF Serves
      <3>2. Exists(b.task) /\ logs[b.task][b.step] = NULL
        BY <3>1 DEF CompleteStep, CredentialsMatch
      <3>3. logs'[b.task][b.step] = "success"
        BY <2>1, <2>2, <3>1 DEF CompleteStep, TypeOK
      <3>4. dup = {} /\ Answers("duplicate")' = dup
        BY <1>1, <1>5, <2>3, <2>5, <3>2
      <3>5. audit'[b.task]["duplicate_report"] \in Nat
        <4>1. TypeOK'
          BY <1>2, <2>2, NextType
        <4>2. QED
          BY <2>1, <4>1 DEF TypeOK, Event
      <3>6. 0 <= audit'[b.task]["duplicate_report"]
        BY <3>5
      <3>7. QED
        BY <1>1, <1>2, <2>2, <3>3, <3>4, <3>6 DEF AnswersTell, Verifying
    <2>6. CASE a = "duplicate"
      <3>1. DuplicateReport(b.task, b.step, b.worker, b.token, "success")
        BY <1>5, <2>6 DEF Serves
      <3>2. /\ Exists(b.task) /\ logs[b.task][b.step] # NULL /\ logs' = logs
        BY <3>1 DEF DuplicateReport, CredentialsMatch
      <3>3. logs[b.task][b.step] = "success" =>
              audit'[b.task]["duplicate_report"] = audit[b.task]["duplicate_report"] + 1
        <4>1. logs[b.task][b.step] = "success" =>
                audit' = RecordOperation(audit, b.task, "duplicate_report")
          BY <3>1 DEF DuplicateReport
        <4>2. "duplicate_report" \in Event
          BY DEF Event
        <4>3. QED
          BY <2>1, <2>2, <4>1, <4>2 DEF RecordOperation, TypeOK
      <3>4. Answers("duplicate")' = dup \cup {r} /\ Answers("inserted")' = ins
        BY <1>1, <1>5, <2>6
      <3>5. Cardinality(dup \cup {r}) <= Cardinality(dup) + 1 /\ Cardinality(dup) \in Nat
            /\ Cardinality(dup \cup {r}) \in Nat
        <4>1. IsFiniteSet(dup) /\ Cardinality(dup) \in Nat
          BY <1>1, AnswersFinite
        <4>2. Cardinality(dup \cup {r}) = IF r \in dup THEN Cardinality(dup)
                                                       ELSE Cardinality(dup) + 1
          BY <4>1, FS_AddElement
        <4>3. QED
          BY <4>1, <4>2
      <3>6. audit[b.task]["duplicate_report"] \in Nat
        BY <2>1, <2>2 DEF TypeOK, Event
      <3>7. logs'[b.task][b.step] = "success" =>
              Cardinality(dup \cup {r}) <= audit'[b.task]["duplicate_report"]
        BY <2>3, <3>2, <3>3, <3>5, <3>6
      <3>8. QED
        BY <1>1, <1>2, <2>3, <3>2, <3>4, <3>7 DEF AnswersTell, Verifying
    <2>7. QED
      BY <1>5, <2>4, <2>5, <2>6
  <1>6. CASE Verifying /\ r \in Mine
    BY <1>1, <1>5, <1>6, ServerAnswers
  <1>7. QED
    BY <1>3, <1>4, <1>6

LEMMA ServerUndisputed ==
  ASSUME SessionInv, NEW r \in Request, ServerMove(r), UNCHANGED <<tab, theirs, bounds>>
  PROVE  Undisputed'
  <1>1. PICK b, ins : b = busy /\ ins = Answers("inserted")
    OBVIOUS
  <1>2. /\ [BoardStep]_vars /\ busy' = busy /\ lost' = lost /\ BoardInv
        /\ Undisputed /\ RequestSound(requests[r]) /\ Mine' = Mine /\ requests[r].kind # "free"
    BY ServerBoard, ServerMine DEF tab, bounds, SessionInv
  <1>3. Verifying' <=> Verifying
    BY <1>2 DEF Verifying
  <1>4. SUFFICES ASSUME lost = 0, Verifying, CredentialsMatch(b.task, b.worker, b.token)'
                 PROVE  /\ Answers("refused")' = {}
                        /\ \/ /\ steps'[b.task][b.step] = "running"
                              /\ Answers("inserted")' = {} /\ Answers("duplicate")' = {}
                           \/ /\ logs'[b.task][b.step] # NULL
                              /\ \E x \in Mine : Answers("inserted")' = {x}
    BY <1>1, <1>2, <1>3 DEF Undisputed
  <1>5. b.task \in TaskId /\ b.step \in StepSeq /\ Issued(b.task, b.token)
    BY <1>1, <1>4 DEF SessionInv, BusySound, Issued
  <1>6. tasks'[b.task].claim_token = b.token /\ tasks'[b.task].claimed_by = b.worker
    BY <1>4 DEF CredentialsMatch
  <1>7. /\ CredentialsMatch(b.task, b.worker, b.token)
        /\ logs[b.task][b.step] # NULL => logs'[b.task][b.step] = logs[b.task][b.step]
    <2>1. /\ tasks[b.task].claim_token = b.token /\ tasks[b.task].claimed_by = b.worker
          /\ Exists(b.task) /\ Exists(b.task)'
      BY <1>2, <1>5, <1>6, HandedOut
    <2>2. QED
      BY <1>2, <1>5, <2>1, HandedOut DEF CredentialsMatch
  <1>8. /\ Answers("refused") = {}
        /\ \/ /\ steps[b.task][b.step] = "running"
              /\ Answers("inserted") = {} /\ Answers("duplicate") = {}
           \/ /\ logs[b.task][b.step] # NULL
              /\ \E x \in Mine : Answers("inserted") = {x}
    BY <1>1, <1>2, <1>4, <1>7 DEF Undisputed
  <1>9. r \in Mine
    <2>1. requests[r].kind # "free" /\ ~requests[r].mine => lost > 0
      BY <1>2 DEF RequestSound
    <2>2. requests[r].mine
      BY <1>2, <1>4, <2>1
    <2>3. QED
      BY <2>2 DEF Mine
  <1>10. PICK a \in {"inserted", "duplicate", "refused"} :
          /\ Serves(r, a)
          /\ requests[r].kind = "report" /\ requests[r].at = "sent"
          /\ requests[r].task = b.task /\ requests[r].step = b.step
          /\ requests[r].worker = b.worker /\ requests[r].token = b.token
          /\ Answers(a)' = Answers(a) \cup {r}
          /\ \A x \in {"inserted", "duplicate", "refused"} \ {a} : Answers(x)' = Answers(x)
    BY <1>1, <1>4, <1>9, ServerAnswers
  <1>11. TypeOK /\ LedgerOf(b.task)
    BY <1>2, <1>5, BoardParts
  <1>12. CASE a = "refused"
    <2>1. ReportRefused(b.task, b.step, b.worker, b.token)
      BY <1>10, <1>12 DEF Serves
    <2>2. QED
      BY <1>7, <1>8, <2>1 DEF ReportRefused
  <1>13. CASE a = "inserted"
    <2>1. CompleteStep(b.task, b.step, b.worker, b.token, "success")
      BY <1>10, <1>13 DEF Serves
    <2>2. logs[b.task][b.step] = NULL
      BY <2>1 DEF CompleteStep
    <2>3. logs'[b.task][b.step] # NULL
      BY <1>5, <1>11, <2>1, NullAssumption DEF CompleteStep, TypeOK
    <2>4. Answers("inserted")' = {r} /\ Answers("refused")' = {}
      BY <1>8, <1>10, <1>13, <2>2
    <2>5. QED
      BY <1>9, <2>3, <2>4
  <1>14. CASE a = "duplicate"
    <2>1. DuplicateReport(b.task, b.step, b.worker, b.token, "success")
      BY <1>10, <1>14 DEF Serves
    <2>2. logs[b.task][b.step] # NULL
      BY <2>1 DEF DuplicateReport
    <2>3. steps[b.task][b.step] # "running"
      <3>1. logs[b.task][b.step] \in {"success", "failure"}
        BY <1>5, <1>11, <2>2 DEF TypeOK, Outcome
      <3>2. QED
        BY <1>5, <1>11, <3>1 DEF LedgerOf
    <2>4. PICK x \in Mine : Answers("inserted") = {x}
      BY <1>8, <2>3
    <2>5. Answers("inserted")' = {x} /\ Answers("refused")' = {}
      BY <1>8, <1>10, <1>14, <2>4
    <2>6. QED
      BY <1>7, <2>2, <2>4, <2>5
  <1>15. QED
    BY <1>12, <1>13, <1>14

LEMMA ServerOffers ==
  ASSUME SessionInv, NEW r \in Request, ServerMove(r), UNCHANGED <<tab, theirs, bounds>>
  PROVE  OffersAreNew'
  <1>1. /\ [BoardStep]_vars /\ UNCHANGED tab /\ lost' = lost /\ BoardInv
        /\ RequestSound(requests[r]) /\ requests[r].kind # "free"
    BY ServerBoard, ServerMine DEF bounds, SessionInv
  <1>2. ASSUME lost = 0, ~Verifying, NEW t \in TaskId, offer[t] \in StepSeq,
               steps[t][offer[t]] = "running", ~Undisturbed(t)
        PROVE  FALSE
    <2>1. t = requests[r].task /\ (Begins(r) \/ Completes(r))
      BY <1>2, ServerBoard
    <2>2. CASE Completes(r)
      <3>1. requests[r].kind = "report" /\ requests[r].mine
        BY <1>1, <1>2, <2>2 DEF Completes, RequestSound
      <3>2. QED
        BY <1>2, <3>1 DEF SessionInv, BusySound, Verifying, Mine
    <2>3. CASE Begins(r)
      <3>1. tasks[t].status = "claimed"
        BY <2>1, <2>3 DEF Begins, StartTask
      <3>2. StepsFollow(t)
        BY <1>1, BoardParts
      <3>3. QED
        BY <1>2, <3>1, <3>2 DEF StepsFollow, SomeStep
    <2>4. QED
      BY <2>1, <2>2, <2>3
  <1>3. QED
    BY <1>1, <1>2, OffersKept

LEMMA ServerStarted ==
  ASSUME SessionInv, NEW r \in Request, ServerMove(r), UNCHANGED <<tab, theirs, bounds>>,
         dropped \subseteq dropped'
  PROVE  StartedTasksAreReachable'
  <1>1. PICK q, p : q = requests[r] /\ p = requests'[r]
    OBVIOUS
  <1>2. /\ [BoardStep]_vars /\ stored' = stored /\ theirs' = theirs /\ lost' = lost
        /\ \A x \in Request \ {r} : requests'[x] = requests[x]
        /\ BoardInv /\ RequestSound(q) /\ UserAgrees(q) /\ GrantAgrees(q) /\ q.kind # "free"
    BY <1>1, ServerBoard, ServerMine DEF tab, bounds, SessionInv, OthersStay
  (* A request that the tab gave up on used a token that the tab has, or    *)
  (* brings one for a task that is running only if it started the demo's.   *)
  <1>3. ASSUME p = Free, ~q.mine, q.token # NULL, Opens(q), q.kind \in Using
        PROVE  stored[q.task] = q.token \/ q.token \in dropped
    BY <1>2, <1>3 DEF UserAgrees
  <1>4. ASSUME NEW t \in TaskId, tasks'[t].status = "running", ~Known(t)', Undisturbed(t)
        PROVE  tasks'[t].claim_token \in dropped'
    <2>1. /\ tasks[t].status = "running" /\ tasks'[t] = tasks[t]
          /\ ~Known(t) => tasks[t].claim_token \in dropped
      BY <1>2, <1>4, StartedKept
    <2>2. ASSUME Known(t), tasks[t].claim_token \notin dropped PROVE FALSE
      <3>1. PICK token : token = tasks[t].claim_token
        OBVIOUS
      <3>2. /\ stored[t] # token /\ token \notin theirs
            /\ \A x \in Request : ~(requests'[x].task = t /\ requests'[x].token = token)
        BY <1>2, <1>4, <2>1, <3>1 DEF Known
      <3>3. PICK x \in Request : requests[x].task = t /\ requests[x].token = token
        BY <2>2, <3>1, <3>2 DEF Known
      <3>4. x = r /\ q.task = t /\ q.token = token
        BY <1>1, <1>2, <3>2, <3>3
      <3>5. token # NULL
        <4>1. ColumnsAgree(tasks[t])
          BY <1>2 DEF BoardInv, StepInv, CredentialInv, ClaimColumnsAgree
        <4>2. QED
          BY <2>1, <3>1, <4>1 DEF ColumnsAgree
      <3>6. Opens(q)
        BY <3>1, <3>4 DEF Opens
      <3>7. PICK a \in Answer : Serves(r, a) /\ ~SameRequest(q, p)
        BY <1>1, <3>2, <3>4, <3>5 DEF ServerMove, Given, Proceeds, Replied, SameRequest
      <3>8. q.kind \notin Using
        BY <1>2, <2>2, <3>1, <3>2, <3>4, <3>6 DEF UserAgrees
      <3>9. q.kind \in Granting /\ q.at # "ok"
        BY <1>1, <3>4, <3>5, <3>7, <3>8 DEF Serves, Using, Granting
      <3>10. tasks[t].status = "claimed"
        BY <1>2, <3>4, <3>5, <3>6, <3>9 DEF GrantAgrees, OnItsWay
      <3>11. QED
        BY <2>1, <3>10
    <2>3. QED
      BY <1>2, <2>1, <2>2
  <1>5. ASSUME NEW t \in TaskId, tasks'[t].status = "running", ~Known(t)', ~Undisturbed(t)
        PROVE  tasks'[t].claim_token \in dropped'
    <2>1. /\ t = q.task /\ (Begins(r) \/ Completes(r)) /\ Issued(t, q.token)
          /\ CredentialsMatch(t, q.worker, q.token) /\ tasks'[t].claim_token = q.token
      BY <1>1, <1>5, ServerBoard
    <2>2. /\ q.kind \in {"start", "report", "demo"}
          /\ q.mine => SameRequest(q, p)
      BY <1>1, <2>1 DEF Begins, Completes, Replied
    <2>3. Opens(q) /\ q.token # NULL
      BY <2>1, TokenTypes DEF Opens, CredentialsMatch, Issued
    <2>4. ~(p.task = t /\ p.token = q.token) /\ stored[t] # q.token
      BY <1>1, <1>2, <1>5, <2>1 DEF Known
    <2>5. ~q.mine
      BY <2>1, <2>2, <2>4 DEF SameRequest
    <2>6. q.kind = "demo" \/ q.token \in dropped
      BY <1>2, <2>1, <2>2, <2>3, <2>4 DEF UserAgrees, Using
    <2>7. CASE q.kind = "demo"
      BY <1>1, <2>1, <2>5, <2>7 DEF Begins, Completes
    <2>8. QED
      BY <1>2, <2>1, <2>6, <2>7
  <1>6. QED
    BY <1>4, <1>5 DEF StartedTasksAreReachable

LEMMA ServerDemo ==
  ASSUME SessionInv, NEW r \in Request, ServerMove(r), UNCHANGED <<tab, theirs, bounds>>,
         NEW p \in Request
  PROVE  DemoHolds(requests[p])'
  <1>1. /\ [BoardStep]_vars /\ NoRowGoes /\ resets' = resets
        /\ \A x \in Request \ {r} : requests'[x] = requests[x]
        /\ \A t \in TaskId : \/ Undisturbed(t)
                             \/ CredentialsMatch(t, requests[r].worker, requests[r].token)
        /\ RequestSound(requests[p]) /\ Apart(p)
    BY ServerBoard DEF bounds, SessionInv, OthersStay
  <1>2. CASE p # r
    <2>1. Kept(p)
      BY <1>1, <1>2 DEF Kept
    <2>2. ASSUME OnItsWay(requests[p]), Opens(requests[p])
          PROVE  Undisturbed(requests[p].task)
      <3>1. requests[p].task \in TaskId
        BY <1>1, <2>2 DEF RequestSound, Issued, OnItsWay
      <3>2. requests[r].token # requests[p].token
        BY <1>1, <1>2, <2>2 DEF Apart
      <3>3. ~CredentialsMatch(requests[p].task, requests[r].worker, requests[r].token)
        BY <2>2, <3>2 DEF Opens, CredentialsMatch
      <3>4. QED
        BY <1>1, <3>1, <3>3
    <2>3. QED
      BY <1>1, <2>1, <2>2, DemoKept
  <1>3. CASE p = r
    <2>1. PICK q : q = requests'[r]
      OBVIOUS
    <2>2. CASE Given(r)
      <3>1. q.kind = "demo" => /\ tasks'[q.task].claim_token = q.token
                               /\ tasks'[q.task].status = "claimed"
                               /\ tasks'[q.task].claimed_by = DemoWorker
        BY <2>1, <2>2 DEF Given
      <3>2. QED
        BY <1>3, <2>1, <3>1 DEF DemoHolds, CredentialsMatch, Exists
    <2>3. CASE ~Given(r)
      <3>1. q.kind = "free" \/ q.at # "start"
        BY <2>1, <2>3, FreeType DEF ServerMove, Proceeds, Replied, Early, Answer
      <3>2. QED
        BY <1>3, <2>1, <3>1 DEF DemoHolds
    <2>4. QED
      BY <2>2, <2>3
  <1>4. QED
    BY <1>2, <1>3

LEMMA ServerKeeps ==
  ASSUME SessionInv, Server
  PROVE  SessionInv'
  <1>1. PICK r \in Request : ServerMove(r)
    BY ServerMoves
  <1>2. /\ UNCHANGED <<tab, theirs, bounds>>
        /\ dropped \subseteq dropped' /\ dropped' \subseteq Token /\ TokensStay
    BY ServerMoves, StoredStays DEF tab
  <1>3. /\ [BoardStep]_vars /\ NoRowGoes /\ requests' \in [Request -> RequestState]
    BY <1>1, ServerBoard DEF OthersStay
  <1>4. /\ BoardInv /\ SessionTypeOK /\ StoredSound /\ lost \in Nat /\ resets \in Nat
        /\ lost' = lost /\ resets' = resets /\ theirs' = theirs
    BY <1>2 DEF SessionInv, bounds
  <1>5. BoardInv' /\ lost' \in Nat /\ resets' \in Nat
    BY <1>3, <1>4, BoardNext
  <1>6. SessionTypeOK'
    <2>1. TypeOK'
      BY <1>5 DEF BoardInv, StepInv, CredentialInv
    <2>2. demoGroup' \in GroupId \cup {NULL}
      <3>1. CASE demoGroup' = demoGroup
        BY <1>4, <3>1 DEF SessionTypeOK
      <3>2. CASE demoGroup' # demoGroup
        <4>1. demoGroup' = nextGroup /\ \E params \in Overrides : CreateGroup(params)
          BY <3>2 DEF Server, ServeClaim, ServeStart, ServeReport, ServeDemo, SeedGroup,
             SeedTasks, SeedStart, SeedFails
        <4>2. nextGroup \in 1..MaxGroup + 1 /\ nextGroup <= MaxGroup /\ MaxGroup \in Nat
          BY <1>4, <4>1, BoundsAssumption DEF SessionTypeOK, TypeOK, CreateGroup
        <4>3. nextGroup \in GroupId
          BY <4>2 DEF GroupId
        <4>4. QED
          BY <4>1, <4>3
      <3>3. QED
        BY <3>1, <3>2
    <2>3. QED
      BY <1>2, <1>3, <1>4, <2>1, <2>2 DEF SessionTypeOK, tab
  <1>7. \A p \in Request :
          /\ RequestSound(requests[p])' /\ Apart(p)' /\ UserAgrees(requests[p])'
          /\ GrantAgrees(requests[p])'
    BY <1>1, <1>2, ServerRequests
  <1>8. DemoTaskIsNotSnatched'
    <2>1. \A p \in Request : DemoHolds(requests[p])'
      BY <1>1, <1>2, ServerDemo
    <2>2. QED
      BY <2>1 DEF DemoTaskIsNotSnatched, DemoHolds
  <1>9. StoredSound' /\ BusySound' /\ VerdictSound' /\ PassCertifies' /\ AlarmsHaveACause'
    <2>1. \A token \in theirs' : token < nextToken' /\ (token \in theirs \/ token >= nextToken)
      <3>1. \A token \in theirs : token \in Nat /\ token < nextToken
        BY TokensIssued
      <3>2. nextToken \in Nat /\ nextToken' \in {nextToken, nextToken + 1}
        BY <1>3, <1>4, BoardParts, Counters
      <3>3. QED
        BY <1>4, <3>1, <3>2
    <2>2. UNCHANGED tab /\ lost' = lost
      BY <1>2, <1>4
    <2>3. /\ Mine' = Mine
          /\ \A x \in Mine :
               /\ requests'[x].kind = requests[x].kind
               /\ requests[x].kind = "report" =>
                    /\ requests'[x].task = requests[x].task /\ requests'[x].step = requests[x].step
                    /\ requests'[x].worker = requests[x].worker
                    /\ requests'[x].token = requests[x].token
      BY <1>1, ServerMine
    <2>4. QED
      BY <1>2, <1>3, <2>1, <2>2, <2>3, BoardKeepsTab
  <1>10. AnswersTell' /\ OffersAreNew' /\ Undisputed' /\ StartedTasksAreReachable'
    BY <1>1, <1>2, ServerTells, ServerOffers, ServerUndisputed, ServerStarted
  <1>11. RowsRemain'
    BY <1>3, <1>4, RowsKept
  <1>12. QED
    BY <1>5, <1>6, <1>7, <1>8, <1>9, <1>10, <1>11 DEF SessionInv

-----------------------------------------------------------------------------
(* The tab's own steps leave the board alone.                              *)

LEMMA TabBoard ==
  ASSUME SessionInv, UNCHANGED vars
  PROVE  /\ [BoardStep]_vars /\ NoRowGoes /\ BoardInv' /\ TypeOK'
         /\ \A t \in TaskId : Undisturbed(t)
         /\ nextToken' = nextToken /\ nextTask' = nextTask
         /\ \A token \in theirs : token < nextToken'
  <1>1. BoardInv /\ Quiet
    BY DEF SessionInv, Quiet
  <1>2. [BoardStep]_vars /\ NoRowGoes /\ \A t \in TaskId : Undisturbed(t)
    BY <1>1, QuietTasks
  <1>3. BoardInv'
    BY <1>1, <1>2, BoardNext
  <1>4. nextToken' = nextToken /\ nextTask' = nextTask
    BY DEF vars
  <1>5. QED
    BY <1>2, <1>3, <1>4, TokensIssued DEF BoardInv, StepInv, CredentialInv

(* The requests when the tab drops some and stops to wait for others.      *)
LEMMA RequestsLeft ==
  ASSUME SessionInv, UNCHANGED <<vars, theirs, resets>>, lost' \in Nat, lost' >= lost,
         NEW r \in Request, requests'[r] = Free \/ Kept(r)
  PROVE  /\ RequestSound(requests[r])' /\ GrantAgrees(requests[r])' /\ DemoHolds(requests[r])'
         /\ TokensStay => UserAgrees(requests[r])'
  <1>1. [BoardStep]_vars /\ NoRowGoes /\ resets' = resets
    BY TabBoard
  <1>2. OnItsWay(requests[r]) => Undisturbed(requests[r].task)
    <2>1. RequestSound(requests[r])
      BY DEF SessionInv
    <2>2. OnItsWay(requests[r]) => requests[r].task \in TaskId
      BY <2>1 DEF RequestSound, Issued, OnItsWay
    <2>3. QED
      BY <2>2, TabBoard
  <1>3. DemoHolds(requests[r])'
    BY <1>1, <1>2, DemoKept
  <1>4. CASE requests'[r] = Free
    BY <1>3, <1>4, FreedSound
  <1>5. CASE Kept(r)
    <2>1. RequestSound(requests[r])' /\ GrantAgrees(requests[r])'
      BY <1>1, <1>2, <1>5, SoundKept, GrantKept
    <2>2. ASSUME TokensStay PROVE UserAgrees(requests[r])'
      <3>1. /\ requests'[r].kind = requests[r].kind /\ requests'[r].task = requests[r].task
            /\ requests'[r].token = requests[r].token
        BY <1>5, KeptFields
      <3>2. QED
        BY <1>1, <2>2, <3>1, UserKept
    <2>3. QED
      BY <1>3, <2>1, <2>2
  <1>6. QED
    BY <1>4, <1>5

LEMMA ApartLeft ==
  ASSUME SessionInv, theirs' = theirs, TokensStay, NEW r \in Request,
         \A p \in Request : requests'[p] = Free \/ Kept(p)
  PROVE  Apart(r)'
  <1>1. \A p \in Request : \/ requests'[p] = Free
                           \/ /\ requests'[p].kind = requests[p].kind
                              /\ requests'[p].token = requests[p].token
                              /\ requests'[p].mine => requests[p].mine
    BY KeptFields
  <1>2. QED
    BY <1>1, ApartKept

(* Who has the token of a running task, besides the tab and the others: a  *)
(* request that brings it is the demo's.                                   *)
LEMMA DroppedAnswer ==
  ASSUME SessionInv, NEW t \in TaskId, tasks[t].status = "running", NEW r \in Request,
         requests[r].task = t, requests[r].token = tasks[t].claim_token
  PROVE  \/ stored[t] = tasks[t].claim_token \/ tasks[t].claim_token \in dropped
         \/ requests[r].kind = "demo" /\ requests[r].at = "ok"
  <1>1. PICK q : q = requests[r]
    OBVIOUS
  <1>2. RequestSound(q) /\ UserAgrees(q) /\ GrantAgrees(q) /\ ColumnsAgree(tasks[t])
        /\ q \in RequestState
    BY <1>1, InvParts DEF SessionInv, BoardInv, StepInv, CredentialInv, ClaimColumnsAgree
  <1>3. q.token # NULL /\ Opens(q) /\ q.task = t
    BY <1>1, <1>2 DEF ColumnsAgree, Opens
  <1>4. q.kind # "free"
    BY <1>2, <1>3, FreeType DEF RequestSound
  <1>5. q.kind \in {"claim", "demo", "start", "report"}
    BY <1>2, <1>4 DEF RequestState
  <1>6. CASE q.kind \in Using
    BY <1>1, <1>2, <1>3, <1>6 DEF UserAgrees
  <1>7. CASE q.kind \in Granting
    <2>1. OnItsWay(q)
      BY <1>3, <1>7 DEF OnItsWay
    <2>2. q.kind = "demo" /\ q.at = "ok"
      BY <1>2, <1>3, <2>1 DEF GrantAgrees
    <2>3. QED
      BY <1>1, <2>2
  <1>8. QED
    BY <1>5, <1>6, <1>7 DEF Using, Granting

LEMMA LoadedFits ==
  ASSUME BoardInv
  PROVE  /\ Loaded \in [TaskId -> StepSeq \cup {0, NULL}]
         /\ \A t \in TaskId : Loaded[t] \in StepSeq => steps[t][Loaded[t]] = "running"
  <1>1. 0 \notin StepSeq /\ NULL \notin StepSeq
    BY NullAssumption, BoundsAssumption DEF StepSeq
  <1>2. ASSUME NEW t \in TaskId
        PROVE  /\ OfferOf(t) \in StepSeq \cup {0, NULL}
               /\ OfferOf(t) \in StepSeq => steps[t][OfferOf(t)] = "running"
    <2>1. tasks[t].status = "running" => \E s \in StepSeq : steps[t][s] = "running"
      BY BoardParts DEF StepsFollow, SomeStep
    <2>2. CASE tasks[t].status = "running"
      <3>1. OfferOf(t) = CHOOSE s \in StepSeq : steps[t][s] = "running"
        BY <2>2 DEF OfferOf
      <3>2. OfferOf(t) \in StepSeq /\ steps[t][OfferOf(t)] = "running"
        BY <2>1, <2>2, <3>1
      <3>3. QED
        BY <3>2
    <2>3. CASE tasks[t].status # "running"
      <3>1. OfferOf(t) \in {0, NULL}
        BY <2>3 DEF OfferOf
      <3>2. QED
        BY <1>1, <3>1
    <2>4. QED
      BY <2>2, <2>3
  <1>3. QED
    BY <1>2 DEF Loaded

LEMMA OffersLoaded ==
  ASSUME SessionInv, UNCHANGED vars, offer' = Loaded \/ lost' > 0
  PROVE  OffersAreNew'
  <1>1. steps' = steps /\ \A t \in TaskId : Loaded[t] \in StepSeq => steps[t][Loaded[t]] = "running"
    BY LoadedFits DEF SessionInv, vars
  <1>2. CASE lost' > 0
    <2>1. lost' # 0
      BY <1>2
    <2>2. QED
      BY <2>1 DEF OffersAreNew
  <1>3. CASE offer' = Loaded
    BY <1>1, <1>3 DEF OffersAreNew
  <1>4. QED
    BY <1>2, <1>3

LEMMA TabKeeps ==
  ASSUME SessionInv, UNCHANGED <<vars, demoGroup, theirs, resets>>, lost' \in Nat, lost' >= lost,
         requests' \in [Request -> RequestState],
         \A p \in Request : requests'[p] = Free \/ Kept(p),
         workerId' \in Workers, dropped' \subseteq Token, stored' \in [TaskId -> Token \cup {NULL}],
         offer' \in [TaskId -> StepSeq \cup {0, NULL}], busy' \in RequestState \cup {NULL}
  PROVE  /\ BoardInv' /\ SessionTypeOK' /\ lost' \in Nat /\ resets' \in Nat /\ RowsRemain'
         /\ \A r \in Request : RequestSound(requests[r])' /\ GrantAgrees(requests[r])'
         /\ DemoTaskIsNotSnatched'
         /\ TokensStay =>
              /\ StoredSound'
              /\ \A r \in Request : Apart(r)' /\ UserAgrees(requests[r])'
  <1>1. [BoardStep]_vars /\ NoRowGoes /\ BoardInv' /\ TypeOK'
        /\ \A token \in theirs : token < nextToken'
    BY TabBoard
  <1>2. SessionTypeOK /\ resets \in Nat
    BY DEF SessionInv
  <1>3. SessionTypeOK' /\ resets' \in Nat
    BY <1>1, <1>2 DEF SessionTypeOK
  <1>4. RowsRemain'
    BY <1>1, RowsKept
  <1>5. \A r \in Request : /\ RequestSound(requests[r])' /\ GrantAgrees(requests[r])'
                           /\ DemoHolds(requests[r])'
                           /\ TokensStay => UserAgrees(requests[r])'
    BY RequestsLeft
  <1>6. DemoTaskIsNotSnatched'
    BY <1>5 DEF DemoTaskIsNotSnatched, DemoHolds
  <1>7. ASSUME TokensStay
        PROVE  StoredSound' /\ \A r \in Request : Apart(r)'
    <2>1. StoredSound'
      BY <1>1, <1>7, StoredKept
    <2>2. \A r \in Request : Apart(r)'
      BY <1>7, ApartLeft
    <2>3. QED
      BY <2>1, <2>2
  <1>8. QED
    BY <1>1, <1>3, <1>4, <1>5, <1>6, <1>7

LEMMA StartedLeft ==
  ASSUME SessionInv, UNCHANGED vars, dropped \subseteq dropped',
         \A t \in TaskId : tasks[t].status = "running" /\ Known(t)
           => Known(t)' \/ tasks[t].claim_token \in dropped'
  PROVE  StartedTasksAreReachable'
  <1>1. StartedTasksAreReachable /\ tasks' = tasks
    BY DEF SessionInv, vars
  <1>2. QED
    BY <1>1 DEF StartedTasksAreReachable

LEMMA TabIsFree ==
  ASSUME busy' = NULL, Mine' = {}
  PROVE  BusySound' /\ AnswersTell' /\ Undisputed'
  <1>1. ~Verifying'
    BY DEF Verifying
  <1>2. QED
    BY <1>1 DEF BusySound, AnswersTell, Undisputed

LEMMA OverFrees ==
  ASSUME SessionInv, Over
  PROVE  /\ requests' \in [Request -> RequestState] /\ busy' = NULL
         /\ Mine' = {}
         /\ \A p \in Request : /\ requests'[p] = Free \/ Kept(p)
                               /\ requests'[p] = IF p \in Mine THEN Free ELSE requests[p]
  <1>1. /\ \A p \in Request : requests'[p] = IF p \in Mine THEN Free ELSE requests[p]
        /\ \A p \in Request : requests[p] \in RequestState
        /\ DOMAIN requests' = Request /\ busy' = NULL
        /\ requests' = [r \in Request |-> IF r \in Mine THEN Free ELSE requests[r]]
    BY InvParts DEF Over
  <1>2. requests' \in [Request -> RequestState]
    BY <1>1, FreeType
  <1>3. \A p \in Request : ~requests'[p].mine
    BY <1>1, FreeType DEF Mine
  <1>4. Mine' = {}
    BY <1>3 DEF Mine
  <1>5. QED
    BY <1>1, <1>2, <1>4 DEF Kept

LEMMA AbandonedLeaves ==
  ASSUME SessionInv, NEW S \in SUBSET Mine, requests' = Abandoned(S), lost' > 0
  PROVE  /\ requests' \in [Request -> RequestState]
         /\ \A p \in Request : requests'[p] = Free \/ Kept(p)
         /\ \A p \in S : ~requests'[p].mine
         /\ \A p \in Request \ S : requests'[p] = requests[p]
  <1>1. \A p \in Request : requests'[p] = IF p \notin S THEN requests[p]
                                          ELSE IF requests[p].at \in Answer THEN Free
                                          ELSE [requests[p] EXCEPT !.mine = FALSE]
    BY DEF Abandoned
  <1>2. ASSUME NEW q \in RequestState
        PROVE  LET p == [q EXCEPT !.mine = FALSE]
               IN  /\ p \in RequestState /\ ~p.mine
                   /\ p.kind = q.kind /\ p.at = q.at /\ p.worker = q.worker /\ p.task = q.task
                   /\ p.step = q.step /\ p.token = q.token /\ p.group = q.group
    BY DEF RequestState
  <1>3. \A p \in S : p \in Request /\ requests[p].mine
    BY DEF Mine
  <1>4. \A p \in Request : requests[p] \in RequestState
    BY InvParts
  <1>5. ASSUME NEW p \in S
        PROVE  /\ requests'[p] \in RequestState /\ ~requests'[p].mine
               /\ requests'[p] = Free \/ Kept(p)
    <2>1. CASE requests[p].at \in Answer
      BY <1>1, <1>3, <2>1, FreeType
    <2>2. CASE requests[p].at \notin Answer
      <3>1. requests'[p] = [requests[p] EXCEPT !.mine = FALSE]
        BY <1>1, <1>3, <2>2
      <3>2. QED
        BY <1>2, <1>3, <1>4, <3>1 DEF Kept
    <2>3. QED
      BY <2>1, <2>2
  <1>6. ASSUME NEW p \in Request \ S PROVE requests'[p] = requests[p] /\ Kept(p)
    BY <1>1 DEF Kept
  <1>7. requests' \in [Request -> RequestState]
    <2>1. \A p \in Request : requests'[p] \in RequestState
      BY <1>4, <1>5, <1>6
    <2>2. requests' = [p \in Request |-> requests'[p]]
      BY DEF Abandoned
    <2>3. QED
      BY <2>1, <2>2
  <1>8. QED
    BY <1>5, <1>6, <1>7

LEMMA OnlyOffersChange ==
  ASSUME SessionInv, OffersAreNew', offer' \in [TaskId -> StepSeq \cup {0, NULL}],
         UNCHANGED <<vars, workerId, stored, busy, verdict, requests, demoGroup, theirs, dropped, bounds>>
  PROVE  SessionInv'
  <1>1. /\ UNCHANGED <<vars, demoGroup, theirs, resets>> /\ lost' = lost /\ requests' = requests
        /\ dropped' = dropped
        /\ workerId' = workerId /\ stored' = stored /\ busy' = busy /\ verdict' = verdict
    BY DEF bounds
  <1>2. /\ lost \in Nat /\ SessionTypeOK /\ BoardInv /\ Undisputed
    BY DEF SessionInv
  <1>3. \A p \in Request : Kept(p)
    BY <1>1 DEF Kept
  <1>4. [BoardStep]_vars /\ \A token \in theirs : token < nextToken'
    BY <1>1, TabBoard
  <1>5. Mine' = Mine /\ \A a : Answers(a)' = Answers(a)
    BY <1>1 DEF Mine, Answers
  <1>6. lost' \in Nat /\ lost' >= lost
    BY <1>1, <1>2
  <1>7. /\ BoardInv' /\ SessionTypeOK' /\ lost' \in Nat /\ resets' \in Nat /\ RowsRemain'
        /\ \A r \in Request : /\ RequestSound(requests[r])' /\ GrantAgrees(requests[r])'
                              /\ Apart(r)' /\ UserAgrees(requests[r])'
        /\ DemoTaskIsNotSnatched' /\ StoredSound'
    <2>1. /\ requests' \in [Request -> RequestState] /\ workerId' \in Workers
          /\ stored' \in [TaskId -> Token \cup {NULL}] /\ busy' \in RequestState \cup {NULL}
          /\ dropped' \subseteq Token /\ TokensStay
      BY <1>1, <1>2, StoredStays DEF SessionTypeOK
    <2>2. QED
      BY <1>1, <1>3, <1>6, <2>1, TabKeeps
  <1>8. VerdictSound' /\ PassCertifies' /\ AlarmsHaveACause'
    BY <1>1, <1>4, <1>6, VerdictKept
  <1>9. BusySound'
    <2>1. BusySound /\ nextTask' = nextTask /\ nextToken' = nextToken
      BY <1>1 DEF SessionInv, vars
    <2>2. (\A t, token : Issued(t, token)' <=> Issued(t, token)) /\ (Verifying' <=> Verifying)
      BY <1>1, <2>1 DEF Issued, Verifying
    <2>3. PICK b : b = busy
      OBVIOUS
    <2>4. Issued(b.task, b.token)' <=> Issued(b.task, b.token)
      BY <2>2
    <2>5. QED
      BY <1>1, <1>5, <2>1, <2>2, <2>3, <2>4 DEF BusySound
  <1>10. AnswersTell'
    BY <1>1, <1>4, <1>5, AnswersKept
  <1>11. Undisputed'
    <2>1. tasks' = tasks /\ steps' = steps /\ logs' = logs
      BY <1>1 DEF vars
    <2>2. QED
      BY <1>1, <1>2, <1>5, <2>1 DEF Undisputed, Verifying, CredentialsMatch, Exists
  <1>12. StartedTasksAreReachable'
    <2>1. \A t \in TaskId : Known(t) => Known(t)'
      BY <1>1 DEF Known, vars
    <2>2. QED
      BY <1>1, <1>6, <2>1, StartedLeft
  <1>13. QED
    BY <1>7, <1>8, <1>9, <1>10, <1>11, <1>12 DEF SessionInv

LEMMA PollKeeps ==
  ASSUME SessionInv, Poll
  PROVE  SessionInv'
  <1>1. /\ UNCHANGED <<vars, workerId, stored, busy, verdict, requests, demoGroup, theirs, dropped, bounds>>
        /\ offer' = Loaded /\ UNCHANGED vars
    BY DEF Poll
  <1>2. offer' \in [TaskId -> StepSeq \cup {0, NULL}]
    BY <1>1, LoadedFits DEF SessionInv
  <1>3. OffersAreNew'
    BY <1>1, OffersLoaded
  <1>4. QED
    BY <1>1, <1>2, <1>3, OnlyOffersChange

(* Nothing lost and the task still the tab's, the verification passes.     *)
LEMMA NothingLostPasses ==
  ASSUME SessionInv, Verifying, lost = 0, CredentialsMatch(busy.task, busy.worker, busy.token),
         \A r \in Mine : requests[r].at \in Answer
  PROVE  Passed(busy.task, busy.step)
  <1>1. /\ \A r \in Mine : requests[r].kind = "report" /\ RequestSound(requests[r])
        /\ Cardinality(Mine) = Reports /\ Undisputed
    BY DEF SessionInv, BusySound, Verifying, Mine
  <1>2. IsFiniteSet(Mine) /\ Reports \in Nat \ {0}
    <2>1. Mine \subseteq Request
      BY DEF Mine
    <2>2. QED
      BY <2>1, SessionAssumption, FS_Subset
  <1>3. \A r \in Mine : requests[r].at \in {"inserted", "duplicate", "refused"}
    BY <1>1 DEF RequestSound, Answer
  <1>4. /\ Answers("refused") = {}
        /\ \/ Answers("inserted") = {} /\ Answers("duplicate") = {}
           \/ /\ logs[busy.task][busy.step] # NULL
              /\ \E r \in Mine : Answers("inserted") = {r}
    BY <1>1 DEF Undisputed
  <1>5. Mine = Answers("inserted") \cup Answers("duplicate")
    BY <1>3, <1>4 DEF Answers
  <1>6. Mine # {}
    BY <1>1, <1>2, FS_EmptySet
  <1>7. PICK r \in Mine : Answers("inserted") = {r}
    BY <1>4, <1>5, <1>6
  <1>8. r \notin Answers("duplicate") /\ logs[busy.task][busy.step] # NULL
    BY <1>4, <1>5, <1>6, <1>7 DEF Answers
  <1>9. Answers("duplicate") = Mine \ {r}
    BY <1>5, <1>7, <1>8
  <1>10. Cardinality(Mine \ {r}) = Cardinality(Mine) - 1
    BY <1>2, FS_RemoveElement
  <1>11. Cardinality({r}) = 1
    BY FS_Singleton
  <1>12. QED
    BY <1>1, <1>7, <1>8, <1>9, <1>10, <1>11 DEF Passed

LEMMA PassedTells ==
  ASSUME SessionInv, Verifying, Passed(busy.task, busy.step), Exists(busy.task)
  PROVE  /\ logs[busy.task][busy.step] = "success"
         /\ audit[busy.task]["step_report"] >= 1
         /\ audit[busy.task]["duplicate_report"] >= Reports - 1
  <1>1. PICK t, s : t = busy.task /\ s = busy.step
    OBVIOUS
  <1>2. t \in TaskId /\ s \in StepSeq /\ BoardInv
    BY <1>1 DEF SessionInv, BusySound, Issued
  <1>3. /\ Cardinality(Answers("inserted")) = 1
        /\ Cardinality(Answers("duplicate")) = Reports - 1 /\ logs[t][s] # NULL
    BY <1>1 DEF Passed
  <1>4. Answers("inserted") # {}
    BY <1>3, FS_EmptySet
  <1>5. /\ logs[t][s] = "success"
        /\ Cardinality(Answers("duplicate")) <= audit[t]["duplicate_report"]
    BY <1>1, <1>4 DEF SessionInv, AnswersTell
  <1>6. TypeOK /\ audit[t]["duplicate_report"] \in Nat /\ Reports \in Int
    <2>1. TypeOK
      BY <1>2, BoardParts
    <2>2. QED
      BY <1>2, <2>1, SessionAssumption DEF TypeOK, Event
  <1>7. audit[t]["step_report"] = Cardinality({x \in StepSeq : logs[t][x] # NULL})
    BY <1>2 DEF BoardInv, AuditBalances, BalanceOf
  <1>8. Cardinality({x \in StepSeq : logs[t][x] # NULL}) >= 1
    <2> DEFINE S == {x \in StepSeq : logs[t][x] # NULL}
    <2>1. IsFiniteSet(S)
      <3>1. IsFiniteSet(StepSeq)
        BY BoundsAssumption, FS_Interval DEF StepSeq
      <3>2. QED
        BY <3>1, FS_Subset
    <2>2. s \in S
      BY <1>2, <1>3
    <2>3. Cardinality(S) \in Nat /\ Cardinality(S) # 0
      BY <2>1, <2>2, FS_CardinalityType, FS_EmptySet
    <2>4. QED
      BY <2>3
  <1>9. QED
    BY <1>1, <1>3, <1>5, <1>6, <1>7, <1>8

LEMMA JudgeKeeps ==
  ASSUME SessionInv, Judge
  PROVE  SessionInv'
  <1>1. /\ UNCHANGED <<vars, demoGroup, theirs, resets>> /\ workerId' = workerId
        /\ stored' = stored /\ dropped' = dropped /\ Over /\ Verifying /\ LoadAfter
        /\ \A r \in Mine : requests[r].at \in Answer
    BY DEF Judge, Verifying
  <1>2. /\ lost \in Nat /\ SessionTypeOK /\ BoardInv /\ BusySound
    BY DEF SessionInv
  <1>3. lost' \in Nat /\ lost' >= lost /\ ((lost' = lost /\ offer' = Loaded) \/ lost' > 0)
        /\ offer' \in [TaskId -> StepSeq \cup {0, NULL}]
    BY <1>1, <1>2, LoadedFits DEF LoadAfter, SessionTypeOK
  <1>4. /\ requests' \in [Request -> RequestState] /\ busy' = NULL /\ Mine' = {}
        /\ \A p \in Request : /\ requests'[p] = Free \/ Kept(p)
                              /\ requests'[p] = IF p \in Mine THEN Free ELSE requests[p]
    BY <1>1, OverFrees
  <1>5. /\ BoardInv' /\ SessionTypeOK' /\ lost' \in Nat /\ resets' \in Nat /\ RowsRemain'
        /\ \A r \in Request : /\ RequestSound(requests[r])' /\ GrantAgrees(requests[r])'
                              /\ Apart(r)' /\ UserAgrees(requests[r])'
        /\ DemoTaskIsNotSnatched' /\ StoredSound'
    <2>1. /\ workerId' \in Workers /\ stored' \in [TaskId -> Token \cup {NULL}]
          /\ busy' \in RequestState \cup {NULL} /\ dropped' \subseteq Token /\ TokensStay
      BY <1>1, <1>2, <1>4, StoredStays DEF SessionTypeOK
    <2>2. QED
      BY <1>1, <1>3, <1>4, <2>1, TabKeeps
  <1>6. BusySound' /\ AnswersTell' /\ Undisputed'
    BY <1>4, TabIsFree
  <1>7. OffersAreNew'
    BY <1>1, <1>3, OffersLoaded
  <1>8. PICK b, v : b = busy /\ v = verdict'
    OBVIOUS
  <1>9. /\ b \in RequestState /\ Issued(b.task, b.token) /\ b.step \in StepSeq
    BY <1>1, <1>2, <1>8 DEF SessionTypeOK, BusySound, Verifying
  <1>10. /\ v.task = b.task /\ v.step = b.step /\ v.worker = b.worker /\ v.token = b.token
         /\ v.passed = (lost' = lost /\ Passed(b.task, b.step))
         /\ v \in Verdict
    <2>1. b.worker \in Workers /\ b.task \in TaskId /\ b.token \in Token
      BY <1>9 DEF RequestState, Issued
    <2>2. (lost' = lost /\ Passed(b.task, b.step)) \in BOOLEAN
      OBVIOUS
    <2>3. v = [passed |-> lost' = lost /\ Passed(b.task, b.step), task |-> b.task,
               step |-> b.step, worker |-> b.worker, token |-> b.token]
      BY <1>8 DEF Judge
    <2>4. /\ v.task = b.task /\ v.step = b.step /\ v.worker = b.worker /\ v.token = b.token
          /\ v.passed = (lost' = lost /\ Passed(b.task, b.step))
      BY <2>3
    <2>5. v \in Verdict
      BY <1>9, <2>1, <2>2, <2>3, Zenon DEF Verdict
    <2>6. QED
      BY <2>4, <2>5
  <1>11. [BoardStep]_vars /\ tasks' = tasks /\ logs' = logs /\ audit' = audit
    BY <1>1, TabBoard DEF vars
  <1>12. VerdictSound'
    <2>1. Issued(b.task, b.token)'
      BY <1>2, <1>9, <1>11, IssuedKept
    <2>2. QED
      BY <1>8, <1>10, <2>1 DEF VerdictSound
  <1>13. PassCertifies'
    <2>1. ASSUME v.passed, Exists(b.task)
          PROVE  /\ logs[b.task][b.step] = "success" /\ audit[b.task]["step_report"] >= 1
                 /\ audit[b.task]["duplicate_report"] >= Reports - 1
      BY <1>1, <1>8, <1>10, <2>1, PassedTells
    <2>2. QED
      BY <1>8, <1>10, <1>11, <2>1 DEF PassCertifies, Exists
  <1>14. AlarmsHaveACause'
    <2>1. ASSUME ~v.passed, lost' = 0, CredentialsMatch(b.task, b.worker, b.token)
          PROVE  FALSE
      <3>1. lost' = lost /\ lost = 0
        BY <1>2, <1>3, <2>1
      <3>2. Passed(b.task, b.step)
        BY <1>1, <1>8, <2>1, <3>1, NothingLostPasses
      <3>3. QED
        BY <1>10, <2>1, <3>1, <3>2
    <2>2. lost' > 0 \/ lost' = 0
      BY <1>3
    <2>3. QED
      BY <1>8, <1>10, <1>11, <2>1, <2>2 DEF AlarmsHaveACause, CredentialsMatch, Exists
  <1>15. StartedTasksAreReachable'
    <2>1. ASSUME NEW t \in TaskId, tasks[t].status = "running", Known(t)
          PROVE  Known(t)' \/ tasks[t].claim_token \in dropped'
      <3>1. CASE stored[t] = tasks[t].claim_token \/ tasks[t].claim_token \in theirs
        BY <1>1, <1>11, <3>1 DEF Known
      <3>2. CASE ~(\/ stored[t] = tasks[t].claim_token \/ tasks[t].claim_token \in theirs
                   \/ tasks[t].claim_token \in dropped)
        <4>1. PICK r \in Request : requests[r].task = t /\ requests[r].token = tasks[t].claim_token
          BY <2>1, <3>2 DEF Known
        <4>2. requests[r].kind = "demo"
          BY <2>1, <3>2, <4>1, DroppedAnswer
        <4>3. r \notin Mine
          BY <1>1, <1>2, <4>2 DEF BusySound, Verifying
        <4>4. requests'[r] = requests[r]
          BY <1>4, <4>3
        <4>5. QED
          BY <1>11, <4>1, <4>4 DEF Known
      <3>3. QED
        BY <1>1, <3>1, <3>2
    <2>2. QED
      BY <1>1, <2>1, StartedLeft
  <1>16. QED
    BY <1>5, <1>6, <1>7, <1>12, <1>13, <1>14, <1>15 DEF SessionInv

(* A token that is neither in the tab nor with the others leaves with a    *)
(* request only if that is a demo's answer.                                *)
LEMMA StartedAbandoned ==
  ASSUME SessionInv, UNCHANGED <<vars, theirs>>, TokensStay,
         \A p \in Request : \/ Kept(p)
                            \/ requests'[p] = Free /\ Unkept({p}) \subseteq dropped'
  PROVE  StartedTasksAreReachable'
  <1>1. tasks' = tasks
    BY DEF vars
  <1>2. ASSUME NEW t \in TaskId, tasks[t].status = "running", Known(t),
               tasks[t].claim_token \notin dropped'
        PROVE  Known(t)'
    <2>1. tasks[t].claim_token # NULL /\ tasks[t].claim_token \notin dropped
      <3>1. ColumnsAgree(tasks[t])
        BY DEF SessionInv, BoardInv, StepInv, CredentialInv, ClaimColumnsAgree
      <3>2. QED
        BY <1>2, <3>1 DEF ColumnsAgree, TokensStay
    <2>2. CASE stored[t] = tasks[t].claim_token
      <3>1. stored'[t] = tasks[t].claim_token
        BY <1>2, <2>1, <2>2 DEF TokensStay
      <3>2. QED
        BY <1>1, <3>1 DEF Known
    <2>3. CASE tasks[t].claim_token \in theirs
      BY <1>1, <2>3 DEF Known
    <2>4. CASE stored[t] # tasks[t].claim_token /\ tasks[t].claim_token \notin theirs
      <3>1. PICK r \in Request : requests[r].task = t /\ requests[r].token = tasks[t].claim_token
        BY <1>2, <2>4 DEF Known
      <3>2. CASE Unkept({r}) \subseteq dropped'
        <4>1. requests[r].kind = "demo" /\ requests[r].at = "ok"
          BY <1>2, <2>1, <2>4, <3>1, DroppedAnswer
        <4>2. requests[r].token \in Unkept({r})
          BY <4>1 DEF Unkept
        <4>3. QED
          BY <1>2, <3>1, <3>2, <4>2
      <3>3. CASE Kept(r)
        <4>1. requests'[r].task = t /\ requests'[r].token = tasks[t].claim_token
          BY <3>1, <3>3, KeptFields
        <4>2. QED
          BY <1>1, <4>1 DEF Known
      <3>4. QED
        BY <3>2, <3>3
    <2>5. QED
      BY <2>2, <2>3, <2>4
  <1>3. dropped \subseteq dropped' /\ UNCHANGED vars
    BY DEF TokensStay
  <1>4. \A t \in TaskId : tasks[t].status = "running" /\ Known(t)
          => Known(t)' \/ tasks[t].claim_token \in dropped'
    BY <1>2
  <1>5. QED
    BY <1>3, <1>4, StartedLeft

(* The tokens of requests that bring one are tokens.                       *)
LEMMA UnkeptTokens ==
  ASSUME SessionInv, NEW S \in SUBSET Request
  PROVE  Unkept(S) \subseteq Token /\ \A r \in S : Unkept({r}) \subseteq Unkept(S)
  <1>1. ASSUME NEW r \in Request, requests[r].kind = "demo", requests[r].at = "ok"
        PROVE  requests[r].token \in Token
    <2>1. RequestSound(requests[r])
      BY DEF SessionInv
    <2>2. QED
      BY <1>1, <2>1 DEF RequestSound, Granting, Issued
  <1>2. QED
    BY <1>1 DEF Unkept

(* Without one of its answers the verification knows less, and no more.    *)
LEMMA VerificationGoesOn ==
  ASSUME SessionInv, UNCHANGED <<vars, theirs, busy>>, Verifying, lost' > 0,
         NEW r \in Mine, \A p \in Request \ {r} : requests'[p] = requests[p],
         ~requests'[r].mine
  PROVE  BusySound' /\ AnswersTell' /\ Undisputed'
  <1>1. lost' # 0
    OBVIOUS
  <1>2. /\ tasks' = tasks /\ logs' = logs /\ audit' = audit /\ nextTask' = nextTask
        /\ nextToken' = nextToken
    BY DEF vars
  <1>3. Mine' = Mine \ {r} /\ \A p \in Mine \ {r} : requests'[p] = requests[p]
    BY DEF Mine
  <1>4. \A a : Answers(a)' = Answers(a) \ {r}
    BY <1>3 DEF Answers
  <1>5. Verifying'
    BY DEF Verifying
  <1>6. PICK b : b = busy /\ busy' = b
    OBVIOUS
  <1>7. BusySound /\ AnswersTell /\ BoardInv /\ TypeOK
    BY InvParts DEF SessionInv
  <1>8. BusySound'
    <2>1. Issued(b.task, b.token)'
      BY <1>2, <1>6, <1>7 DEF BusySound, Issued
    <2>2. QED
      BY <1>1, <1>3, <1>5, <1>6, <1>7, <2>1 DEF BusySound, Verifying
  <1>9. AnswersTell'
    <2>1. Answers("inserted")' \subseteq Answers("inserted")
          /\ Answers("duplicate")' \subseteq Answers("duplicate")
      BY <1>4
    <2>2. /\ Cardinality(Answers("duplicate")) \in Nat
          /\ Cardinality(Answers("duplicate")') \in Nat
          /\ Cardinality(Answers("duplicate")') <= Cardinality(Answers("duplicate"))
      <3>1. IsFiniteSet(Answers("duplicate"))
        BY AnswersFinite
      <3>2. QED
        BY <2>1, <3>1, FS_Subset, FS_CardinalityType
    <2>3. b.task \in TaskId
      BY <1>6, <1>7 DEF BusySound, Issued
    <2>4. audit[b.task]["duplicate_report"] \in Nat
      BY <1>7, <2>3 DEF TypeOK, Event
    <2>5. ASSUME Exists(b.task)
          PROVE  /\ Answers("inserted") # {} => logs[b.task][b.step] = "success"
                 /\ Answers("duplicate") # {} => logs[b.task][b.step] # NULL
                 /\ logs[b.task][b.step] = "success" =>
                      Cardinality(Answers("duplicate")) <= audit[b.task]["duplicate_report"]
      BY <1>6, <1>7, <2>5 DEF AnswersTell
    <2>6. PICK n, m : n = Cardinality(Answers("duplicate")) /\ m = Cardinality(Answers("duplicate")')
      OBVIOUS
    <2>7. Exists(b.task)' => Exists(b.task)
      BY <1>2 DEF Exists
    <2>8. ASSUME Exists(b.task), logs[b.task][b.step] = "success"
          PROVE  Cardinality(Answers("duplicate")') <= audit[b.task]["duplicate_report"]
      BY <2>2, <2>4, <2>5, <2>6, <2>8
    <2>9. QED
      BY <1>2, <1>6, <2>1, <2>5, <2>7, <2>8 DEF AnswersTell
  <1>10. Undisputed'
    BY <1>1 DEF Undisputed
  <1>11. QED
    BY <1>8, <1>9, <1>10

LEMMA GiveUpKeeps ==
  ASSUME SessionInv, NEW r \in Request, GiveUp(r)
  PROVE  SessionInv'
  <1>1. /\ UNCHANGED <<vars, demoGroup, theirs, resets>> /\ workerId' = workerId
        /\ stored' = stored /\ offer' = offer /\ verdict' = verdict
        /\ busy' = IF busy.kind = "report" THEN busy ELSE NULL
        /\ r \in Mine /\ lost' = lost + 1 /\ requests' = Abandoned({r})
        /\ dropped' = dropped \cup Unkept({r})
    BY DEF GiveUp
  <1>2. /\ lost \in Nat /\ SessionTypeOK /\ BusySound
    BY DEF SessionInv
  <1>3. lost' \in Nat /\ lost' >= lost /\ lost' > 0
    BY <1>1, <1>2
  <1>4. busy # NULL /\ requests[r].kind = busy.kind
    BY <1>1, <1>2 DEF BusySound
  <1>5. /\ requests' \in [Request -> RequestState]
        /\ \A p \in Request : requests'[p] = Free \/ Kept(p)
        /\ ~requests'[r].mine
        /\ \A p \in Request \ {r} : requests'[p] = requests[p]
    <2>1. {r} \in SUBSET Mine
      BY <1>1
    <2>2. QED
      BY <1>1, <1>3, <2>1, AbandonedLeaves
  <1>6. TokensStay
    BY <1>1, StoredStays
  <1>7. /\ BoardInv' /\ SessionTypeOK' /\ lost' \in Nat /\ resets' \in Nat /\ RowsRemain'
        /\ \A x \in Request : /\ RequestSound(requests[x])' /\ GrantAgrees(requests[x])'
                              /\ Apart(x)' /\ UserAgrees(requests[x])'
        /\ DemoTaskIsNotSnatched' /\ StoredSound'
    <2>1. /\ workerId' \in Workers /\ stored' \in [TaskId -> Token \cup {NULL}]
          /\ busy' \in RequestState \cup {NULL} /\ offer' \in [TaskId -> StepSeq \cup {0, NULL}]
      BY <1>1, <1>2 DEF SessionTypeOK
    <2>2. dropped' \subseteq Token
      BY <1>1, <1>2, UnkeptTokens DEF SessionTypeOK, Mine
    <2>3. QED
      BY <1>1, <1>3, <1>5, <1>6, <2>1, <2>2, TabKeeps
  <1>8. VerdictSound' /\ PassCertifies' /\ AlarmsHaveACause'
    BY <1>1, <1>3, TabBoard, VerdictKept
  <1>9. OffersAreNew'
    BY <1>1, <1>3, OffersLoaded
  <1>10. BusySound' /\ AnswersTell' /\ Undisputed'
    <2>1. CASE Verifying
      <3>1. busy' = busy
        BY <1>1, <2>1 DEF Verifying
      <3>2. QED
        BY <1>1, <1>3, <1>5, <2>1, <3>1, VerificationGoesOn
    <2>2. CASE ~Verifying
      <3>1. busy' = NULL
        BY <1>1, <1>4, <2>2 DEF Verifying
      <3>2. Mine = {r}
        BY <1>1, <1>2, <2>2 DEF BusySound
      <3>3. Mine' = {}
        BY <1>5, <3>2 DEF Mine
      <3>4. QED
        BY <3>1, <3>3, TabIsFree
    <2>3. QED
      BY <2>1, <2>2
  <1>11. StartedTasksAreReachable'
    <2>1. \A p \in Request : \/ Kept(p)
                             \/ requests'[p] = Free /\ Unkept({p}) \subseteq dropped'
      <3>1. \A p \in Request \ {r} : Kept(p)
        BY <1>5 DEF Kept
      <3>2. QED
        BY <1>1, <1>5, <3>1
    <2>2. QED
      BY <1>1, <1>6, <2>1, StartedAbandoned
  <1>12. QED
    BY <1>7, <1>8, <1>9, <1>10, <1>11 DEF SessionInv

(* A page opens: everything the old one waited for is gone.                *)
LEMMA PageKeeps ==
  ASSUME SessionInv, PageOpens, stored' \in [TaskId -> Token \cup {NULL}], TokensStay,
         dropped' \subseteq Token, Unkept(Mine) \subseteq dropped'
  PROVE  SessionInv'
  <1>1. /\ UNCHANGED <<vars, demoGroup, theirs, resets>> /\ workerId' \in Workers
        /\ offer' = [t \in TaskId |-> NULL] /\ verdict' = NULL
        /\ busy' = NULL /\ lost' = lost + 1 /\ requests' = Abandoned(Mine)
    BY DEF PageOpens
  <1>2. lost \in Nat /\ SessionTypeOK
    BY DEF SessionInv
  <1>3. lost' \in Nat /\ lost' >= lost /\ lost' > 0
    BY <1>1, <1>2
  <1>4. /\ requests' \in [Request -> RequestState]
        /\ \A p \in Request : requests'[p] = Free \/ Kept(p)
        /\ \A p \in Mine : ~requests'[p].mine
        /\ \A p \in Request \ Mine : requests'[p] = requests[p]
    BY <1>1, <1>3, AbandonedLeaves
  <1>5. /\ BoardInv' /\ SessionTypeOK' /\ lost' \in Nat /\ resets' \in Nat /\ RowsRemain'
        /\ \A x \in Request : /\ RequestSound(requests[x])' /\ GrantAgrees(requests[x])'
                              /\ Apart(x)' /\ UserAgrees(requests[x])'
        /\ DemoTaskIsNotSnatched' /\ StoredSound'
    <2>1. busy' \in RequestState \cup {NULL} /\ offer' \in [TaskId -> StepSeq \cup {0, NULL}]
      BY <1>1
    <2>2. QED
      BY <1>1, <1>3, <1>4, <2>1, TabKeeps
  <1>6. VerdictSound' /\ PassCertifies' /\ AlarmsHaveACause'
    BY <1>1 DEF VerdictSound, PassCertifies, AlarmsHaveACause
  <1>7. OffersAreNew'
    BY <1>1, <1>3, OffersLoaded
  <1>8. BusySound' /\ AnswersTell' /\ Undisputed'
    <2>1. Mine' = {}
      BY <1>4 DEF Mine
    <2>2. QED
      BY <1>1, <2>1, TabIsFree
  <1>9. StartedTasksAreReachable'
    <2>1. \A p \in Request : \/ Kept(p)
                             \/ requests'[p] = Free /\ Unkept({p}) \subseteq dropped'
      <3>1. \A p \in Request \ Mine : Kept(p)
        BY <1>4 DEF Kept
      <3>2. \A p \in Mine : Unkept({p}) \subseteq dropped'
        BY UnkeptTokens DEF Mine
      <3>3. QED
        BY <1>4, <3>1, <3>2
    <2>2. QED
      BY <1>1, <2>1, StartedAbandoned
  <1>10. QED
    BY <1>5, <1>6, <1>7, <1>8, <1>9 DEF SessionInv

LEMMA ReopenKeeps ==
  ASSUME SessionInv, Reload \/ CloseTab
  PROVE  SessionInv'
  <1>1. SessionTypeOK /\ Unkept(Mine) \subseteq Token
    BY UnkeptTokens DEF SessionInv, Mine
  <1>2. stored \in [TaskId -> Token \cup {NULL}] /\ dropped \subseteq Token
    BY <1>1 DEF SessionTypeOK
  <1>3. CASE Reload
    <2>1. /\ PageOpens /\ stored' = stored /\ dropped' = dropped \cup Unkept(Mine)
      BY <1>3 DEF Reload
    <2>2. TokensStay
      BY <2>1, StoredStays
    <2>3. QED
      BY <1>1, <1>2, <2>1, <2>2, PageKeeps
  <1>4. CASE CloseTab
    <2> DEFINE kept == {stored[t] : t \in TaskId} \ {NULL}
    <2>1. /\ PageOpens /\ stored' = [t \in TaskId |-> NULL]
          /\ dropped' = dropped \cup Unkept(Mine) \cup kept
      BY <1>4 DEF CloseTab
    <2>2. kept \subseteq Token /\ \A t \in TaskId : stored[t] \in kept \cup {NULL}
      BY <1>2
    <2> HIDE DEF kept
    <2>3. TokensStay
      BY <2>1, <2>2 DEF TokensStay
    <2>4. stored' \in [TaskId -> Token \cup {NULL}]
      BY <2>1
    <2>5. QED
      BY <1>1, <1>2, <2>1, <2>2, <2>3, <2>4, PageKeeps
  <1>5. QED
    BY <1>3, <1>4

(* A token that arrives replaces an older one, which the row does not have. *)
LEMMA ArrivalIsNewer ==
  ASSUME SessionInv, NEW r \in Request, OnItsWay(requests[r]), requests[r].mine,
         requests[r].at = "ok"
  PROVE  LET t     == requests[r].task
             token == requests[r].token
         IN  /\ Issued(t, token) /\ token \notin theirs /\ t \in TaskId /\ token \in Token
             /\ stored[t] # NULL => stored[t] # tasks[t].claim_token
             /\ \A p \in Request : requests[p].kind \in Using /\ Opens(requests[p])
                                   => requests[p].task # t
             /\ \A p \in Request \ {r} : requests[p].token # token
             /\ \A x \in TaskId : stored[x] # token
  <1>1. PICK q, t, token : q = requests[r] /\ t = q.task /\ token = q.token
    OBVIOUS
  <1>2. RequestSound(q) /\ Apart(r) /\ GrantAgrees(q) /\ token # NULL
    BY <1>1 DEF SessionInv, OnItsWay
  <1>3. Issued(t, token) /\ t \in TaskId /\ token \in Nat /\ token \in Token
    BY <1>1, <1>2, TokenTypes DEF RequestSound, Issued
  <1>4. /\ token \notin theirs /\ \A x \in TaskId : stored[x] # token
        /\ stored[t] # NULL => stored[t] < token
        /\ \A p \in Request \ {r} : requests[p].token # token
        /\ \A p \in Request : requests[p].kind \in Using => requests[p].token < token
    BY <1>1, <1>2, <1>3 DEF Apart
  <1>5. tasks[t].claim_token # NULL => tasks[t].claim_token >= token
    BY <1>1, <1>2 DEF GrantAgrees
  <1>6. stored[t] \in Token \cup {NULL} /\ Token \subseteq Nat
    BY <1>3, InvParts, TokenTypes
  <1>7. ASSUME stored[t] # NULL, stored[t] = tasks[t].claim_token PROVE FALSE
    <2>1. stored[t] \in Nat /\ stored[t] < token
      BY <1>4, <1>6, <1>7
    <2>2. stored[t] >= token
      BY <1>5, <1>7
    <2>3. QED
      BY <1>3, <2>1, <2>2
  <1>8. ASSUME NEW p \in Request, requests[p].kind \in Using, Opens(requests[p])
        PROVE  requests[p].task # t
    <2>1. requests[p].token # NULL /\ requests[p].token \in Nat
      <3>1. RequestSound(requests[p])
        BY DEF SessionInv
      <3>2. QED
        BY <1>8, <3>1, <1>6 DEF RequestSound, Issued
    <2>2. requests[p].token < token
      BY <1>4, <1>8
    <2>3. SUFFICES ASSUME requests[p].task = t PROVE FALSE
      OBVIOUS
    <2>4. tasks[t].claim_token = requests[p].token
      BY <1>8, <2>3 DEF Opens
    <2>5. QED
      BY <1>3, <1>5, <2>1, <2>2, <2>4
  <1>9. QED
    BY <1>1, <1>3, <1>4, <1>7, <1>8

LEMMA TokenArrives ==
  ASSUME SessionInv, NEW r \in Request, Receive(r),
         requests[r].at = "ok", requests[r].kind \in Granting
  PROVE  /\ stored' \in [TaskId -> Token \cup {NULL}] /\ StoredSound'
         /\ \A p \in Request : UserAgrees(requests[p])' /\ Apart(p)'
         /\ \A t \in TaskId : tasks[t].status = "running" /\ Known(t) => Known(t)'
  <1>1. PICK q, t, token : q = requests[r] /\ t = q.task /\ token = q.token
    OBVIOUS
  <1>2. /\ UNCHANGED <<vars, theirs, dropped>> /\ stored' = [stored EXCEPT ![t] = token] /\ q.mine /\ Over
        /\ r \in Mine /\ q.kind # "report" /\ q.at = "ok" /\ q.kind \in Granting
    BY <1>1 DEF Receive, Brings, Mine, Granting
  <1>3. SessionTypeOK /\ StoredSound /\ BusySound
    BY DEF SessionInv
  <1>4. OnItsWay(q)
    <2>1. RequestSound(q)
      BY <1>1 DEF SessionInv
    <2>2. QED
      BY <1>2, <2>1 DEF RequestSound, OnItsWay
  <1>5. /\ Issued(t, token) /\ token \notin theirs /\ t \in TaskId /\ token \in Token
        /\ stored[t] # NULL => stored[t] # tasks[t].claim_token
        /\ \A p \in Request : requests[p].kind \in Using /\ Opens(requests[p])
                              => requests[p].task # t
        /\ \A p \in Request \ {r} : requests[p].token # token
        /\ \A x \in TaskId : stored[x] # token
    BY <1>1, <1>2, <1>4, ArrivalIsNewer
  <1>6. Mine = {r}
    BY <1>1, <1>2, <1>3 DEF BusySound, Verifying
  <1>7. /\ Mine' = {}
        /\ \A p \in Request : requests'[p] = IF p \in Mine THEN Free ELSE requests[p]
    BY <1>2, OverFrees
  <1>8. /\ stored' \in [TaskId -> Token \cup {NULL}] /\ stored'[t] = token
        /\ \A x \in TaskId : x # t => stored'[x] = stored[x]
    BY <1>2, <1>3, <1>5 DEF SessionTypeOK
  <1>9. tasks' = tasks /\ nextTask' = nextTask /\ nextToken' = nextToken
    BY <1>2 DEF vars
  <1>10. StoredSound'
    <2>1. \A x, y : Issued(x, y)' <=> Issued(x, y)
      BY <1>9 DEF Issued
    <2>2. \A x \in TaskId : stored'[x] # NULL => Issued(x, stored'[x]) /\ stored'[x] \notin theirs
      BY <1>3, <1>5, <1>8 DEF StoredSound
    <2>3. PICK f : f = stored'
      OBVIOUS
    <2>4. \A x \in TaskId : f[x] # NULL => Issued(x, f[x])' /\ f[x] \notin theirs'
      BY <1>2, <2>1, <2>2, <2>3
    <2>5. QED
      BY <1>2, <1>3, <1>9, <2>3, <2>4 DEF StoredSound
  <1>11. ASSUME NEW p \in Request
         PROVE  UserAgrees(requests[p])' /\ Apart(p)'
    <2>1. CASE p = r
      BY <1>6, <1>7, <2>1, FreedSound
    <2>2. CASE p # r
      <3>1. requests'[p] = requests[p] /\ ~requests'[p].mine
        BY <1>6, <1>7, <2>2 DEF Mine
      <3>2. PICK u : u = requests[p] /\ requests'[p] = u
        BY <3>1
      <3>3. RequestSound(u) /\ UserAgrees(u) /\ Apart(p)
        BY <3>2 DEF SessionInv
      <3>4. UserAgrees(u)'
        <4>1. SUFFICES ASSUME u.kind \in Using, Opens(u) PROVE stored'[u.task] = u.token \/ u.token \in dropped
          BY <1>2, <1>9 DEF UserAgrees, Opens
        <4>2. u.task # t /\ (stored[u.task] = u.token \/ u.token \in dropped)
          BY <1>5, <3>2, <3>3, <4>1 DEF UserAgrees
        <4>3. u.task \in TaskId
          BY <3>3, <4>1 DEF RequestSound, Issued
        <4>4. QED
          BY <1>8, <4>2, <4>3
      <3>5. Apart(p)'
        <4>1. /\ u.token # NULL => u.token \notin theirs
              /\ OnItsWay(u) => /\ \A x \in TaskId : stored[x] # u.token
                                /\ \A y \in Request \ {p} : requests[y].token # u.token
          BY <3>2, <3>3 DEF Apart
        <4>2. ASSUME OnItsWay(u)
              PROVE  /\ \A x \in TaskId : stored'[x] # u.token
                     /\ \A y \in Request \ {p} : requests'[y].token # u.token
          <5>1. u.token # token /\ u.token # NULL
            BY <1>5, <2>2, <3>2, <4>2 DEF OnItsWay
          <5>2. QED
            BY <1>6, <1>7, <1>8, <4>1, <4>2, <5>1, FreeType
        <4>3. QED
          BY <1>2, <3>1, <3>2, <4>1, <4>2 DEF Apart, OnItsWay
      <3>6. QED
        BY <3>2, <3>4, <3>5
    <2>3. QED
      BY <2>1, <2>2
  <1>12. ASSUME NEW x \in TaskId, tasks[x].status = "running", Known(x)
         PROVE  Known(x)'
    <2>1. CASE stored[x] = tasks[x].claim_token
      <3>1. stored[x] # NULL
        <4>1. ColumnsAgree(tasks[x])
          BY DEF SessionInv, BoardInv, StepInv, CredentialInv, ClaimColumnsAgree
        <4>2. QED
          BY <1>12, <2>1, <4>1 DEF ColumnsAgree
      <3>2. x # t
        BY <1>5, <2>1, <3>1
      <3>3. QED
        BY <1>8, <1>9, <2>1, <3>2 DEF Known
    <2>2. CASE tasks[x].claim_token \in theirs
      BY <1>2, <1>9, <2>2 DEF Known
    <2>3. CASE \E p \in Request : requests[p].task = x /\ requests[p].token = tasks[x].claim_token
      <3>1. PICK p \in Request : requests[p].task = x /\ requests[p].token = tasks[x].claim_token
        BY <2>3
      <3>2. CASE p = r
        <4>1. x = t /\ token = tasks[x].claim_token
          BY <1>1, <3>1, <3>2
        <4>2. QED
          BY <1>8, <1>9, <4>1 DEF Known
      <3>3. CASE p # r
        <4>1. requests'[p] = requests[p]
          BY <1>6, <1>7, <3>3
        <4>2. QED
          BY <1>9, <3>1, <4>1 DEF Known
      <3>4. QED
        BY <3>2, <3>3
    <2>4. QED
      BY <1>12, <2>1, <2>2, <2>3 DEF Known
  <1>13. QED
    BY <1>8, <1>10, <1>11, <1>12

LEMMA ReceiveKeeps ==
  ASSUME SessionInv, NEW r \in Request, Receive(r)
  PROVE  SessionInv'
  <1> DEFINE new == requests[r].at = "ok" /\ requests[r].kind \in Granting
  <1>1. /\ UNCHANGED <<vars, demoGroup, theirs, resets>> /\ verdict' = verdict /\ Over
        /\ dropped' = dropped
        /\ requests[r].mine /\ requests[r].at \in Answer /\ requests[r].kind # "report"
        /\ IF requests[r].at = "refused" THEN UNCHANGED <<offer, lost>> ELSE LoadAfter
    BY DEF Receive
  <1>2. /\ lost \in Nat /\ SessionTypeOK /\ BoardInv /\ BusySound /\ OffersAreNew
    BY DEF SessionInv
  <1>3. r \in Mine /\ busy # NULL /\ requests[r].kind = busy.kind /\ ~Verifying
    BY <1>1, <1>2 DEF BusySound, Mine, Verifying
  <1>4. Mine = {r}
    BY <1>2, <1>3 DEF BusySound
  <1>5. /\ requests' \in [Request -> RequestState] /\ busy' = NULL /\ Mine' = {}
        /\ \A p \in Request : /\ requests'[p] = Free \/ Kept(p)
                              /\ requests'[p] = IF p \in Mine THEN Free ELSE requests[p]
    BY <1>1, OverFrees
  <1>6. lost' \in Nat /\ lost' >= lost /\ offer' \in [TaskId -> StepSeq \cup {0, NULL}]
    BY <1>1, <1>2, LoadedFits DEF LoadAfter, SessionTypeOK
  <1>7. workerId' \in Workers
    <2>1. requests[r].worker \in Workers
      BY InvParts DEF RequestState
    <2>2. workerId' \in {workerId, requests[r].worker}
      BY DEF Receive, Brings
    <2>3. QED
      BY <1>2, <2>1, <2>2 DEF SessionTypeOK
  <1>8. ~new => stored' = stored
    BY DEF Receive, Brings, Granting
  <1>9. stored' \in [TaskId -> Token \cup {NULL}]
    <2>1. CASE new
      BY <2>1, TokenArrives
    <2>2. CASE ~new
      BY <1>2, <1>8, <2>2 DEF SessionTypeOK
    <2>3. QED
      BY <2>1, <2>2
  <1>10. /\ BoardInv' /\ SessionTypeOK' /\ lost' \in Nat /\ resets' \in Nat /\ RowsRemain'
         /\ \A x \in Request : RequestSound(requests[x])' /\ GrantAgrees(requests[x])'
         /\ DemoTaskIsNotSnatched'
         /\ TokensStay =>
              StoredSound' /\ \A x \in Request : Apart(x)' /\ UserAgrees(requests[x])'
    <2>1. busy' \in RequestState \cup {NULL} /\ dropped' \subseteq Token
      BY <1>1, <1>2, <1>5 DEF SessionTypeOK
    <2>2. QED
      BY <1>1, <1>5, <1>6, <1>7, <1>9, <2>1, TabKeeps
  <1>11. StoredSound' /\ \A x \in Request : Apart(x)' /\ UserAgrees(requests[x])'
    <2>1. CASE new
      BY <2>1, TokenArrives
    <2>2. CASE ~new
      BY <1>1, <1>8, <1>10, <2>2, StoredStays
    <2>3. QED
      BY <2>1, <2>2
  <1>12. VerdictSound' /\ PassCertifies' /\ AlarmsHaveACause'
    BY <1>1, <1>6, TabBoard, VerdictKept
  <1>13. OffersAreNew'
    <2>1. CASE requests[r].at = "refused"
      <3>1. /\ offer' = offer /\ lost' = lost /\ stored' = stored
            /\ tasks' = tasks /\ steps' = steps
        BY <1>1, <1>8, <2>1 DEF vars
      <3>2. QED
        BY <1>2, <1>3, <3>1 DEF OffersAreNew
    <2>2. CASE requests[r].at # "refused"
      <3>1. offer' = Loaded \/ lost' > 0
        BY <1>1, <1>2, <2>2 DEF LoadAfter
      <3>2. QED
        BY <1>1, <3>1, OffersLoaded
    <2>3. QED
      BY <2>1, <2>2
  <1>14. BusySound' /\ AnswersTell' /\ Undisputed'
    BY <1>5, TabIsFree
  <1>15. StartedTasksAreReachable'
    <2>1. CASE new
      BY <1>1, <2>1, TokenArrives, StartedLeft
    <2>2. CASE ~new
      <3>1. TokensStay
        BY <1>1, <1>8, <2>2, StoredStays
      <3>2. requests'[r] = Free /\ Unkept({r}) = {}
        BY <1>4, <1>5, <2>2 DEF Unkept, Granting
      <3>3. \A p \in Request \ {r} : Kept(p)
        BY <1>4, <1>5 DEF Kept
      <3>4. QED
        BY <1>1, <3>1, <3>2, <3>3, StartedAbandoned
    <2>3. QED
      BY <2>1, <2>2
  <1>16. QED
    BY <1>10, <1>11, <1>12, <1>13, <1>14, <1>15 DEF SessionInv

(* sessionStorage refuses the token.                                       *)
LEMMA RefusalKeeps ==
  ASSUME SessionInv, NEW r \in Request, StorageRefuses(r)
  PROVE  SessionInv'
  <1>1. /\ UNCHANGED <<vars, demoGroup, theirs, resets>> /\ verdict' = verdict /\ Over
        /\ workerId' = workerId /\ stored' = stored /\ offer' = offer /\ lost' = lost
        /\ dropped' = dropped \cup Unkept({r}) /\ r \in Mine /\ requests[r].kind # "report"
    BY DEF StorageRefuses, Brings, bounds
  <1>2. /\ lost \in Nat /\ SessionTypeOK /\ BusySound /\ OffersAreNew
    BY DEF SessionInv
  <1>3. ~Verifying /\ Mine = {r}
    BY <1>1, <1>2 DEF BusySound, Verifying
  <1>4. /\ requests' \in [Request -> RequestState] /\ busy' = NULL /\ Mine' = {}
        /\ \A p \in Request : /\ requests'[p] = Free \/ Kept(p)
                              /\ requests'[p] = IF p \in Mine THEN Free ELSE requests[p]
    BY <1>1, OverFrees
  <1>5. TokensStay /\ lost' \in Nat /\ lost' >= lost
    BY <1>1, <1>2, StoredStays
  <1>6. /\ BoardInv' /\ SessionTypeOK' /\ lost' \in Nat /\ resets' \in Nat /\ RowsRemain'
        /\ \A x \in Request : /\ RequestSound(requests[x])' /\ GrantAgrees(requests[x])'
                              /\ Apart(x)' /\ UserAgrees(requests[x])'
        /\ DemoTaskIsNotSnatched' /\ StoredSound'
    <2>1. /\ workerId' \in Workers /\ stored' \in [TaskId -> Token \cup {NULL}]
          /\ busy' \in RequestState \cup {NULL} /\ offer' \in [TaskId -> StepSeq \cup {0, NULL}]
      BY <1>1, <1>2, <1>4 DEF SessionTypeOK
    <2>2. dropped' \subseteq Token
      BY <1>1, <1>2, UnkeptTokens DEF SessionTypeOK, Mine
    <2>3. QED
      BY <1>1, <1>4, <1>5, <2>1, <2>2, TabKeeps
  <1>7. VerdictSound' /\ PassCertifies' /\ AlarmsHaveACause'
    BY <1>1, <1>5, TabBoard, VerdictKept
  <1>8. OffersAreNew'
    BY <1>1, <1>2, <1>3 DEF OffersAreNew, vars
  <1>9. BusySound' /\ AnswersTell' /\ Undisputed'
    BY <1>4, TabIsFree
  <1>10. StartedTasksAreReachable'
    <2>1. \A p \in Request : \/ Kept(p)
                             \/ requests'[p] = Free /\ Unkept({p}) \subseteq dropped'
      <3>1. requests'[r] = Free
        BY <1>1, <1>4
      <3>2. \A p \in Request \ {r} : Kept(p)
        BY <1>3, <1>4 DEF Kept
      <3>3. QED
        BY <1>1, <3>1, <3>2
    <2>2. QED
      BY <1>1, <1>5, <2>1, StartedAbandoned
  <1>11. QED
    BY <1>6, <1>7, <1>8, <1>9, <1>10 DEF SessionInv

LEMMA NewFields ==
  ASSUME SessionInv, NEW kind \in {"claim", "demo", "start", "report"}
  PROVE  LET p == NewRequest(kind)
         IN  /\ p \in RequestState /\ p.kind = kind /\ p.mine /\ p.at = "sent"
             /\ p.worker = workerId /\ p.token = NULL
  <1> DEFINE f0 == Free
             f1 == [f0 EXCEPT !.kind = kind]
             f2 == [f1 EXCEPT !.mine = TRUE]
             f3 == [f2 EXCEPT !.worker = workerId]
  <1>1. f0 \in RequestState /\ f0.token = NULL /\ f0.at = "sent"
    BY FreeType DEF Free
  <1>2. NewRequest(kind) = f3
    BY DEF NewRequest
  <1> HIDE DEF f0
  <1>3. f1 \in RequestState /\ f1.token = NULL /\ f1.at = "sent" /\ f1.kind = kind
    BY <1>1 DEF RequestState
  <1> HIDE DEF f1
  <1>4. f2 \in RequestState /\ f2.token = NULL /\ f2.at = "sent" /\ f2.kind = kind /\ f2.mine
    BY <1>3 DEF RequestState
  <1> HIDE DEF f2
  <1>5. /\ f3 \in RequestState /\ f3.token = NULL /\ f3.at = "sent" /\ f3.kind = kind /\ f3.mine
        /\ f3.worker = workerId
    <2>1. workerId \in Workers
      BY InvParts
    <2>2. QED
      BY <1>4, <2>1 DEF RequestState
  <1> HIDE DEF f3
  <1>6. QED
    BY <1>2, <1>5

LEMMA CredentialFields ==
  ASSUME SessionInv, NEW kind \in Using, NEW t \in TaskId
  PROVE  LET p == WithCredentials(kind, t)
         IN  /\ p \in RequestState /\ p.kind = kind /\ p.mine /\ p.at = "sent"
             /\ p.worker = workerId /\ p.task = t /\ p.token = stored[t]
  <1> DEFINE f0 == NewRequest(kind)
             f1 == [f0 EXCEPT !.task = t]
             f2 == [f1 EXCEPT !.token = stored[t]]
  <1>1. f0 \in RequestState /\ f0.kind = kind /\ f0.mine /\ f0.at = "sent" /\ f0.worker = workerId
    BY NewFields DEF Using
  <1>2. WithCredentials(kind, t) = f2
    BY DEF WithCredentials
  <1> HIDE DEF f0
  <1>3. /\ f1 \in RequestState /\ f1.kind = kind /\ f1.mine /\ f1.at = "sent"
        /\ f1.worker = workerId /\ f1.task = t
    BY <1>1 DEF RequestState
  <1> HIDE DEF f1
  <1>4. /\ f2 \in RequestState /\ f2.kind = kind /\ f2.mine /\ f2.at = "sent"
        /\ f2.worker = workerId /\ f2.task = t /\ f2.token = stored[t]
    <2>1. stored[t] \in Token \cup {NULL}
      BY InvParts
    <2>2. QED
      BY <1>3, <2>1 DEF RequestState
  <1> HIDE DEF f2
  <1>5. QED
    BY <1>2, <1>4

LEMMA StepField ==
  ASSUME NEW q \in RequestState, NEW s \in StepSeq
  PROVE  LET p == [q EXCEPT !.step = s]
         IN  /\ p \in RequestState /\ p.step = s
             /\ p.kind = q.kind /\ p.mine = q.mine /\ p.at = q.at /\ p.worker = q.worker
             /\ p.task = q.task /\ p.token = q.token
  BY DEF RequestState

(* What a click sends, once for each of the slots.                         *)
Fresh(slots, req) ==
  /\ req \in RequestState /\ req.mine /\ req.at = "sent" /\ req.kind # "free"
  /\ req.worker = workerId
  /\ req.kind \in Granting => req.token = NULL
  /\ req.kind \in Using => /\ req.task \in TaskId /\ req.token = stored[req.task]
                           /\ req.token # NULL
  /\ req.kind = "report" => /\ req.step \in StepSeq /\ req.step = offer[req.task]
                            /\ Cardinality(slots) = Reports
  /\ req.kind # "report" => \A p, q \in slots : p = q

LEMMA SendMoves ==
  ASSUME SessionInv, NEW slots, NEW req, Send(slots, req), Fresh(slots, req)
  PROVE  /\ Mine = {} /\ Mine' = slots /\ slots \subseteq Request
         /\ requests' \in [Request -> RequestState]
         /\ \A p \in slots : requests[p] = Free /\ requests'[p] = req
         /\ \A p \in Request \ slots : requests'[p] = requests[p] /\ ~requests[p].mine
  <1>1. /\ busy = NULL /\ slots \subseteq FreeSlots
        /\ requests' = [r \in Request |-> IF r \in slots THEN req ELSE requests[r]]
    BY DEF Send
  <1>2. Mine = {}
    BY <1>1 DEF SessionInv, BusySound
  <1>3. \A p \in Request : requests[p] \in RequestState /\ RequestSound(requests[p])
    BY InvParts DEF SessionInv
  <1>4. slots \subseteq Request /\ \A p \in slots : requests[p] = Free
    BY <1>1, <1>3 DEF FreeSlots, RequestSound
  <1>5. requests' \in [Request -> RequestState]
    BY <1>1, <1>3 DEF Fresh
  <1>6. /\ \A p \in slots : requests'[p] = req
        /\ \A p \in Request \ slots : requests'[p] = requests[p] /\ ~requests[p].mine
    BY <1>1, <1>2, <1>4 DEF Mine
  <1>7. Mine' = slots
    BY <1>4, <1>6 DEF Mine, Fresh
  <1>8. QED
    BY <1>2, <1>4, <1>5, <1>6, <1>7

LEMMA SendRequests ==
  ASSUME SessionInv, NEW slots, NEW req, Send(slots, req), Fresh(slots, req), NEW p \in Request
  PROVE  /\ RequestSound(requests[p])' /\ GrantAgrees(requests[p])' /\ UserAgrees(requests[p])'
         /\ Apart(p)' /\ DemoHolds(requests[p])'
  <1>1. /\ Mine' = slots /\ slots \subseteq Request
        /\ \A x \in slots : requests[x] = Free /\ requests'[x] = req
        /\ \A x \in Request \ slots : requests'[x] = requests[x] /\ ~requests[x].mine
    BY SendMoves
  <1>2. /\ UNCHANGED <<vars, stored, theirs, dropped, resets, lost>> /\ lost \in Nat
        /\ TokensStay
    BY StoredStays DEF Send, bounds, SessionInv
  <1>3. StoredSound /\ nextTask' = nextTask /\ nextToken' = nextToken
    BY <1>2 DEF SessionInv, vars
  <1>4. /\ req.token # NULL => /\ req.kind \in Using /\ req.kind \notin Granting
                               /\ Issued(req.task, req.token) /\ req.token \notin theirs
                               /\ req.token = stored[req.task] /\ req.task \in TaskId
    BY <1>3, SessionAssumption DEF Fresh, RequestState, StoredSound, Using, Granting
  <1>5. CASE p \in slots
    <2>1. requests'[p] = req
      BY <1>1, <1>5
    <2>2. Issued(req.task, req.token)' <=> Issued(req.task, req.token)
      BY <1>3 DEF Issued
    <2>3. RequestSound(req)'
      BY <1>4, <2>2 DEF Fresh, RequestSound, Using, Granting, Early
    <2>4. GrantAgrees(req)' /\ DemoHolds(req)'
      BY <1>4 DEF GrantAgrees, OnItsWay, DemoHolds, Fresh
    <2>5. UserAgrees(req)'
      BY <1>2 DEF UserAgrees, Fresh
    <2>6. Apart(p)'
      BY <1>2, <1>4, <2>1 DEF Apart, OnItsWay
    <2>7. QED
      BY <2>1, <2>3, <2>4, <2>5, <2>6
  <1>6. CASE p \notin slots
    <2>1. requests'[p] = requests[p] /\ ~requests[p].mine
      BY <1>1, <1>6
    <2>2. Kept(p)
      BY <2>1 DEF Kept
    <2>3. /\ RequestSound(requests[p])' /\ GrantAgrees(requests[p])' /\ UserAgrees(requests[p])'
          /\ DemoHolds(requests[p])'
      BY <1>2, <2>2, RequestsLeft
    <2>4. PICK u : u = requests[p] /\ requests'[p] = u
      BY <2>1
    <2>5. Apart(p)
      BY DEF SessionInv
    <2>6. /\ u.token # NULL => u.token \notin theirs
          /\ OnItsWay(u) => /\ \A x \in TaskId : stored[x] # u.token
                            /\ \A y \in Request \ {p} : requests[y].token # u.token
      BY <2>4, <2>5 DEF Apart
    <2>7. ASSUME OnItsWay(u), NEW y \in Request \ {p} PROVE requests'[y].token # u.token
      <3>1. CASE y \in slots
        BY <1>1, <1>4, <2>6, <2>7, <3>1 DEF OnItsWay
      <3>2. CASE y \notin slots
        BY <1>1, <2>6, <2>7, <3>2
      <3>3. QED
        BY <3>1, <3>2
    <2>8. ~u.mine
      BY <2>1, <2>4
    <2>9. Apart(p)'
      BY <1>2, <2>4, <2>6, <2>7, <2>8 DEF Apart, OnItsWay
    <2>10. QED
      BY <2>3, <2>9
  <1>7. QED
    BY <1>5, <1>6

LEMMA SendKeeps ==
  ASSUME SessionInv, NEW slots, NEW req, Send(slots, req), Fresh(slots, req)
  PROVE  SessionInv'
  <1>1. /\ Mine' = slots /\ slots \subseteq Request
        /\ requests' \in [Request -> RequestState]
        /\ \A x \in slots : requests[x] = Free /\ requests'[x] = req
        /\ \A x \in Request \ slots : requests'[x] = requests[x] /\ ~requests[x].mine
    BY SendMoves
  <1>2. /\ UNCHANGED <<vars, stored, workerId, offer, verdict, demoGroup, theirs, dropped, resets, lost>>
        /\ busy = NULL /\ busy' = req
    BY DEF Send, bounds
  <1>3. lost \in Nat /\ resets \in Nat /\ SessionTypeOK /\ StoredSound /\ OffersAreNew
    BY DEF SessionInv
  <1>4. /\ [BoardStep]_vars /\ NoRowGoes /\ BoardInv' /\ TypeOK'
        /\ \A token \in theirs : token < nextToken'
    BY <1>2, TabBoard
  <1>5. /\ tasks' = tasks /\ steps' = steps /\ logs' = logs /\ audit' = audit
        /\ nextTask' = nextTask /\ nextToken' = nextToken
    BY <1>2 DEF vars
  <1>6. \A p \in Request : /\ RequestSound(requests[p])' /\ GrantAgrees(requests[p])'
                           /\ UserAgrees(requests[p])' /\ Apart(p)' /\ DemoHolds(requests[p])'
    BY SendRequests
  <1>7. SessionTypeOK' /\ lost' \in Nat /\ resets' \in Nat
    BY <1>1, <1>2, <1>3, <1>4 DEF SessionTypeOK, Fresh
  <1>8. DemoTaskIsNotSnatched'
    BY <1>6 DEF DemoTaskIsNotSnatched, DemoHolds
  <1>9. StoredSound'
    BY <1>2, <1>4, StoredStays, StoredKept
  <1>10. VerdictSound' /\ PassCertifies' /\ AlarmsHaveACause'
    BY <1>2, <1>3, <1>4, VerdictKept
  <1>11. RowsRemain'
    BY <1>2, <1>4, RowsKept DEF SessionInv
  <1>12. OffersAreNew'
    BY <1>2, <1>3, <1>5 DEF OffersAreNew, Verifying
  <1>13. Verifying' <=> req.kind = "report"
    <2>1. req # NULL
      BY TokenTypes DEF Fresh
    <2>2. QED
      BY <1>2, <2>1 DEF Verifying
  <1>14. BusySound'
    <2>1. req.kind = "report" =>
            /\ req.task \in TaskId /\ req.token = stored[req.task] /\ req.token # NULL
            /\ req.step \in StepSeq /\ Cardinality(slots) = Reports
      BY DEF Fresh, Using
    <2>2. req.kind = "report" => Issued(req.task, req.token)' /\ req.token \notin theirs'
      BY <1>2, <1>3, <1>5, <2>1 DEF StoredSound, Issued
    <2>3. req.kind # "report" => \A p, q \in slots : p = q
      BY DEF Fresh
    <2>4. req # NULL
      BY TokenTypes DEF Fresh
    <2>5. QED
      BY <1>1, <1>2, <1>13, <2>1, <2>2, <2>3, <2>4 DEF BusySound
  <1>15. \A a : a # "sent" => Answers(a)' = {}
    BY <1>1 DEF Answers, Fresh
  <1>16. AnswersTell'
    <2>1. SUFFICES ASSUME req.kind = "report"
                   PROVE  0 <= audit[req.task]["duplicate_report"]
      <3>1. Answers("inserted")' = {} /\ Answers("duplicate")' = {}
        BY <1>15
      <3>2. Cardinality({}) = 0
        BY FS_EmptySet
      <3>3. QED
        BY <1>2, <1>5, <1>13, <3>1, <3>2 DEF AnswersTell
    <2>2. req.task \in TaskId /\ TypeOK
      BY <2>1, InvParts DEF Fresh, Using
    <2>3. audit[req.task]["duplicate_report"] \in Nat
      BY <2>2 DEF TypeOK, Event
    <2>4. QED
      BY <2>3
  <1>17. Undisputed'
    <2>1. Answers("refused")' = {} /\ Answers("inserted")' = {} /\ Answers("duplicate")' = {}
      BY <1>15
    <2>2. ASSUME lost = 0, req.kind = "report", CredentialsMatch(req.task, req.worker, req.token)
          PROVE  steps[req.task][req.step] = "running"
      <3>1. /\ req.task \in TaskId /\ req.token = stored[req.task] /\ req.token # NULL
            /\ req.step \in StepSeq /\ req.step = offer[req.task]
        BY <2>2 DEF Fresh, Using
      <3>2. tasks[req.task].claim_token = req.token
        BY <2>2 DEF CredentialsMatch
      <3>3. ~Verifying
        BY <1>2 DEF Verifying
      <3>4. QED
        BY <1>3, <2>2, <3>1, <3>2, <3>3 DEF OffersAreNew
    <2>3. CredentialsMatch(req.task, req.worker, req.token)' =>
            CredentialsMatch(req.task, req.worker, req.token)
      BY <1>5 DEF CredentialsMatch, Exists
    <2>4. QED
      BY <1>2, <1>5, <1>13, <2>1, <2>2, <2>3 DEF Undisputed
  <1>18. StartedTasksAreReachable'
    <2>1. ASSUME NEW t \in TaskId, Known(t) PROVE Known(t)'
      <3>1. CASE stored[t] = tasks[t].claim_token \/ tasks[t].claim_token \in theirs
        BY <1>2, <1>5, <3>1 DEF Known
      <3>2. CASE \E p \in Request : requests[p].task = t /\ requests[p].token = tasks[t].claim_token
        <4>1. PICK p \in Request : requests[p].task = t /\ requests[p].token = tasks[t].claim_token
          BY <3>2
        <4>2. p \notin slots
          <5>1. Free.task # t
            BY NullAssumption DEF Free, TaskId
          <5>2. QED
            BY <1>1, <4>1, <5>1
        <4>3. QED
          BY <1>1, <1>5, <4>1, <4>2 DEF Known
      <3>3. QED
        BY <2>1, <3>1, <3>2 DEF Known
    <2>2. QED
      BY <1>2, <2>1, StartedLeft
  <1>19. QED
    BY <1>4, <1>6, <1>7, <1>8, <1>9, <1>10, <1>11, <1>12, <1>14, <1>16, <1>17, <1>18
       DEF SessionInv

LEMMA ClickKeeps ==
  ASSUME SessionInv,
         ClickClaim \/ ClickDemo \/ \E t \in TaskId : ClickStart(t) \/ ClickReport(t)
  PROVE  SessionInv'
  <1>1. ASSUME NEW kind \in Granting, NEW r \in Request, Send({r}, NewRequest(kind))
        PROVE  SessionInv'
    <2>1. Fresh({r}, NewRequest(kind))
      BY NewFields DEF Fresh, Granting, Using
    <2>2. QED
      BY <1>1, <2>1, SendKeeps
  <1>2. \A t \in TaskId : Offered(t) => stored[t] # NULL
    BY DEF Offered
  <1>3. ASSUME NEW t \in TaskId, ClickStart(t) PROVE SessionInv'
    <2>1. PICK r \in Request : Send({r}, WithCredentials("start", t))
      BY <1>3 DEF ClickStart
    <2>2. Fresh({r}, WithCredentials("start", t))
      <3> DEFINE q == WithCredentials("start", t)
      <3>1. /\ q \in RequestState /\ q.kind = "start" /\ q.mine /\ q.at = "sent"
            /\ q.worker = workerId /\ q.task = t /\ q.token = stored[t]
        BY CredentialFields DEF Using
      <3>2. stored[t] # NULL
        BY <1>2, <1>3 DEF ClickStart
      <3> HIDE DEF q
      <3>3. Fresh({r}, q)
        BY <3>1, <3>2 DEF Fresh, Granting
      <3>4. QED
        BY <3>3 DEF q
    <2>3. QED
      BY <2>1, <2>2, SendKeeps
  <1>4. ASSUME NEW t \in TaskId, ClickReport(t) PROVE SessionInv'
    <2> DEFINE q == [WithCredentials("report", t) EXCEPT !.step = offer[t]]
    <2>1. PICK slots \in kSubset(Reports, FreeSlots) : Send(slots, q)
      BY <1>4 DEF ClickReport
    <2>2. offer[t] \in StepSeq
      BY <1>4 DEF ClickReport, Offered, SessionInv, SessionTypeOK
    <2>3. /\ q \in RequestState /\ q.kind = "report" /\ q.mine /\ q.at = "sent"
          /\ q.worker = workerId /\ q.task = t /\ q.token = stored[t] /\ q.step = offer[t]
      <3> DEFINE p == WithCredentials("report", t)
      <3>1. /\ p \in RequestState /\ p.kind = "report" /\ p.mine /\ p.at = "sent"
            /\ p.worker = workerId /\ p.task = t /\ p.token = stored[t]
        BY CredentialFields DEF Using
      <3>2. q = [p EXCEPT !.step = offer[t]]
        OBVIOUS
      <3> HIDE DEF p, q
      <3>3. QED
        BY <2>2, <3>1, <3>2, StepField
    <2>4. stored[t] # NULL
      BY <1>2, <1>4 DEF ClickReport
    <2>5. Cardinality(slots) = Reports
      BY DEF kSubset
    <2> HIDE DEF q
    <2>6. Fresh(slots, q)
      BY <2>2, <2>3, <2>4, <2>5 DEF Fresh, Granting
    <2>7. QED
      BY <2>1, <2>6, SendKeeps
  <1>5. QED
    BY <1>1, <1>3, <1>4 DEF ClickClaim, ClickDemo, Granting

-----------------------------------------------------------------------------
(* The invariant holds.                                                    *)

LEMMA SessionInitHolds == SessionInit => SessionInv
  <1> SUFFICES ASSUME SessionInit PROVE SessionInv
    OBVIOUS
  <1>1. /\ BoardInv /\ TypeOK
    BY BoardInit, BoardParts DEF SessionInit
  <1>2. /\ workerId = Me /\ stored = [t \in TaskId |-> NULL] /\ offer = [t \in TaskId |-> NULL]
        /\ busy = NULL /\ verdict = NULL /\ requests = [r \in Request |-> Free]
        /\ demoGroup = NULL /\ theirs = {} /\ dropped = {} /\ lost = 0 /\ resets = 0
        /\ tasks = [t \in TaskId |-> NoTask] /\ nextTask = 1
    BY DEF SessionInit, Init
  <1>3. SessionTypeOK
    BY <1>1, <1>2, FreeType, SessionAssumption DEF SessionTypeOK
  <1>4. Mine = {}
    BY <1>2, FreeType DEF Mine
  <1>5. \A r \in Request : /\ RequestSound(requests[r]) /\ Apart(r)
                           /\ UserAgrees(requests[r]) /\ GrantAgrees(requests[r])
    BY <1>2, FreeType DEF RequestSound, Apart, UserAgrees, GrantAgrees, OnItsWay, Using, Granting
  <1>6. StoredSound /\ VerdictSound /\ PassCertifies /\ AlarmsHaveACause
    BY <1>2 DEF StoredSound, VerdictSound, PassCertifies, AlarmsHaveACause
  <1>7. BusySound /\ AnswersTell /\ Undisputed
    BY <1>2, <1>4 DEF BusySound, AnswersTell, Undisputed, Verifying
  <1>8. OffersAreNew
    BY <1>2 DEF OffersAreNew
  <1>9. DemoTaskIsNotSnatched
    BY <1>2, FreeType DEF DemoTaskIsNotSnatched
  <1>10. StartedTasksAreReachable
    BY <1>2 DEF StartedTasksAreReachable, NoTask
  <1>11. RowsRemain
    BY <1>2, BoundsAssumption DEF RowsRemain, TaskId
  <1>12. QED
    BY <1>1, <1>2, <1>3, <1>5, <1>6, <1>7, <1>8, <1>9, <1>10, <1>11 DEF SessionInv

LEMMA SessionNextKeeps == SessionInv /\ [SessionNext]_sessionVars => SessionInv'
  <1> SUFFICES ASSUME SessionInv, [SessionNext]_sessionVars PROVE SessionInv'
    OBVIOUS
  <1>1. CASE ClickClaim \/ ClickDemo \/ \E t \in TaskId : ClickStart(t) \/ ClickReport(t)
    BY <1>1, ClickKeeps
  <1>2. CASE Poll
    BY <1>2, PollKeeps
  <1>3. CASE Judge
    BY <1>3, JudgeKeeps
  <1>4. CASE Reload \/ CloseTab
    BY <1>4, ReopenKeeps
  <1>5. ASSUME NEW r \in Request, Receive(r) \/ StorageRefuses(r) PROVE SessionInv'
    BY <1>5, ReceiveKeeps, RefusalKeeps
  <1>6. ASSUME NEW r \in Request, GiveUp(r) PROVE SessionInv'
    BY <1>6, GiveUpKeeps
  <1>7. CASE Server
    BY <1>7, ServerKeeps
  <1>8. CASE OthersClaim \/ OthersWork \/ OthersGroup \/ SetBack \/ Reset
    BY <1>8, OthersKeep
  <1>9. CASE UNCHANGED sessionVars
    <2>1. /\ UNCHANGED <<vars, workerId, stored, busy, verdict, requests, demoGroup, theirs, dropped, bounds>>
          /\ offer' = offer /\ tasks' = tasks /\ steps' = steps /\ lost' = lost
          /\ stored' = stored /\ busy' = busy
      BY <1>9 DEF sessionVars, tab, vars, bounds
    <2>2. OffersAreNew' /\ offer' \in [TaskId -> StepSeq \cup {0, NULL}]
      BY <2>1 DEF SessionInv, SessionTypeOK, OffersAreNew, Verifying
    <2>3. QED
      BY <2>1, <2>2, OnlyOffersChange
  <1>10. QED
    BY <1>1, <1>2, <1>3, <1>4, <1>5, <1>6, <1>7, <1>8, <1>9 DEF SessionNext

LEMMA SessionInvHolds == SessionSpec => []SessionInv
  BY SessionInitHolds, SessionNextKeeps, PTL DEF SessionSpec

-----------------------------------------------------------------------------
(* What the tab and the requests can be like.                              *)
THEOREM SessionTypeCorrect == SessionSpec => []SessionTypeOK
  <1>1. SessionInv => SessionTypeOK
    BY DEF SessionInv
  <1>2. QED
    BY <1>1, SessionInvHolds, PTL

(* "1 insertion and 4 no-ops" is true of the board, however many answers   *)
(* were lost, requests carried out late and boards loaded in between.      *)
THEOREM PassesAreTrue == SessionSpec => []PassCertifies
  <1>1. SessionInv => PassCertifies
    BY DEF SessionInv
  <1>2. QED
    BY <1>1, SessionInvHolds, PTL

(* The verification fails only where an answer or a load was lost, or the  *)
(* task is not the tab's any more: the button it was clicked with is never *)
(* out of date.                                                            *)
THEOREM AlarmsAreJust == SessionSpec => []AlarmsHaveACause
  <1>1. SessionInv => AlarmsHaveACause
    BY DEF SessionInv
  <1>2. QED
    BY <1>1, SessionInvHolds, PTL

(* Between the creation of the demo's task and its start nobody takes it   *)
(* but the operator, a reset, or a claim after its deadline.               *)
THEOREM DemoKeepsItsTask == SessionSpec => []DemoTaskIsNotSnatched
  <1>1. SessionInv => DemoTaskIsNotSnatched
    BY DEF SessionInv
  <1>2. QED
    BY <1>1, SessionInvHolds, PTL

(* Whoever may report a running task has its token, but for a demo whose   *)
(* answer found no tab or no room in sessionStorage, and for a tab that    *)
(* was closed: no token of a running task is lost on its way to the tab    *)
(* otherwise, nor by being replaced in it.                                 *)
THEOREM RunningTasksAreReachable == SessionSpec => []StartedTasksAreReachable
  <1>1. SessionInv => StartedTasksAreReachable
    BY DEF SessionInv
  <1>2. QED
    BY <1>1, SessionInvHolds, PTL

(* Every step of the tab, the server and the others is one of the board or *)
(* leaves it alone.                                                        *)
LEMMA StepsOfTheSession == SessionInv /\ [SessionNext]_sessionVars => [BoardStep]_vars
  <1> SUFFICES ASSUME SessionInv, [SessionNext]_sessionVars PROVE [BoardStep]_vars
    OBVIOUS
  <1>1. CASE Server
    <2>1. PICK r \in Request : ServerMove(r)
      BY <1>1, ServerMoves
    <2>2. QED
      BY <2>1, ServerBoard
  <1>2. CASE OthersClaim \/ OthersWork \/ OthersGroup \/ SetBack \/ Reset
    BY <1>2, OthersMoves
  <1>3. CASE \/ ClickClaim \/ ClickDemo \/ Poll \/ Judge \/ Reload \/ CloseTab
             \/ \E t \in TaskId : ClickStart(t) \/ ClickReport(t)
             \/ \E r \in Request : Receive(r) \/ StorageRefuses(r) \/ GiveUp(r)
             \/ UNCHANGED sessionVars
    <2>1. UNCHANGED vars
      BY <1>3 DEF ClickClaim, ClickDemo, Poll, Judge, Reload, CloseTab, PageOpens, ClickStart,
         ClickReport, Receive, StorageRefuses, GiveUp, Send, sessionVars
    <2>2. QED
      BY <2>1
  <1>4. QED
    BY <1>1, <1>2, <1>3 DEF SessionNext

(* Every behaviour of the tab, its requests and everybody else is, seen    *)
(* from the tables, one of the lifecycle of tasks.                         *)
THEOREM SessionImplementsLifecycle == SessionSpec => ImplementsLifecycle
  <1>1. SessionInit => Lifecycle!Init
    BY InitImplements DEF SessionInit
  <1>2. SessionInv /\ [SessionNext]_sessionVars
          => [Lifecycle!Next]_(Lifecycle!lifecycleVars)
    <2>1. SessionInv => BoardInv
      BY DEF SessionInv
    <2>2. QED
      BY <2>1, StepsOfTheSession, NextImplements
  <1>3. QED
    BY <1>1, <1>2, SessionInvHolds, PTL DEF SessionSpec, ImplementsLifecycle, Lifecycle!Spec

(* The tab loses its task only to the operator, or before it has started   *)
(* it and after its deadline.                                              *)
THEOREM SessionKeepsItsTask == SessionSpec => HoldersKeepTheirTask
  <1>1. SessionInv => StepInv
    BY DEF SessionInv, BoardInv
  <1>2. SessionInv /\ [SessionNext]_sessionVars =>
          [\A t \in TaskId :
             Survives(t) /\ tasks[t].claim_token # NULL
                        /\ tasks'[t].claim_token # tasks[t].claim_token
             => \/ audit'[t]["manual_requeue"] > audit[t]["manual_requeue"]
                \/ /\ tasks[t].status = "claimed" /\ tasks[t].lease_expires_at < clock
                   /\ audit'[t]["lease_reclaim"] > audit[t]["lease_reclaim"]]_vars
    BY <1>1, StepsOfTheSession, HolderKept
  <1>3. QED
    BY <1>2, SessionInvHolds, PTL DEF SessionSpec, HoldersKeepTheirTask
=============================================================================
