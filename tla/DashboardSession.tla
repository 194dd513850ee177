-------------------------- MODULE DashboardSession --------------------------
(***************************************************************************)
(* A tab of the dashboard (src/app/static/app.js) as a worker: it claims,  *)
(* seeds the demo, starts and reports by clicks, with the credentials it   *)
(* keeps in sessionStorage and the worker id in its input, on the board as *)
(* it was loaded last.  The server answers each request in its own time,   *)
(* and when the tab has given up on a request the server still carries it  *)
(* out.  Other tabs, workers and the operator use the same board.          *)
(***************************************************************************)
EXTENDS TaskBoard, FiniteSetsExt

CONSTANTS
  Request,  \* room for requests under way (bound)
  Me,       \* the worker id in the input when the tab is opened
  Others,   \* the worker ids that other clients run under
  Reports,  \* how many equal reports the verification sends
  MaxTrouble  \* bound: requests given up on, loads that fail, pages that open
              \* anew, resets of the board, and set-backs of the clock

ASSUME SessionAssumption ==
  /\ Me \in Workers /\ Others \subseteq Workers
  /\ IsFiniteSet(Request)
  /\ Reports \in Nat \ {0} /\ MaxTrouble \in Nat

VARIABLES
  workerId,   \* the input, kept in localStorage
  stored,     \* the token in sessionStorage for each task
  offer,      \* the button each task's card has room for: 0 starts the task,
              \* s reports step s, NULL is none
  busy,       \* busyAction: what the action under way asked for, or NULL
  verdict,    \* what the last verification said, and of which step
  requests,   \* requests the server has or has answered
  demoGroup,  \* the group named "Demo Customers", or NULL
  theirs,     \* tokens that were answered to other clients
  dropped,    \* the tokens of tasks that the tab started, or may have, which it
              \* could not keep: a history variable, no code reads it
  lost, resets, setBacks

tab         == <<workerId, stored, offer, busy, verdict>>
bounds      == <<lost, resets, setBacks>>
sessionVars == <<vars, tab, requests, demoGroup, theirs, dropped, bounds>>

(* A request on its way through the server ends as one of the answers.     *)
Stage  == {"sent", "read", "create group", "read group", "queue", "insert", "start"}
Answer == {"ok", "nothing", "inserted", "duplicate", "refused"}

RequestState ==
  [kind   : {"free", "claim", "demo", "start", "report"},
   mine   : BOOLEAN,  \* the tab waits for the answer
   at     : Stage \cup Answer,
   worker : Workers,
   task   : TaskId \cup {NULL},
   step   : StepSeq \cup {NULL},
   token  : Token \cup {NULL},
   group  : GroupId \cup {NULL}]

ASSUME RequestAssumption == NULL \notin RequestState

Free == [kind |-> "free", mine |-> FALSE, at |-> "sent", worker |-> Me,
         task |-> NULL, step |-> NULL, token |-> NULL, group |-> NULL]

NewRequest(kind) == [Free EXCEPT !.kind = kind, !.mine = TRUE, !.worker = workerId]

(* What taskCredentials puts into a request for task t.                    *)
WithCredentials(kind, t) == [NewRequest(kind) EXCEPT !.task = t, !.token = stored[t]]

FreeSlots == {r \in Request : requests[r].kind = "free"}
Mine      == {r \in Request : requests[r].mine}

-----------------------------------------------------------------------------
(* The tab: one action at a time, for which busyAction stands.             *)

Send(slots, req) ==
  /\ busy = NULL
  /\ slots \subseteq FreeSlots
  /\ busy' = req
  /\ requests' = [r \in Request |-> IF r \in slots THEN req ELSE requests[r]]
  /\ UNCHANGED <<vars, workerId, stored, offer, verdict, demoGroup, theirs, dropped, bounds>>

ClickClaim == \E r \in Request : Send({r}, NewRequest("claim"))

ClickDemo == \E r \in Request : Send({r}, NewRequest("demo"))

(* A button is rendered where the tab has a token for the task.            *)
Offered(t) == offer[t] # NULL /\ stored[t] # NULL

ClickStart(t) ==
  /\ Offered(t) /\ offer[t] = 0
  /\ \E r \in Request : Send({r}, WithCredentials("start", t))

(* completeFiveTimes: equal reports at the same time.                      *)
ClickReport(t) ==
  /\ Offered(t) /\ offer[t] # 0
  /\ \E slots \in kSubset(Reports, FreeSlots) :
       Send(slots, [WithCredentials("report", t) EXCEPT !.step = offer[t]])

(* loadTasks.                                                              *)
OfferOf(t) ==
  IF tasks[t].status = "claimed" THEN 0
  ELSE IF tasks[t].status = "running" THEN CHOOSE s \in StepSeq : steps[t][s] = "running"
  ELSE NULL

Loaded == [t \in TaskId |-> OfferOf(t)]

Poll ==
  /\ offer' = Loaded
  /\ UNCHANGED <<vars, workerId, stored, busy, verdict, requests, demoGroup, theirs, dropped, bounds>>

(* The load after an action; it may fail, and the old board stays.         *)
LoadAfter ==
  \/ offer' = Loaded /\ UNCHANGED lost
  \/ lost + resets + setBacks < MaxTrouble /\ lost' = lost + 1 /\ UNCHANGED offer

(* The requests the tab waited for are over, and it is free again.         *)
Over ==
  /\ requests' = [r \in Request |-> IF r \in Mine THEN Free ELSE requests[r]]
  /\ busy' = NULL

(* runAction: the answer to a claim or to a demo carries a token, and the  *)
(* demo's also the worker id that goes with it.                            *)
Brings(req) == req.at = "ok" /\ req.kind \in {"claim", "demo"}

Receive(r) ==
  LET req == requests[r]
  IN  /\ req.mine /\ req.at \in Answer /\ req.kind # "report"
      /\ stored' = IF Brings(req) THEN [stored EXCEPT ![req.task] = req.token] ELSE stored
      /\ workerId' = IF Brings(req) /\ req.kind = "demo" THEN req.worker ELSE workerId
      /\ IF req.at = "refused" THEN UNCHANGED <<offer, lost>> ELSE LoadAfter
      /\ Over
      /\ UNCHANGED <<vars, verdict, demoGroup, theirs, dropped, resets, setBacks>>

(* The tokens of demos that are done, and that their requests bring.       *)
Unkept(S) == {requests[r].token : r \in {q \in S : requests[q].kind = "demo"
                                                   /\ requests[q].at = "ok"}}

(* saveClaimToken: sessionStorage refuses the token, and the error ends the *)
(* action before it sets the worker id and loads the board.                *)
StorageRefuses(r) ==
  /\ r \in Mine /\ Brings(requests[r])
  /\ dropped' = dropped \cup Unkept({r})
  /\ Over
  /\ UNCHANGED <<vars, workerId, stored, offer, verdict, demoGroup, theirs, bounds>>

(* The verdict on the answers that came and on the log rows of the step in *)
(* the load that follows them.                                             *)
Answers(a) == {r \in Mine : requests[r].at = a}

PassedFault(t, s) == logs[t][s] # NULL /\ Answers("inserted") \cup Answers("duplicate") # {}
Passed(t, s) ==
  /\ Cardinality(Answers("inserted")) = 1
  /\ Cardinality(Answers("duplicate")) = Reports - 1
  /\ logs[t][s] # NULL

Judge ==
  /\ busy # NULL /\ busy.kind = "report"
  /\ \A r \in Mine : requests[r].at \in Answer
  /\ LoadAfter
  /\ verdict' = [passed |-> lost' = lost /\ Passed(busy.task, busy.step),
                 task |-> busy.task, step |-> busy.step,
                 worker |-> busy.worker, token |-> busy.token]
  /\ Over
  /\ UNCHANGED <<vars, workerId, stored, demoGroup, theirs, dropped, resets, setBacks>>

(* A request fails, or is aborted after ten seconds: the server goes on.   *)
Abandoned(S) ==
  [r \in Request |-> IF r \notin S THEN requests[r]
                     ELSE IF requests[r].at \in Answer THEN Free
                     ELSE [requests[r] EXCEPT !.mine = FALSE]]

GiveUp(r) ==
  /\ r \in Mine
  /\ lost + resets + setBacks < MaxTrouble
  /\ lost' = lost + 1
  /\ requests' = Abandoned({r})
  /\ dropped' = dropped \cup Unkept({r})
  /\ busy' = IF busy.kind = "report" THEN busy ELSE NULL
  /\ UNCHANGED <<vars, workerId, stored, offer, verdict, demoGroup, theirs, resets, setBacks>>

(* The page is gone with what it waited for, and opens with no board and   *)
(* the worker id that any tab of the browser saved last in localStorage.   *)
PageOpens ==
  /\ lost + resets + setBacks < MaxTrouble
  /\ lost' = lost + 1
  /\ requests' = Abandoned(Mine)
  /\ workerId' \in Workers
  /\ busy' = NULL /\ verdict' = NULL
  /\ offer' = [t \in TaskId |-> NULL]
  /\ UNCHANGED <<vars, demoGroup, theirs, resets, setBacks>>

(* Loaded again, it finds sessionStorage as it was.                        *)
Reload == PageOpens /\ dropped' = dropped \cup Unkept(Mine) /\ UNCHANGED stored

(* The tab is closed, and sessionStorage with it; another one is opened.   *)
CloseTab ==
  /\ PageOpens
  /\ dropped' = dropped \cup Unkept(Mine) \cup ({stored[t] : t \in TaskId} \ {NULL})
  /\ stored' = [t \in TaskId |-> NULL]

-----------------------------------------------------------------------------
(* The server: a request goes on by a step or gets its answer, which is of *)
(* no use when the tab has given up on it.                                 *)

GoesOn(r, req) == requests' = [requests EXCEPT ![r] = req]

Replies(r, req) == GoesOn(r, IF req.mine THEN req ELSE Free)

RepliesWith(r, a) == Replies(r, [requests[r] EXCEPT !.at = a])

Refuses(r) == RepliesWith(r, "refused") /\ UNCHANGED vars

(* claim_next_task commits, and then reads the task it gives away.         *)
ServeClaim(r) ==
  LET req == requests[r]
  IN  /\ req.kind = "claim"
      /\ \/ /\ req.at = "sent"
            /\ \E lease \in Leases, t \in TaskId :
                 ClaimTask(req.worker, LeaseExpiry(lease, 0), t)
                 /\ GoesOn(r, [req EXCEPT !.at = "read", !.task = t, !.token = nextToken])
         \/ req.at = "sent" /\ ClaimNothing /\ RepliesWith(r, "nothing")
         \/ /\ req.at = "read"
            /\ RepliesWith(r, IF Exists(req.task) THEN "ok" ELSE "refused")
            /\ UNCHANGED vars
      /\ UNCHANGED <<demoGroup, dropped>>

ServeStart(r) ==
  LET req == requests[r]
      t   == req.task
  IN  /\ req.kind = "start" /\ req.at = "sent"
      /\ \/ StartTask(t, req.worker, req.token) /\ RepliesWith(r, "ok")
         \/ RetryStart(t, req.worker, req.token) /\ RepliesWith(r, "ok")
         \/ /\ ~(CredentialsMatch(t, req.worker, req.token)
                 /\ tasks[t].status \in {"claimed", "running"})
            /\ Refuses(r)
      /\ UNCHANGED <<demoGroup, dropped>>

ReportRefusedFault(t, s, w, token) ==
  ~(CredentialsMatch(t, w, token) /\ tasks[t].status = "running")
ReportRefused(t, s, w, token) ==
  ~(CredentialsMatch(t, w, token) /\ (logs[t][s] # NULL \/ steps[t][s] = "running"))

ServeReport(r) ==
  LET req == requests[r]
      t   == req.task
      s   == req.step
  IN  /\ req.kind = "report" /\ req.at = "sent"
      /\ \/ /\ CompleteStep(t, s, req.worker, req.token, "success")
            /\ RepliesWith(r, "inserted")
         \/ /\ DuplicateReport(t, s, req.worker, req.token, "success")
            /\ RepliesWith(r, "duplicate")
         \/ ReportRefused(t, s, req.worker, req.token) /\ Refuses(r)
      /\ UNCHANGED <<demoGroup, dropped>>

(* seed_demo finds the group by its name or creates it, and reads the row  *)
(* it created in a second statement.                                       *)
SeedGroup(r) ==
  LET req == requests[r]
  IN  /\ \/ /\ req.at = "sent"
            /\ GoesOn(r, IF demoGroup = NULL THEN [req EXCEPT !.at = "create group"]
                         ELSE [req EXCEPT !.at = "queue", !.group = demoGroup])
            /\ UNCHANGED <<vars, demoGroup>>
         \/ /\ req.at = "create group" /\ demoGroup = NULL
            /\ \E params \in Overrides : CreateGroup(params)
            /\ demoGroup' = nextGroup
            /\ GoesOn(r, [req EXCEPT !.at = "read group", !.group = nextGroup])
         \/ /\ req.at = "create group" /\ demoGroup # NULL
            /\ Refuses(r) /\ UNCHANGED demoGroup
         \/ /\ req.at = "read group" /\ groups[req.group] # NULL
            /\ GoesOn(r, [req EXCEPT !.at = "queue"]) /\ UNCHANGED <<vars, demoGroup>>
      /\ UNCHANGED dropped

(* Then, in a transaction each, a task for the queue, the task that is     *)
(* born claimed, and the start of that one.                                *)
SeedTasks(r) ==
  LET req == requests[r]
  IN  /\ \/ /\ req.at = "queue" /\ CreateTask(req.group, 1)
            /\ GoesOn(r, [req EXCEPT !.at = "insert"])
         \/ /\ req.at = "insert" /\ \E lease \in Leases : SeedRunning(req.group, MaxStep, lease)
            /\ GoesOn(r, [req EXCEPT !.at = "start", !.worker = DemoWorker,
                                     !.task = nextTask, !.token = nextToken])
      /\ UNCHANGED <<demoGroup, dropped>>

(* The token in its answer is for the tab alone.                           *)
SeedStart(r) ==
  LET req == requests[r]
  IN  /\ req.at = "start" /\ StartTask(req.task, req.worker, req.token)
      /\ RepliesWith(r, "ok")
      /\ dropped' = IF req.mine THEN dropped ELSE dropped \cup {req.token}
      /\ UNCHANGED demoGroup

(* A reset between two of them took the group away, or the task.           *)
SeedFails(r) ==
  LET req == requests[r]
  IN  /\ \/ req.at \in {"read group", "queue", "insert"} /\ groups[req.group] = NULL
         \/ /\ req.at = "start"
            /\ ~(CredentialsMatch(req.task, req.worker, req.token)
                 /\ tasks[req.task].status = "claimed")
      /\ Refuses(r)
      /\ UNCHANGED <<demoGroup, dropped>>

ServeDemo(r) ==
  /\ requests[r].kind = "demo"
  /\ SeedGroup(r) \/ SeedTasks(r) \/ SeedStart(r) \/ SeedFails(r)

Server ==
  /\ \E r \in Request : ServeClaim(r) \/ ServeStart(r) \/ ServeReport(r) \/ ServeDemo(r)
  /\ UNCHANGED <<tab, theirs, bounds>>

-----------------------------------------------------------------------------
(* Everybody else: workers, also under the same worker ids, with tokens of *)
(* their own; the operator; a group of the demo's name, by another demo.   *)

OthersClaim ==
  /\ \E w \in Others, lease \in Leases : ClaimNextTask(w, LeaseExpiry(lease, 0))
  /\ theirs' = theirs \cup (nextToken..nextToken' - 1)
  /\ UNCHANGED <<tab, requests, demoGroup, dropped, bounds>>

OthersWork ==
  /\ \/ \E t \in TaskId, w \in Others, token \in theirs : HolderRequest(t, w, token)
     \/ nextTask = 1 /\ \E n \in StepSeq : CreateTask(NULL, n)  \* bound: one task
     \/ \E t \in TaskId : RequeueTask(t)
     \/ Tick
  /\ UNCHANGED <<tab, requests, demoGroup, theirs, dropped, bounds>>

OthersGroup ==
  /\ demoGroup = NULL
  /\ \E params \in Overrides : CreateGroup(params)
  /\ demoGroup' = nextGroup
  /\ UNCHANGED <<tab, requests, theirs, dropped, bounds>>

SetBack ==
  /\ lost + resets + setBacks < MaxTrouble /\ setBacks' = setBacks + 1
  /\ ClockSetBack
  /\ UNCHANGED <<tab, requests, demoGroup, theirs, dropped, lost, resets>>

Reset ==
  /\ lost + resets + setBacks < MaxTrouble /\ resets' = resets + 1
  /\ ResetAll
  /\ demoGroup' = NULL
  /\ UNCHANGED <<tab, requests, theirs, dropped, lost, setBacks>>

SessionInit ==
  /\ Init
  /\ workerId = Me
  /\ stored = [t \in TaskId |-> NULL] /\ offer = [t \in TaskId |-> NULL]
  /\ busy = NULL /\ verdict = NULL
  /\ requests = [r \in Request |-> Free]
  /\ demoGroup = NULL /\ theirs = {} /\ dropped = {}
  /\ lost = 0 /\ resets = 0 /\ setBacks = 0

SessionNext ==
  \/ ClickClaim \/ ClickDemo \/ Poll \/ Judge \/ Reload \/ CloseTab
  \/ \E t \in TaskId : ClickStart(t) \/ ClickReport(t)
  \/ \E r \in Request : Receive(r) \/ StorageRefuses(r) \/ GiveUp(r)
  \/ Server
  \/ OthersClaim \/ OthersWork \/ OthersGroup \/ SetBack \/ Reset

SessionSpec == SessionInit /\ [][SessionNext]_sessionVars

-----------------------------------------------------------------------------
SessionTypeOK ==
  /\ TypeOK
  /\ workerId \in Workers
  /\ stored \in [TaskId -> Token \cup {NULL}]
  /\ offer \in [TaskId -> StepSeq \cup {0, NULL}]
  /\ busy \in RequestState \cup {NULL}
  /\ requests \in [Request -> RequestState]
  /\ demoGroup \in GroupId \cup {NULL}
  /\ theirs \subseteq Token /\ dropped \subseteq Token

(* "1 insertion and 4 no-ops, the no-ops are in the ledger", the tab says: *)
(* then the step is done in the log, and the ledger has a row for each.    *)
PassCertifies ==
  verdict # NULL /\ verdict.passed /\ Exists(verdict.task) =>
    /\ logs[verdict.task][verdict.step] = "success"
    /\ audit[verdict.task]["step_report"] >= 1
    /\ audit[verdict.task]["duplicate_report"] >= Reports - 1

(* The verification raises no false alarm: it fails only if an answer or a *)
(* load was lost, or the tab did not hold the task any more, a reset and   *)
(* another worker's claim included, or not under the worker id it has now. *)
AlarmsHaveACause ==
  verdict # NULL /\ ~verdict.passed =>
    lost > 0 \/ ~CredentialsMatch(verdict.task, verdict.worker, verdict.token)

(* The demo's task is born claimed, so that no worker can take it between  *)
(* its creation and its start: the start fails only if its deadline has    *)
(* passed, or the operator or a reset took it.                             *)
DemoTaskIsNotSnatched ==
  \A r \in Request :
    LET t == requests[r].task
    IN  requests[r].kind = "demo" /\ requests[r].at = "start" =>
          \/ CredentialsMatch(t, DemoWorker, requests[r].token) /\ tasks[t].status = "claimed"
          \/ resets > 0
          \/ audit[t]["manual_requeue"] + audit[t]["lease_reclaim"] > 0

(* A running task can be reported: its token is in the tab, with another   *)
(* client, or on its way, and the tab does not replace the one by which a  *)
(* task was started.  A task is left running that nobody can report only   *)
(* by a demo whose answer comes when the tab does not wait for it or       *)
(* sessionStorage does not take its token, and by closing the tab.  A      *)
(* claim of which the same is true is never started.                       *)
Known(t) ==
  LET token == tasks[t].claim_token
  IN  \/ stored[t] = token
      \/ token \in theirs
      \/ \E r \in Request : requests[r].task = t /\ requests[r].token = token

StartedTasksAreReachable ==
  \A t \in TaskId :
    tasks[t].status = "running" /\ ~Known(t) => tasks[t].claim_token \in dropped
=============================================================================
