------------------------------- MODULE Workers -------------------------------
(***************************************************************************)
(* Worker processes (src/app/worker.py, started by src/scripts/run_worker.py *)
(* or by the dashboard) against the board of TaskBoard: each polls for a   *)
(* task, starts it, executes its steps one after the other and reports     *)
(* each.  Between any two of its transactions another process, the         *)
(* operator or a crash may intervene.                                      *)
(*                                                                         *)
(* Executing a step is what the sleep of _execute_task stands for: a side  *)
(* effect outside the database that no rollback undoes.  effects counts    *)
(* them; overdue says for whom the deadline has passed on the wall clock   *)
(* at some time since it asked.  No code reads the two.                    *)
(***************************************************************************)
EXTENDS TaskBoard

CONSTANTS
  Process,     \* worker processes
  WorkerIdOf,  \* the worker_id a process runs under; two may share one
  Reliable,    \* the processes that are never killed
  MaxKill      \* bound: kills in a behaviour

ASSUME ProcessAssumption ==
  /\ WorkerIdOf \in [Process -> Workers]
  /\ Reliable \subseteq Process
  /\ MaxKill \in Nat

VARIABLES
  proc,     \* the local state of each process
  overdue,  \* the processes whose deadline the clock has been past
  effects,  \* how often each step of each task was executed
  kills     \* how many processes were killed

procVars == <<proc, overdue, effects, kills>>
allVars  == <<vars, procVars>>

ProcessState ==
  [pc       : {"polling", "claiming", "granted", "claimed", "executing",
               "performed", "killed", "aborted"},
   deadline : Nat,                   \* the lease deadline it asks for
   task     : TaskId \cup {NULL},
   token    : Token \cup {NULL},
   step     : StepSeq \cup {NULL}]   \* task["current_step"]

Polling == [pc |-> "polling", deadline |-> 0, task |-> NULL, token |-> NULL, step |-> NULL]

(* NotFoundError is not caught by the loop: the process ends.              *)
Aborted == [Polling EXCEPT !.pc = "aborted"]
Killed  == [Polling EXCEPT !.pc = "killed"]

(* It has asked for a task and not come to start yet.                      *)
BeforeStart == {"claiming", "granted", "claimed"}

Become(p, state) ==
  /\ proc' = [proc EXCEPT ![p] = state]
  /\ overdue' = IF state.pc \in BeforeStart THEN overdue ELSE overdue \ {p}

(* Every reading of the clock counts, also when it is set back afterwards. *)
NoteDeadlines ==
  /\ overdue' = overdue \cup {p \in Process : /\ proc[p].pc \in BeforeStart
                                            /\ proc[p].deadline < clock'}
  /\ UNCHANGED <<proc, effects, kills>>

-----------------------------------------------------------------------------
(* claim_next_task computes the deadline, waits for the write lock, commits *)
(* the claim and only then reads the task it returns.                      *)

AskForTask(p) ==
  /\ proc[p].pc = "polling"
  /\ \E lease \in Leases :
       Become(p, [Polling EXCEPT !.pc = "claiming", !.deadline = LeaseExpiry(lease, 0)])
  /\ UNCHANGED <<vars, effects, kills>>

Claim(p) ==
  /\ proc[p].pc = "claiming"
  /\ \/ \E t \in TaskId :
          /\ ClaimTask(WorkerIdOf[p], proc[p].deadline, t)
          /\ Become(p, [proc[p] EXCEPT !.pc = "granted", !.task = t, !.token = nextToken])
     \/ ClaimNothing /\ Become(p, Polling)
  /\ UNCHANGED <<effects, kills>>

ReadGrant(p) ==
  /\ proc[p].pc = "granted"
  /\ Become(p, IF Exists(proc[p].task) THEN [proc[p] EXCEPT !.pc = "claimed"] ELSE Aborted)
  /\ UNCHANGED <<vars, effects, kills>>

-----------------------------------------------------------------------------
(* _execute_task: the task as the transaction just committed returned it   *)
(* says which step comes next; without one the loop is left.               *)

ContinueFault(p, t) ==
  Become(p, IF tasks'[t].status = "running"
            THEN [proc[p] EXCEPT !.pc = "executing",
                                 !.step = IF @ = NULL THEN 1 ELSE @ + 1]
            ELSE Polling)
Continue(p, t) ==
  Become(p, IF tasks'[t].status = "running" /\ \E s \in StepSeq : steps'[t][s] = "running"
            THEN [proc[p] EXCEPT !.pc = "executing",
                                 !.step = CHOOSE s \in StepSeq : steps'[t][s] = "running"]
            ELSE Polling)

(* A call on a wiped task ends the process; one refused with ConflictError *)
(* sends it back to polling.                                               *)
RejectedFault(p, t) == Become(p, Aborted) /\ UNCHANGED vars
Rejected(p, t) == Become(p, IF Exists(t) THEN Polling ELSE Aborted) /\ UNCHANGED vars

Start(p) ==
  LET t == proc[p].task
      w == WorkerIdOf[p]
  IN  /\ proc[p].pc = "claimed"
      /\ \/ StartTask(t, w, proc[p].token) /\ Continue(p, t)
         \/ RetryStart(t, w, proc[p].token) /\ Continue(p, t)
         \/ /\ ~(CredentialsMatch(t, w, proc[p].token)
                 /\ tasks[t].status \in {"claimed", "running"})
            /\ Rejected(p, t)
      /\ UNCHANGED <<effects, kills>>

Perform(p) ==
  /\ proc[p].pc = "executing"
  /\ effects' = [effects EXCEPT ![proc[p].task][proc[p].step] = @ + 1]
  /\ Become(p, [proc[p] EXCEPT !.pc = "performed"])
  /\ UNCHANGED <<vars, kills>>

Report(p) ==
  LET t == proc[p].task
      s == proc[p].step
      w == WorkerIdOf[p]
  IN  /\ proc[p].pc = "performed"
      /\ \/ \E outcome \in Outcome :
              /\ \/ CompleteStep(t, s, w, proc[p].token, outcome)
                 \/ DuplicateReport(t, s, w, proc[p].token, outcome)
              /\ Continue(p, t)
         \/ /\ ~(CredentialsMatch(t, w, proc[p].token)
                 /\ (logs[t][s] # NULL \/ steps[t][s] = "running"))
            /\ Rejected(p, t)
      /\ UNCHANGED <<effects, kills>>

-----------------------------------------------------------------------------
(* A process is killed at any point: terminate, a power cut, a lock wait   *)
(* that timed out.  Another one may be started in its place, under the     *)
(* same worker_id.                                                         *)

Kill(p) ==
  /\ p \notin Reliable
  /\ proc[p].pc \notin {"killed", "aborted"}
  /\ kills < MaxKill
  /\ kills' = kills + 1
  /\ Become(p, Killed)
  /\ UNCHANGED <<vars, effects>>

Respawn(p) ==
  /\ proc[p].pc \in {"killed", "aborted"}
  /\ Become(p, Polling)
  /\ UNCHANGED <<vars, effects, kills>>

WorkerStep(p) ==
  AskForTask(p) \/ Claim(p) \/ ReadGrant(p) \/ Start(p) \/ Perform(p) \/ Report(p)

(* What the operator does meanwhile.  Groups matter to start only and are  *)
(* left to TaskBoard.                                                      *)
Operator ==
  /\ \/ \E n \in StepSeq : CreateTask(NULL, n)
     \/ \E t \in TaskId : RequeueTask(t)
  /\ UNCHANGED procVars

WorkersInit ==
  /\ Init
  /\ proc = [p \in Process |-> Polling]
  /\ overdue = {}
  /\ effects = [t \in TaskId |-> [s \in StepSeq |-> 0]]
  /\ kills = 0

WorkersNext ==
  \/ \E p \in Process : WorkerStep(p) \/ Kill(p) \/ Respawn(p)
  \/ Operator
  \/ ResetAll /\ UNCHANGED procVars
  \/ (Tick \/ ClockSetBack) /\ NoteDeadlines

WorkersSpec == WorkersInit /\ [][WorkersNext]_allVars

-----------------------------------------------------------------------------
(* Fairness.  A process that is not killed keeps running its loop, and     *)
(* time passes: here the clock moves only while a claim waits to be        *)
(* started, which keeps a fair clock within MaxClock when there are        *)
(* MaxToken claims of the longest lease.  A reset, after which there is    *)
(* nothing left to promise, is not among these behaviours.                 *)

LeaseRunsDown ==
  /\ \E t \in TaskId : tasks[t].status = "claimed" /\ tasks[t].lease_expires_at >= clock
  /\ Tick
  /\ NoteDeadlines

SetBack == ClockSetBack /\ NoteDeadlines

TokensSpent == nextToken > MaxToken

(* Processes that ask for more claims than MaxToken would go on polling.   *)
BoundReached == TokensSpent /\ UNCHANGED allVars

FairNext ==
  \/ \E p \in Process : WorkerStep(p) \/ Kill(p) \/ Respawn(p)
  \/ Operator
  \/ LeaseRunsDown
  \/ SetBack
  \/ BoundReached

Fairness ==
  /\ \A p \in Reliable : WF_allVars(WorkerStep(p))
  /\ WF_allVars(LeaseRunsDown)
  /\ <>[][~SetBack]_allVars

FairSpec == WorkersInit /\ [][FairNext]_allVars /\ Fairness

-----------------------------------------------------------------------------
(* Invariants.                                                             *)

WorkersTypeOK ==
  /\ TypeOK
  /\ proc \in [Process -> ProcessState]
  /\ overdue \subseteq Process
  /\ effects \in [TaskId -> [StepSeq -> Nat]]
  /\ kills \in 0..MaxKill

Holds(p, t) ==
  proc[p].task = t /\ CredentialsMatch(t, WorkerIdOf[p], proc[p].token)

Busy(p, t) == proc[p].task = t /\ proc[p].pc \in {"executing", "performed"}

(* Nothing is executed twice behind the operator's back: crashes, lost     *)
(* leases and restarts under the same worker_id cannot make a step run     *)
(* again, only a manual requeue can, once each.                            *)
EffectsAreCounted ==
  \A t \in TaskId, s \in StepSeq :
    Exists(t) => effects[t][s] <= 1 + audit[t]["manual_requeue"]

(* Two processes execute the same task at the same time only after the     *)
(* operator took it from one of them.                                      *)
OneExecutor ==
  \A t \in TaskId, p, q \in Process :
    Busy(p, t) /\ Busy(q, t) /\ Exists(t) => p = q \/ audit[t]["manual_requeue"] > 0

(* The ledger never runs ahead of the world: a step with a report has been *)
(* executed, and the step under way is the one its holder is at.           *)
ReportsFollowEffects ==
  \A t \in TaskId, s \in StepSeq :
    /\ logs[t][s] # NULL => effects[t][s] > 0
    /\ \A p \in Process : Busy(p, t) /\ Holds(p, t) => steps[t][proc[p].step] = "running"

(* A process that comes to start before the clock has ever been past its   *)
(* deadline is not refused: no other claim, under its own worker_id or     *)
(* another, takes the task.  That the clock reads earlier again is not     *)
(* enough: the claim may have been reclaimed before it was set back.       *)
PunctualWorkersKeepTheirClaim ==
  \A p \in Process :
    LET t == proc[p].task
    IN  proc[p].pc \in {"granted", "claimed"} /\ Exists(t) /\ p \notin overdue
        => (Holds(p, t) /\ tasks[t].status = "claimed") \/ audit[t]["manual_requeue"] > 0

(* A worker loop ends by an exception only after a reset wiped its task.   *)
OnlyResetAborts ==
  (\E p \in Process : proc[p].pc = "aborted") => resetLogged

-----------------------------------------------------------------------------
(* Liveness, with at least one reliable process.                           *)

(* Every queued task is started, whoever dies holding it and however often *)
(* it is claimed in vain before: an expired claim does not block it.       *)
QueuedTasksAreStarted ==
  \A t \in TaskId :
    tasks[t].status \in {"pending", "claimed"} ~>
       tasks[t].status \notin {"pending", "claimed"} \/ TokensSpent

(* A started task whose process lives comes to its end, unless the         *)
(* operator takes it from the token it was started with.                   *)
StartedTasksFinish ==
  \A t \in TaskId, k \in Token :
    (\E p \in Reliable : Busy(p, t) /\ Holds(p, t) /\ proc[p].token = k) ~>
       tasks[t].claim_token # k \/ tasks[t].status \in {"done", "failed"}

-----------------------------------------------------------------------------
(* What the program says of itself and does not do.                        *)

(* "A task executed halfway is reclaimed and reassigned when its lease     *)
(* expires", the dashboard says when workers are stopped: a running task   *)
(* would leave that state sooner or later.  start_task has cleared its     *)
(* deadline, and only claimed tasks are reclaimed.                         *)
HalfExecutedTasksAreReclaimed ==
  \A t \in TaskId : tasks[t].status = "running" ~> tasks[t].status # "running"
=============================================================================
