---------------------------- MODULE TaskLifecycle ----------------------------
(***************************************************************************)
(* What the board promises of a task, whoever the workers are and whatever *)
(* they send: a task is queued, granted to one credential at a time,       *)
(* executed step by step in the order of its plan with the parameters of   *)
(* its first start, and ends succeeded or failed.  Credentials are spent   *)
(* when they are granted.  An unstarted grant may be withdrawn together    *)
(* with others when the next one is made; a started one only on its own.   *)
(* A wiped task is gone and its id is not used again.                      *)
(*                                                                         *)
(* There are no workers, leases, clocks, groups, step statuses or audit    *)
(* rows here: TaskBoard has them and implements this specification.        *)
(***************************************************************************)
EXTENDS Naturals

CONSTANTS
  Task,        \* task ids
  StepNumber,  \* step sequence numbers, a set of natural numbers
  Credential,  \* claim tokens
  Parameters,  \* values the frozen parameters can have
  None         \* no credential, no report, no parameters

VARIABLES
  phase,       \* where each task is
  credential,  \* the credential it is granted to
  plan,        \* the steps it has
  report,      \* the one report each of its steps has
  params,      \* the parameters its first start froze
  spent        \* the credentials granted so far

lifecycleVars == <<phase, credential, plan, report, params, spent>>

Result == {"success", "failure"}

Init ==
  /\ phase = [t \in Task |-> "none"]
  /\ credential = [t \in Task |-> None]
  /\ plan = [t \in Task |-> {}]
  /\ report = [t \in Task |-> [s \in StepNumber |-> None]]
  /\ params = [t \in Task |-> None]
  /\ spent = {}

(* A new task is queued with its plan.                                     *)
Submit(t, P) ==
  /\ phase[t] = "none"
  /\ phase' = [phase EXCEPT ![t] = "queued"]
  /\ plan' = [plan EXCEPT ![t] = P]
  /\ UNCHANGED <<credential, report, params, spent>>

(* A new task is granted as it is submitted.                               *)
SubmitGranted(t, P, c) ==
  /\ phase[t] = "none"
  /\ c \notin spent
  /\ phase' = [phase EXCEPT ![t] = "held"]
  /\ plan' = [plan EXCEPT ![t] = P]
  /\ credential' = [credential EXCEPT ![t] = c]
  /\ spent' = spent \cup {c}
  /\ UNCHANGED <<report, params>>

(* The unstarted grants in W are withdrawn.                                *)
Withdraw(W) ==
  /\ \A t \in W : phase[t] = "held"
  /\ phase' = [t \in Task |-> IF t \in W THEN "queued" ELSE phase[t]]
  /\ credential' = [t \in Task |-> IF t \in W THEN None ELSE credential[t]]
  /\ UNCHANGED <<plan, report, params, spent>>

(* They are withdrawn and a waiting task is granted to an unspent credential.*)
Grant(W, t, c) ==
  /\ \A u \in W : phase[u] = "held"
  /\ phase[t] = "queued" \/ t \in W
  /\ c \notin spent
  /\ phase' = [u \in Task |-> IF u = t THEN "held"
                              ELSE IF u \in W THEN "queued" ELSE phase[u]]
  /\ credential' = [u \in Task |-> IF u = t THEN c
                                   ELSE IF u \in W THEN None ELSE credential[u]]
  /\ spent' = spent \cup {c}
  /\ UNCHANGED <<plan, report, params>>

(* The first start freezes the parameters, a later one finds them frozen.  *)
Begin(t, p) ==
  /\ phase[t] = "held"
  /\ params[t] \in {None, p}
  /\ \E s \in plan[t] : report[t][s] = None
  /\ phase' = [phase EXCEPT ![t] = "executing"]
  /\ params' = [params EXCEPT ![t] = p]
  /\ UNCHANGED <<credential, plan, report, spent>>

(* The first unreported step of an executing task is reported.             *)
Report(t, s, r) ==
  /\ phase[t] = "executing"
  /\ s \in plan[t]
  /\ report[t][s] = None
  /\ \A q \in plan[t] : q < s => report[t][q] = "success"
  /\ report' = [report EXCEPT ![t][s] = r]
  /\ phase' = [phase EXCEPT ![t] =
                 IF r = "failure" THEN "failed"
                 ELSE IF \A q \in plan[t] : q <= s THEN "succeeded"
                 ELSE "executing"]
  /\ UNCHANGED <<credential, plan, params, spent>>

(* The operator takes a granted task back, started or not.                 *)
TakeBack(t) ==
  /\ phase[t] \in {"held", "executing"}
  /\ phase' = [phase EXCEPT ![t] = "queued"]
  /\ credential' = [credential EXCEPT ![t] = None]
  /\ UNCHANGED <<plan, report, params, spent>>

(* The operator wipes the board.                                           *)
Wipe ==
  /\ phase' = [t \in Task |-> IF phase[t] = "none" THEN "none" ELSE "gone"]
  /\ credential' = [t \in Task |-> None]
  /\ plan' = [t \in Task |-> {}]
  /\ report' = [t \in Task |-> [s \in StepNumber |-> None]]
  /\ params' = [t \in Task |-> None]
  /\ UNCHANGED spent

Next ==
  \/ \E t \in Task, P \in SUBSET StepNumber :
       Submit(t, P) \/ \E c \in Credential : SubmitGranted(t, P, c)
  \/ \E W \in SUBSET Task :
       Withdraw(W) \/ \E t \in Task, c \in Credential : Grant(W, t, c)
  \/ \E t \in Task : TakeBack(t) \/ \E p \in Parameters : Begin(t, p)
  \/ \E t \in Task, s \in StepNumber, r \in Result : Report(t, s, r)
  \/ Wipe

Spec == Init /\ [][Next]_lifecycleVars
=============================================================================
