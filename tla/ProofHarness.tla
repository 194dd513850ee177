----------------------------- MODULE ProofHarness -----------------------------
(***************************************************************************)
(* The multiprocess proofs (src/scripts/run_concurrency_proof.py and       *)
(* run_idempotency_proof.py): a parent starts child processes, lets them   *)
(* attack the service at the same moment, collects what they were answered *)
(* and judges it.  The claim proof repeats this round by round between two *)
(* barriers; the idempotency proof is one round without them.  Children    *)
(* crash, hang, fail to start or to connect; every wait can time out, but  *)
(* not the one for the sleepers of a barrier when it opens or breaks.      *)
(*                                                                         *)
(* The service is the thing on trial: it may be sound, so that one call of *)
(* a round wins and the table says so, or do anything.                     *)
(***************************************************************************)
EXTENDS Naturals, FiniteSets

CONSTANTS
  Child,     \* the processes of the proof
  MaxRound,  \* rounds of the claim proof
  NULL,
  MaxFault   \* bound: crashes and failures of the machine

(* "raised" is what the parent does instead of judging.                    *)
Verdict == {"pass", "fail", "raised"}

ASSUME HarnessAssumption ==
  /\ Child # {} /\ IsFiniteSet(Child)
  /\ NULL \notin Child \cup Verdict
  /\ {MaxRound, MaxFault} \subseteq Nat \ {0}

VARIABLES
  kind,       \* which of the two proofs runs
  sound,      \* whether the service does what it should
  parent,     \* what the parent is at, and in which round
  child,      \* the same for the children, and their ready_error
  barrier,    \* the state of the three barriers
  readyQueue, readyRecords,  \* children that say they are ready; those read
  resultQueue, results,      \* messages under way; those read
  owner,      \* by the table, who holds the task of each round, or has the row
  wins,       \* the calls the service let win, as they happened
  survivors,  \* children that could not be terminated
  verdict,    \* NULL until the parent is over
  faults, timedOut

machine == <<faults, timedOut>>
service == <<owner, wins>>
vars == <<kind, sound, parent, child, barrier, readyQueue, readyRecords, resultQueue, results,
          service, survivors, verdict, machine>>

Rounds  == IF kind = "claim" THEN 1..MaxRound ELSE {1}
Barrier == {"ready", "start", "finish"}

(* A worker_error has no round; a child sends nothing after it.            *)
NoRound == MaxRound + 1
Message == [child : Child, round : 1..NoRound, won : BOOLEAN, error : BOOLEAN]

ParentState == [pc : {"starting", "reading ready", "creating", "collecting", "aborting", "cleaning",
                      "over"} \cup Barrier,
                round : 0..MaxRound, failed : BOOLEAN]
ChildState  == [pc : {"unborn", "booting", "calling", "ended"} \cup Barrier,
                round : 0..MaxRound, error : BOOLEAN, dead : BOOLEAN]

Started(c) == child[c].pc # "unborn"
Alive(c)   == child[c].pc \notin {"unborn", "ended"} /\ ~child[c].dead
At(c, pc)  == child[c].pc = pc /\ ~child[c].dead

Parent(pc) == parent' = [parent EXCEPT !.pc = pc]
Become(c, state) == child' = [child EXCEPT ![c] = state]

-----------------------------------------------------------------------------
(* Barriers.  The last of the parties to come opens it, then each leaves   *)
(* as soon as it is scheduled; one that finds it broken, by a timeout or   *)
(* by an abort, raises, also when it had been opened before.  A child that *)
(* dies inside stays counted.                                              *)
(*                                                                         *)
(* Who opens or breaks a barrier holds its lock and waits, without a       *)
(* timeout, until every sleeper has woken.  So a child killed in its sleep *)
(* there, or stopped for good, or killed with the lock in its hands, jams  *)
(* it: nobody opens, leaves or breaks it any more.  One that dies before   *)
(* it entered, or between its waking and its leaving, does not.            *)

Inside(b) == {c \in Child : child[c].pc = b}

Jammed == {b \in Barrier : barrier[b] = "jammed"}

Open(b) ==
  /\ barrier[b] = "filling"
  /\ parent.pc = b /\ \A c \in Child : At(c, b)
  /\ barrier' = [barrier EXCEPT ![b] = "draining"]
  /\ UNCHANGED <<kind, sound, parent, child, readyQueue, readyRecords, resultQueue, results,
                 service, survivors, verdict, machine>>

AfterLeaving(b, empty) ==
  IF empty THEN [barrier EXCEPT ![b] = "filling"] ELSE barrier

ParentLeaves(b) ==
  /\ parent.pc = b /\ barrier[b] = "draining"
  /\ parent' = [parent EXCEPT !.pc = IF b = "start" THEN "finish"
                                     ELSE IF b = "ready" /\ kind = "claim" THEN "creating"
                                     ELSE "collecting",
                              !.round = IF b = "ready" THEN 1 ELSE @]
  /\ barrier' = AfterLeaving(b, Inside(b) = {})
  /\ UNCHANGED <<kind, sound, child, readyQueue, readyRecords, resultQueue, results,
                 service, survivors, verdict, machine>>

(* After the last finish barrier the child's loop is over.                 *)
NextPc(c, b) ==
  IF b = "start" \/ kind = "idempotency" THEN "calling"
  ELSE IF b = "ready" \/ child[c].round < MaxRound THEN "start"
  ELSE "ended"

ChildLeaves(c, b) ==
  /\ At(c, b) /\ barrier[b] = "draining"
  /\ Become(c, [child[c] EXCEPT !.pc = NextPc(c, b),
                                !.round = IF NextPc(c, b) = "ended" THEN @
                                          ELSE IF b = "start" THEN @ ELSE @ + 1])
  /\ barrier' = AfterLeaving(b, Inside(b) = {c} /\ parent.pc # b)
  /\ UNCHANGED <<kind, sound, parent, readyQueue, readyRecords, resultQueue, results,
                 service, survivors, verdict, machine>>

WorkerError(c) == [child |-> c, round |-> NoRound, won |-> FALSE, error |-> TRUE]

ChildRaises(c, b) ==
  /\ At(c, b) /\ barrier[b] = "broken"
  /\ Become(c, [child[c] EXCEPT !.pc = "ended"])
  /\ resultQueue' = resultQueue \cup {WorkerError(c)}
  /\ UNCHANGED <<kind, sound, parent, barrier, readyQueue, readyRecords, results,
                 service, survivors, verdict, machine>>

(* Whatever the parent raises, and its success too, leads to the cleanup,  *)
(* which first aborts the barriers one after the other; a jammed one holds *)
(* it up for ever.                                                         *)
AbortedBefore == [ready |-> {}, start |-> {"ready"}, finish |-> {"ready", "start"}]

Clean(failed) ==
  /\ parent' = [parent EXCEPT !.pc = IF Jammed = {} THEN "cleaning" ELSE "aborting",
                              !.failed = failed]
  /\ barrier' = [b \in Barrier |-> IF Jammed \cap (AbortedBefore[b] \cup {b}) = {}
                                   THEN "broken" ELSE barrier[b]]

ParentRaises ==
  /\ parent.pc \in Barrier /\ barrier[parent.pc] = "broken"
  /\ Clean(TRUE)
  /\ UNCHANGED <<kind, sound, child, readyQueue, readyRecords, resultQueue, results,
                 service, survivors, verdict, machine>>

(* A party that has waited too long breaks the barrier for everybody.      *)
BarrierTimesOut(b) ==
  /\ barrier[b] = "filling"
  /\ barrier' = [barrier EXCEPT ![b] = "broken"]
  /\ timedOut' = TRUE
  /\ UNCHANGED <<kind, sound, parent, child, readyQueue, readyRecords, resultQueue, results,
                 service, survivors, verdict, faults>>

-----------------------------------------------------------------------------
(* A child.                                                                *)

(* It connects, says whether it could, and waits.                          *)
Boot(c) ==
  /\ At(c, "booting")
  /\ \E failed \in BOOLEAN :
       /\ failed => faults < MaxFault
       /\ faults' = IF failed THEN faults + 1 ELSE faults
       /\ Become(c, [child[c] EXCEPT !.pc = "ready", !.error = failed])
  /\ readyQueue' = readyQueue \cup {c}
  /\ UNCHANGED <<kind, sound, parent, barrier, readyRecords, resultQueue, results,
                 service, survivors, verdict, timedOut>>

(* A sound service lets the first call of a round win; another one lets a  *)
(* call win or not, and enters whom it likes.                              *)
Answered(c, r, won) ==
  /\ sound => won = (owner[r] = NULL)
  /\ wins' = IF won THEN wins \cup {<<r, c>>} ELSE wins
  /\ owner' \in IF sound THEN {[owner EXCEPT ![r] = IF won THEN c ELSE @]}
                ELSE {owner, [owner EXCEPT ![r] = c]}

(* The call, and the message with its answer, or with the exception: the   *)
(* service may have done its part before it was raised.                    *)
Call(c) ==
  LET r == child[c].round
      Sends(won, error) ==
        resultQueue' = resultQueue \cup {[child |-> c, round |-> r, won |-> won, error |-> error]}
  IN  /\ At(c, "calling")
      /\ \/ child[c].error /\ Sends(FALSE, TRUE) /\ UNCHANGED <<service, faults>>
         \/ /\ ~child[c].error
            /\ \E won \in BOOLEAN : Answered(c, r, won) /\ Sends(won, FALSE)
            /\ UNCHANGED faults
         \/ /\ ~child[c].error
            /\ faults < MaxFault /\ faults' = faults + 1
            /\ Sends(FALSE, TRUE)
            /\ UNCHANGED service \/ \E won \in BOOLEAN : Answered(c, r, won)
      /\ Become(c, [child[c] EXCEPT !.pc = IF kind = "claim" THEN "finish" ELSE "ended"])
      /\ UNCHANGED <<kind, sound, parent, barrier, readyQueue, readyRecords, results,
                     survivors, verdict, timedOut>>

(* It is killed, or stopped for good; what its queues had not written yet  *)
(* is lost, and the barrier it is at may be jammed.                        *)
Crash(c) ==
  /\ Alive(c)
  /\ faults < MaxFault /\ faults' = faults + 1
  /\ Become(c, [child[c] EXCEPT !.dead = TRUE])
  /\ resultQueue' \in {resultQueue, {m \in resultQueue : m.child # c}}
  /\ readyQueue' \in {readyQueue, readyQueue \ {c}}
  /\ \/ UNCHANGED barrier
     \/ \E b \in Barrier : child[c].pc = b /\ barrier' = [barrier EXCEPT ![b] = "jammed"]
  /\ UNCHANGED <<kind, sound, parent, readyRecords, results, service, survivors, verdict,
                 timedOut>>

-----------------------------------------------------------------------------
(* The parent.                                                             *)

(* It starts the children one by one; start may raise.                     *)
StartChild(c) ==
  /\ parent.pc = "starting" /\ ~Started(c)
  /\ Become(c, [child[c] EXCEPT !.pc = "booting"])
  /\ IF \A d \in Child \ {c} : Started(d) THEN Parent("reading ready") ELSE UNCHANGED parent
  /\ UNCHANGED <<kind, sound, barrier, readyQueue, readyRecords, resultQueue, results,
                 service, survivors, verdict, machine>>

StartFails ==
  /\ parent.pc = "starting"
  /\ faults < MaxFault /\ faults' = faults + 1
  /\ Clean(TRUE)
  /\ UNCHANGED <<kind, sound, child, readyQueue, readyRecords, resultQueue, results,
                 service, survivors, verdict, timedOut>>

ReadReady ==
  /\ parent.pc = "reading ready"
  /\ \E c \in readyQueue :
       readyQueue' = readyQueue \ {c} /\ readyRecords' = readyRecords \cup {c}
  /\ IF readyRecords' # Child THEN UNCHANGED <<parent, barrier>>
     ELSE IF \E c \in Child : child[c].error THEN Clean(TRUE)
     ELSE Parent("ready") /\ UNCHANGED barrier
  /\ UNCHANGED <<kind, sound, child, resultQueue, results, service, survivors, verdict, machine>>

(* A task for the round.                                                   *)
CreateTask ==
  /\ parent.pc = "creating"
  /\ Parent("start")
  /\ UNCHANGED <<kind, sound, child, barrier, readyQueue, readyRecords, resultQueue, results,
                 service, survivors, verdict, machine>>

(* It takes as many messages as there are children, whatever they are; the *)
(* messages of a child come in order.                                      *)
Collected == Cardinality(results) - (parent.round - 1) * Cardinality(Child)

Collect ==
  /\ parent.pc = "collecting"
  /\ \E m \in resultQueue :
       /\ \A n \in resultQueue : n.child = m.child => m.round <= n.round
       /\ resultQueue' = resultQueue \ {m}
       /\ results' = results \cup {m}
  /\ IF Collected + 1 < Cardinality(Child) THEN UNCHANGED <<parent, barrier>>
     ELSE IF parent.round + 1 \in Rounds
     THEN parent' = [parent EXCEPT !.pc = "creating", !.round = @ + 1] /\ UNCHANGED barrier
     ELSE Clean(FALSE)
  /\ UNCHANGED <<kind, sound, child, readyQueue, readyRecords, service, survivors, verdict, machine>>

ReadTimesOutFault ==
  /\ parent.pc = "reading ready" /\ readyQueue = {}
  /\ timedOut' = TRUE
  /\ Clean(TRUE)
  /\ UNCHANGED <<kind, sound, child, readyQueue, readyRecords, resultQueue, results,
                 service, survivors, verdict, faults>>
ReadTimesOut ==
  /\ \/ parent.pc = "reading ready" /\ readyQueue = {}
     \/ parent.pc = "collecting" /\ resultQueue = {}
  /\ timedOut' = TRUE
  /\ Clean(TRUE)
  /\ UNCHANGED <<kind, sound, child, readyQueue, readyRecords, resultQueue, results,
                 service, survivors, verdict, faults>>

(* _shutdown_started_processes: a child that has not ended after a while   *)
(* is terminated, and one that survives that is an error of the cleanup.   *)

Terminate(c) ==
  /\ parent.pc = "cleaning" /\ Alive(c) /\ c \notin survivors
  /\ timedOut' = TRUE
  /\ \/ Become(c, [child[c] EXCEPT !.dead = TRUE]) /\ UNCHANGED <<survivors, faults>>
     \/ /\ faults < MaxFault /\ faults' = faults + 1
        /\ survivors' = survivors \cup {c} /\ UNCHANGED child
  /\ resultQueue' \in {resultQueue, {m \in resultQueue : m.child # c}}
  /\ UNCHANGED <<kind, sound, parent, barrier, readyQueue, readyRecords, results, service, verdict>>

-----------------------------------------------------------------------------
(* The verdict, on the messages that were read and those that are left.    *)

Messages == results \cup resultQueue

Pairs == {<<m.round, m.child>> : m \in Messages}

WinnersOfFault(r) == {m.child : m \in {n \in Messages : n.round <= r /\ n.won}}
WinnersOf(r) == {m.child : m \in {n \in Messages : n.round = r /\ n.won}}

(* All results are there, nobody complains, nobody exited but with zero.   *)
CompleteFault == Pairs = Rounds \X Child
Complete ==
  /\ Pairs = Rounds \X Child
  /\ \A m \in Messages : ~m.error
  /\ survivors = {} /\ \A c \in Child : ~child[c].dead

(* One winner in each round, the one in the table; the rows of the         *)
(* execution log do not say which process wrote them.                      *)
OneWinnerEach ==
  \A r \in Rounds :
    /\ Cardinality(WinnersOf(r)) = 1 /\ owner[r] # NULL
    /\ kind = "claim" => owner[r] \in WinnersOf(r)

(* It looks at more: tokens, other rows, reports that come late.           *)
OtherChecksFail == ~sound

Judge ==
  /\ parent.pc = "cleaning"
  /\ \A c \in Child : Alive(c) => c \in survivors
  /\ Parent("over")
  /\ verdict' \in IF parent.failed THEN {"raised"}
                  ELSE IF Complete /\ OneWinnerEach
                  THEN {"pass"} \cup {v \in {"fail"} : OtherChecksFail}
                  ELSE {"fail"}
  /\ UNCHANGED <<kind, sound, child, barrier, readyQueue, readyRecords, resultQueue, results,
                 service, survivors, machine>>

Init ==
  /\ kind \in {"claim", "idempotency"} /\ sound \in BOOLEAN
  /\ parent = [pc |-> "starting", round |-> 0, failed |-> FALSE]
  /\ child = [c \in Child |-> [pc |-> "unborn", round |-> 0, error |-> FALSE, dead |-> FALSE]]
  /\ barrier = [b \in Barrier |-> "filling"]
  /\ readyQueue = {} /\ readyRecords = {} /\ resultQueue = {} /\ results = {}
  /\ owner = [r \in 1..MaxRound |-> NULL] /\ wins = {}
  /\ survivors = {} /\ verdict = NULL
  /\ faults = 0 /\ timedOut = FALSE

ParentStep ==
  \/ \E c \in Child : StartChild(c) \/ Terminate(c)
  \/ StartFails \/ ReadReady \/ CreateTask \/ Collect \/ ReadTimesOut \/ Judge
  \/ ParentRaises
  \/ \E b \in Barrier :
       ParentLeaves(b) \/ Open(b) \/ (parent.pc = b /\ BarrierTimesOut(b))

ChildStep(c) ==
  \/ Boot(c) \/ Call(c) \/ Crash(c)
  \/ \E b \in Barrier :
       ChildLeaves(c, b) \/ ChildRaises(c, b) \/ (At(c, b) /\ BarrierTimesOut(b))

Next == ParentStep \/ \E c \in Child : ChildStep(c)

Spec == Init /\ [][Next]_vars

(* The parent goes on: its own waits have timeouts, and of the children    *)
(* only this is asked, that one asleep in a barrier wakes when it should   *)
(* (unless it is dead or stopped for good, which is Crash).                *)
FairSpec == Spec /\ WF_vars(ParentStep)

-----------------------------------------------------------------------------
TypeOK ==
  /\ kind \in {"claim", "idempotency"} /\ sound \in BOOLEAN
  /\ parent \in ParentState
  /\ child \in [Child -> ChildState]
  /\ barrier \in [Barrier -> {"filling", "draining", "broken", "jammed"}]
  /\ readyQueue \subseteq Child /\ readyRecords \subseteq Child
  /\ resultQueue \subseteq Message /\ results \subseteq Message
  /\ owner \in [1..MaxRound -> Child \cup {NULL}]
  /\ wins \subseteq (1..MaxRound) \X Child
  /\ survivors \subseteq Child
  /\ verdict \in Verdict \cup {NULL}

(* A proof that passes is one: whatever the service did and whichever      *)
(* child crashed or answered late, every round had exactly one call that   *)
(* won, by what the service really did, and the table says so too.         *)
PassMeansOneWinner ==
  verdict = "pass" =>
    \A r \in Rounds :
      \E c \in Child :
        /\ {d \in Child : <<r, d>> \in wins} = {c}
        /\ owner[r] # NULL
        /\ kind = "claim" => owner[r] = c

(* A proof of a sound service fails only for a fault of the machine, a     *)
(* timeout, or a child that had not left the last barrier when the parent  *)
(* aborted it.                                                             *)
FailuresHaveACause ==
  verdict \in {"fail", "raised"} /\ sound /\ faults = 0 /\ ~timedOut =>
    /\ verdict = "fail" /\ kind = "claim"
    /\ \E m \in Messages : m.error
    /\ \A m \in Messages : m.error => m.round = NoRound /\ child[m.child].round = MaxRound

(* Whichever child hangs or dies wherever, the proof comes to its end,     *)
(* unless the parent is held up for ever at a barrier, or where it aborts  *)
(* them; and that only a child does that died at that same barrier.        *)
HeldUpBy(c) ==
  /\ child[c].dead /\ child[c].pc \in Jammed
  /\ parent.pc \in {child[c].pc, "aborting"}

ProofEnds == <>(parent.pc = "over" \/ \E c \in Child : HeldUpBy(c))

-----------------------------------------------------------------------------
(* What the program says of itself and does not do.                        *)

(* "assert stats["errors"] == []", "assert stats["passed"] is True": the   *)
(* proof of the service as it is passes on a machine that does its work.   *)
SoundServicePasses ==
  verdict # NULL /\ sound /\ faults = 0 /\ ~timedOut => verdict = "pass"
=============================================================================
