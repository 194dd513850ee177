-------------------------- MODULE ProofHarnessProofs --------------------------
(***************************************************************************)
(* For any number of children, rounds and faults, and any service: a proof *)
(* that passes certifies what it says.  The invariant relates the messages *)
(* to what the service did: a child makes one call a round, and a message  *)
(* without an error tells how it ended.                                    *)
(*                                                                         *)
(* And the other way round: a sound service on a machine that does its     *)
(* work fails only for a child that was still at the last barrier when the *)
(* parent aborted it.  There the children and the parent go from barrier   *)
(* to barrier together, and the parent cleans up when it has exactly one   *)
(* message of each child and round.                                        *)
(***************************************************************************)
EXTENDS ProofHarness, FiniteSetTheorems, TLAPS

(* A child's place: before the first round, in one, and in those of the    *)
(* claim proof only at the barriers of a round.                            *)
PlacesAgree ==
  \A c \in Child :
    /\ child[c].pc \in {"unborn", "booting", "ready"} => child[c].round = 0
    /\ child[c].pc \in {"start", "calling", "finish"} => child[c].round # 0
    /\ child[c].pc \in {"start", "finish"} => kind = "claim"

(* The child has nothing more to call in that round.                       *)
Called(c, r) ==
  \/ r < child[c].round
  \/ r = child[c].round /\ child[c].pc \in {"finish", "ended"}

CallsAreOver ==
  /\ \A r \in 1..MaxRound, c \in Child : <<r, c>> \in wins => Called(c, r)
  /\ \A m \in Messages : ~m.error => Called(m.child, m.round)

MessagesTell ==
  \A m \in Messages : ~m.error => (m.won <=> <<m.round, m.child>> \in wins)

(* Nobody acts after a pass.                                               *)
PassIsLast ==
  verdict = "pass" =>
    /\ parent.pc = "over"
    /\ \A c \in Child : child[c].pc \in {"unborn", "ended"}

-----------------------------------------------------------------------------
(* Types and places.                                                       *)

ChildrenPlaced == child \in [Child -> ChildState] /\ PlacesAgree
BarrierState   == {"filling", "draining", "broken", "jammed"}
BarriersTyped  == barrier \in [Barrier -> BarrierState]
ParentPlaced   == parent \in ParentState /\ BarriersTyped

QueuesTyped ==
  /\ readyQueue \subseteq Child /\ readyRecords \subseteq Child
  /\ resultQueue \subseteq Message /\ results \subseteq Message

ServiceTyped ==
  /\ owner \in [1..MaxRound -> Child \cup {NULL}]
  /\ wins \subseteq (1..MaxRound) \X Child

EndTyped ==
  /\ kind \in {"claim", "idempotency"} /\ sound \in BOOLEAN
  /\ survivors \subseteq Child
  /\ verdict \in Verdict \cup {NULL}

Placed == ChildrenPlaced /\ ParentPlaced /\ QueuesTyped /\ ServiceTyped /\ EndTyped

THEOREM HarnessInitPlaced == Init => Placed
  <1> SUFFICES ASSUME Init PROVE Placed
    OBVIOUS
  <1> USE HarnessAssumption DEF Init
  <1>1. ChildrenPlaced
    BY DEF ChildrenPlaced, ChildState, PlacesAgree
  <1>2. ParentPlaced
    BY DEF ParentPlaced, BarriersTyped, BarrierState, ParentState, Barrier
  <1>3. QueuesTyped /\ ServiceTyped /\ EndTyped
    BY DEF QueuesTyped, ServiceTyped, EndTyped
  <1>4. QED
    BY <1>1, <1>2, <1>3 DEF Placed

LEMMA SomeRound == MaxRound \in Nat /\ 1 <= MaxRound
  BY HarnessAssumption DEF HarnessAssumption

(* A child that moves to a place there is leaves all of them placed.       *)
Place(s) ==
  /\ s \in ChildState
  /\ s.pc \in {"unborn", "booting", "ready"} => s.round = 0
  /\ s.pc \in {"start", "calling", "finish"} => s.round # 0
  /\ s.pc \in {"start", "finish"} => kind = "claim"

LEMMA ChildMoves ==
  ASSUME ChildrenPlaced, NEW c \in Child, NEW s, Place(s), Become(c, s), kind' = kind
  PROVE  ChildrenPlaced'
  <1>1. child' \in [Child -> ChildState]
    BY DEF ChildrenPlaced, Become, Place
  <1>2. ASSUME NEW d \in Child
        PROVE  child'[d] = IF d = c THEN s ELSE child[d]
    BY DEF ChildrenPlaced, Become
  <1>3. PlacesAgree'
    BY <1>2 DEF ChildrenPlaced, PlacesAgree, Place
  <1>4. QED
    BY <1>1, <1>3 DEF ChildrenPlaced

LEMMA ChildIsPlaced ==
  ASSUME ChildrenPlaced, NEW c \in Child
  PROVE  Place(child[c])
  BY DEF ChildrenPlaced, PlacesAgree, Place

(* The cleanup leaves the barriers as it may.                              *)
LEMMA CleanPlaced ==
  ASSUME ParentPlaced, NEW failed \in BOOLEAN, Clean(failed)
  PROVE  ParentPlaced'
  <1> USE DEF ParentPlaced, BarriersTyped
  <1>1. barrier' \in [Barrier -> BarrierState]
    BY DEF Clean, BarrierState
  <1>2. parent' \in ParentState
    <2> DEFINE pc == IF Jammed = {} THEN "cleaning" ELSE "aborting"
    <2>1. pc \in {"cleaning", "aborting"}
      OBVIOUS
    <2>2. parent' = [parent EXCEPT !.pc = pc, !.failed = failed]
      BY DEF Clean
    <2> HIDE DEF pc
    <2>3. QED
      BY <2>1, <2>2 DEF ParentState
  <1>3. QED
    BY <1>1, <1>2

LEMMA BarrierPlaced ==
  ASSUME Placed, NEW b \in Barrier,
         Open(b) \/ ParentLeaves(b) \/ ParentRaises \/ BarrierTimesOut(b)
  PROVE  Placed'
  <1>1. ParentPlaced'
    <2> USE DEF Placed, ParentPlaced, BarriersTyped
    <2>1. CASE Open(b)
      BY <2>1 DEF Open, BarrierState
    <2>2. CASE ParentLeaves(b)
      <3>1. barrier' \in [Barrier -> BarrierState]
        BY <2>2 DEF ParentLeaves, AfterLeaving, BarrierState
      <3>2. parent' \in ParentState
        <4> DEFINE pc == IF b = "start" THEN "finish"
                         ELSE IF b = "ready" /\ kind = "claim" THEN "creating" ELSE "collecting"
                   r == IF b = "ready" THEN 1 ELSE parent.round
        <4>1. pc \in {"finish", "creating", "collecting"} /\ r \in 0..MaxRound
          <5>1. 1 \in 0..MaxRound
            BY SomeRound
          <5>2. parent.round \in 0..MaxRound
            BY DEF ParentState
          <5>3. QED
            BY <5>1, <5>2
        <4>2. parent' = [parent EXCEPT !.pc = pc, !.round = r]
          BY <2>2 DEF ParentLeaves
        <4> HIDE DEF pc, r
        <4>3. QED
          BY <4>1, <4>2 DEF ParentState, Barrier
      <3>3. QED
        BY <3>1, <3>2
    <2>3. CASE ParentRaises
      BY <2>3, CleanPlaced DEF ParentRaises
    <2>4. CASE BarrierTimesOut(b)
      BY <2>4 DEF BarrierTimesOut, BarrierState
    <2>5. QED
      BY <2>1, <2>2, <2>3, <2>4
  <1>2. UNCHANGED <<kind, sound, child, readyQueue, readyRecords, resultQueue, results, service,
                    survivors, verdict>>
    BY DEF Open, ParentLeaves, ParentRaises, BarrierTimesOut, service
  <1>3. ChildrenPlaced' /\ QueuesTyped' /\ ServiceTyped' /\ EndTyped'
    BY <1>2 DEF Placed, ChildrenPlaced, PlacesAgree, QueuesTyped, ServiceTyped, EndTyped, service
  <1>4. QED
    BY <1>1, <1>3 DEF Placed

LEMMA ChildPlaced ==
  ASSUME Placed, NEW c \in Child, NEW b \in Barrier,
         ChildLeaves(c, b) \/ ChildRaises(c, b) \/ Boot(c) \/ Crash(c)
  PROVE  Placed'
  <1>1. UNCHANGED <<kind, sound, parent, results, service, survivors, verdict>>
    BY DEF ChildLeaves, ChildRaises, Boot, Crash, service
  <1>2. Place(child[c]) /\ ChildrenPlaced /\ HarnessAssumption
    BY ChildIsPlaced, HarnessAssumption DEF Placed, HarnessAssumption
  <1>3. ChildrenPlaced'
    <2>1. CASE ChildLeaves(c, b)
      <3> DEFINE s == [child[c] EXCEPT !.pc = NextPc(c, b),
                                       !.round = IF NextPc(c, b) = "ended" THEN @
                                                 ELSE IF b = "start" THEN @ ELSE @ + 1]
      <3>1. NextPc(c, b) \in {"calling", "start", "ended"}
        BY DEF NextPc
      <3>2. child[c].pc = b
        BY <2>1 DEF ChildLeaves, At
      <3>3. NextPc(c, b) # "ended" /\ b # "start" => child[c].round + 1 \in 1..MaxRound
        BY <1>2, <3>2 DEF NextPc, Place, ChildState, Barrier, HarnessAssumption
      <3>4. NextPc(c, b) = "start" => kind = "claim"
        BY DEF NextPc, EndTyped, Placed
      <3>5. b = "start" => child[c].round # 0
        BY <1>2, <3>2 DEF Place
      <3>6. s \in ChildState
        <4> DEFINE r == IF NextPc(c, b) = "ended" THEN child[c].round
                        ELSE IF b = "start" THEN child[c].round ELSE child[c].round + 1
        <4>1. r \in 0..MaxRound
          BY <1>2, <3>3 DEF Place, ChildState, HarnessAssumption
        <4>2. NextPc(c, b) \in {"unborn", "booting", "calling", "ended"} \cup Barrier
          BY <3>1 DEF Barrier
        <4> HIDE DEF r
        <4>3. [child[c] EXCEPT !.pc = NextPc(c, b), !.round = r] \in ChildState
          BY <1>2, <4>1, <4>2 DEF Place, ChildState
        <4>4. QED
          BY <4>3 DEF r
      <3>7. Place(s)
        BY <1>2, <3>1, <3>3, <3>4, <3>5, <3>6 DEF Place, ChildState
      <3>8. QED
        BY <1>1, <1>2, <2>1, <3>7, ChildMoves DEF ChildLeaves
    <2>2. CASE ChildRaises(c, b)
      <3>1. Place([child[c] EXCEPT !.pc = "ended"])
        BY <1>2 DEF Place, ChildState
      <3>2. QED
        BY <1>1, <1>2, <2>2, <3>1, ChildMoves DEF ChildRaises
    <2>3. CASE Boot(c)
      <3>1. child[c].pc = "booting"
        BY <2>3 DEF Boot, At
      <3>2. ASSUME NEW failed \in BOOLEAN
            PROVE  Place([child[c] EXCEPT !.pc = "ready", !.error = failed])
        BY <1>2, <3>1 DEF Place, ChildState, Barrier
      <3>3. QED
        BY <1>1, <1>2, <2>3, <3>2, ChildMoves DEF Boot
    <2>4. CASE Crash(c)
      <3>1. Place([child[c] EXCEPT !.dead = TRUE])
        BY <1>2 DEF Place, ChildState
      <3>2. QED
        BY <1>1, <1>2, <2>4, <3>1, ChildMoves DEF Crash
    <2>5. QED
      BY <2>1, <2>2, <2>3, <2>4
  <1>4. ParentPlaced'
    <2>1. barrier' = barrier \/ \E a \in Barrier, v \in BarrierState :
                                  barrier' = [barrier EXCEPT ![a] = v]
      BY DEF ChildLeaves, ChildRaises, Boot, Crash, AfterLeaving, BarrierState
    <2>2. barrier' \in [Barrier -> BarrierState]
      BY <2>1 DEF Placed, ParentPlaced, BarriersTyped
    <2>3. QED
      BY <1>1, <2>2 DEF Placed, ParentPlaced, BarriersTyped
  <1>5. QueuesTyped'
    <2>1. WorkerError(c) \in Message
      BY SomeRound DEF WorkerError, Message, NoRound
    <2>2. resultQueue' \subseteq resultQueue \cup {WorkerError(c)}
      BY DEF ChildLeaves, ChildRaises, Boot, Crash
    <2>3. readyQueue' \subseteq readyQueue \cup {c} /\ UNCHANGED <<readyRecords, results>>
      BY DEF ChildLeaves, ChildRaises, Boot, Crash
    <2>4. QED
      BY <2>1, <2>2, <2>3 DEF Placed, QueuesTyped
  <1>6. ServiceTyped' /\ EndTyped'
    BY <1>1 DEF Placed, ServiceTyped, EndTyped, service
  <1>7. QED
    BY <1>3, <1>4, <1>5, <1>6 DEF Placed

LEMMA CallPlaced ==
  ASSUME Placed, NEW c \in Child, Call(c)
  PROVE  Placed'
  <1> DEFINE r == child[c].round
  <1>1. UNCHANGED <<kind, sound, parent, barrier, readyQueue, readyRecords, results, survivors,
                    verdict>>
    BY DEF Call
  <1>2. Place(child[c]) /\ ChildrenPlaced /\ child[c].pc = "calling"
    BY ChildIsPlaced DEF Placed, Call, At
  <1>3. r \in 1..MaxRound
    BY <1>2, HarnessAssumption DEF Place, ChildState
  <1>4. ChildrenPlaced'
    <2>1. Place([child[c] EXCEPT !.pc = IF kind = "claim" THEN "finish" ELSE "ended"])
      BY <1>2 DEF Place, ChildState, Barrier
    <2>2. QED
      BY <1>1, <1>2, <2>1, ChildMoves DEF Call
  <1>5. QueuesTyped'
    <2>1. \E won, error \in BOOLEAN :
            resultQueue' = resultQueue \cup
                             {[child |-> c, round |-> r, won |-> won, error |-> error]}
      BY DEF Call
    <2>2. QED
      BY <1>1, <1>3, <2>1, HarnessAssumption DEF Placed, QueuesTyped, Message, NoRound
  <1>6. ServiceTyped'
    <2>1. UNCHANGED service \/ \E won \in BOOLEAN : Answered(c, r, won)
      BY DEF Call
    <2>2. CASE UNCHANGED service
      BY <2>2 DEF Placed, ServiceTyped, service
    <2>3. ASSUME NEW won \in BOOLEAN, Answered(c, r, won)
          PROVE  ServiceTyped'
      BY <1>3, <2>3 DEF Answered, Placed, ServiceTyped
    <2>4. QED
      BY <2>1, <2>2, <2>3
  <1>7. ParentPlaced' /\ EndTyped'
    BY <1>1 DEF Placed, ParentPlaced, BarriersTyped, EndTyped
  <1>8. QED
    BY <1>4, <1>5, <1>6, <1>7 DEF Placed

ParentActs(c) ==
  \/ StartChild(c) \/ Terminate(c) \/ StartFails \/ ReadReady
  \/ CreateTask \/ Collect \/ ReadTimesOut \/ Judge

LEMMA ParentActsPlaced ==
  ASSUME Placed, NEW c \in Child, ParentActs(c)
  PROVE  Placed'
  <1>1. UNCHANGED <<kind, sound, service>>
    BY DEF ParentActs, StartChild, Terminate, StartFails, ReadReady, CreateTask, Collect,
         ReadTimesOut, Judge, service
  <1>2. ChildrenPlaced'
    <2>1. Place(child[c]) /\ ChildrenPlaced
      BY ChildIsPlaced DEF Placed
    <2>2. CASE UNCHANGED child
      BY <1>1, <2>1, <2>2 DEF ChildrenPlaced, PlacesAgree
    <2>3. CASE StartChild(c)
      <3>1. child[c].pc = "unborn"
        BY <2>3 DEF StartChild, Started
      <3>2. Place([child[c] EXCEPT !.pc = "booting"])
        BY <2>1, <3>1 DEF Place, ChildState
      <3>3. QED
        BY <1>1, <2>1, <2>3, <3>2, ChildMoves DEF StartChild
    <2>4. CASE Terminate(c)
      <3>1. Place([child[c] EXCEPT !.dead = TRUE])
        BY <2>1 DEF Place, ChildState
      <3>2. QED
        BY <1>1, <2>1, <2>2, <2>4, <3>1, ChildMoves DEF Terminate
    <2>5. QED
      BY <2>2, <2>3, <2>4 DEF ParentActs, StartFails, ReadReady, CreateTask, Collect,
           ReadTimesOut, Judge
  <1>3. ParentPlaced'
    <2> USE DEF Placed, ParentPlaced, BarriersTyped, Parent
    <2>1. ASSUME NEW failed \in BOOLEAN, Clean(failed)
          PROVE  ParentPlaced'
      BY <2>1, CleanPlaced
    <2>2. ASSUME NEW pc \in {"reading ready", "ready", "start", "over"}, Parent(pc)
          PROVE  parent' \in ParentState
      BY <2>2 DEF ParentState, Barrier
    <2>3. CASE StartChild(c)
      BY <2>2, <2>3 DEF StartChild
    <2>4. CASE Terminate(c)
      BY <2>4 DEF Terminate
    <2>5. CASE StartFails
      BY <2>1, <2>5 DEF StartFails
    <2>6. CASE ReadReady
      BY <2>1, <2>2, <2>6 DEF ReadReady
    <2>7. CASE CreateTask
      BY <2>2, <2>7 DEF CreateTask
    <2>8. CASE Collect
      <3>1. CASE UNCHANGED <<parent, barrier>>
        BY <3>1
      <3>2. CASE Clean(FALSE)
        BY <2>1, <3>2
      <3>3. CASE /\ parent.round + 1 \in Rounds /\ UNCHANGED barrier
                 /\ parent' = [parent EXCEPT !.pc = "creating", !.round = @ + 1]
        <4>1. parent.round + 1 \in 0..MaxRound
          <5>1. parent.round + 1 \in 1..MaxRound
            <6>1. Rounds \subseteq 1..MaxRound
              BY SomeRound DEF Rounds
            <6>2. QED
              BY <3>3, <6>1
          <5>2. QED
            BY <5>1, SomeRound
        <4>2. QED
          BY <3>3, <4>1 DEF ParentState
      <3>4. QED
        BY <2>8, <3>1, <3>2, <3>3 DEF Collect
    <2>9. CASE ReadTimesOut
      BY <2>1, <2>9 DEF ReadTimesOut
    <2>10. CASE Judge
      BY <2>2, <2>10 DEF Judge
    <2>11. QED
      BY <2>3, <2>4, <2>5, <2>6, <2>7, <2>8, <2>9, <2>10 DEF ParentActs
  <1>4. QueuesTyped'
    BY DEF Placed, QueuesTyped, ParentActs, StartChild, Terminate, StartFails, ReadReady,
         CreateTask, Collect, ReadTimesOut, Judge
  <1>5. EndTyped'
    BY <1>1 DEF Placed, EndTyped, ParentActs, StartChild, Terminate, StartFails, ReadReady,
         CreateTask, Collect, ReadTimesOut, Judge, Verdict
  <1>6. ServiceTyped'
    BY <1>1 DEF Placed, ServiceTyped, service
  <1>7. QED
    BY <1>2, <1>3, <1>4, <1>5, <1>6 DEF Placed

THEOREM NextPlaced == Placed /\ [Next]_vars => Placed'
  <1> SUFFICES ASSUME Placed, [Next]_vars PROVE Placed'
    OBVIOUS
  <1>1. CASE ParentStep
    <2>1. CASE \E c \in Child : ParentActs(c)
      BY <2>1, ParentActsPlaced
    <2>2. CASE ParentRaises \/ \E b \in Barrier : ParentLeaves(b) \/ Open(b) \/ BarrierTimesOut(b)
      BY <2>2, BarrierPlaced DEF Barrier
    <2>3. QED
      BY <1>1, <2>1, <2>2, HarnessAssumption DEF ParentStep, ParentActs
  <1>2. CASE \E c \in Child : ChildStep(c)
    <2>1. PICK c \in Child : ChildStep(c)
      BY <1>2
    <2>2. CASE Call(c)
      BY <2>2, CallPlaced
    <2>3. CASE Boot(c) \/ Crash(c)
      BY <2>3, ChildPlaced DEF Barrier
    <2>4. CASE \E b \in Barrier : ChildLeaves(c, b) \/ ChildRaises(c, b) \/ BarrierTimesOut(b)
      BY <2>4, ChildPlaced, BarrierPlaced
    <2>5. QED
      BY <2>1, <2>2, <2>3, <2>4 DEF ChildStep
  <1>3. CASE UNCHANGED vars
    BY <1>3 DEF vars, service, Placed, ChildrenPlaced, PlacesAgree, ParentPlaced, BarriersTyped,
         QueuesTyped, ServiceTyped, EndTyped
  <1>4. QED
    BY <1>1, <1>2, <1>3 DEF Next

(* Parent, children, barriers, queues and table are always what they can   *)
(* be: no round is counted past the last, no child is at a barrier of a    *)
(* round it is not in.                                                     *)
THEOREM HarnessTypeCorrect == Spec => []TypeOK
  <1>1. Placed => TypeOK
    BY DEF Placed, ChildrenPlaced, ParentPlaced, BarriersTyped, QueuesTyped, ServiceTyped,
         EndTyped, TypeOK, BarrierState
  <1>2. QED
    BY HarnessInitPlaced, NextPlaced, <1>1, PTL DEF Spec
-----------------------------------------------------------------------------
(* What the messages tell.                                                 *)

HarnessInv == Placed /\ CallsAreOver /\ MessagesTell /\ PassIsLast /\ PassMeansOneWinner

(* No step takes a child back before a call it has made.                   *)
Advance(s, t) ==
  \/ s.round < t.round
  \/ s.round = t.round /\ (s.pc \in {"finish", "ended"} => t.pc \in {"finish", "ended"})

LEMMA ChildAdvances ==
  ASSUME ChildrenPlaced, NEW c \in Child, NEW s, Advance(child[c], s), Become(c, s)
  PROVE  \A d \in Child : Advance(child[d], child'[d])
  BY DEF ChildrenPlaced, ChildState, Become, Advance

LEMMA NobodyGoesBack ==
  ASSUME Placed, Next
  PROVE  \A d \in Child : Advance(child[d], child'[d])
  <1>1. CASE UNCHANGED child
    BY <1>1 DEF Advance
  <1>2. ASSUME NEW c \in Child, StartChild(c) \/ Terminate(c) \/ Boot(c) \/ Call(c) \/ Crash(c)
        PROVE  \A d \in Child : Advance(child[d], child'[d])
    <2>1. Place(child[c]) /\ ChildrenPlaced
      BY ChildIsPlaced DEF Placed
    <2>2. ASSUME NEW pc, child[c].pc \in {"finish", "ended"} => pc \in {"finish", "ended"},
                 Become(c, [child[c] EXCEPT !.pc = pc])
          PROVE  \A d \in Child : Advance(child[d], child'[d])
      <3>1. Advance(child[c], [child[c] EXCEPT !.pc = pc])
        BY <2>1, <2>2 DEF Place, ChildState, Advance
      <3>2. QED
        BY <2>1, <2>2, <3>1, ChildAdvances
    <2>3. ASSUME Become(c, [child[c] EXCEPT !.dead = TRUE])
          PROVE  \A d \in Child : Advance(child[d], child'[d])
      <3>1. Advance(child[c], [child[c] EXCEPT !.dead = TRUE])
        BY <2>1 DEF Place, ChildState, Advance
      <3>2. QED
        BY <2>1, <2>3, <3>1, ChildAdvances
    <2>4. CASE StartChild(c)
      BY <2>2, <2>4 DEF StartChild, Started
    <2>5. CASE Terminate(c)
      BY <1>1, <2>3, <2>5 DEF Terminate
    <2>6. CASE Boot(c)
      <3>1. PICK failed \in BOOLEAN : Become(c, [child[c] EXCEPT !.pc = "ready", !.error = failed])
        BY <2>6 DEF Boot
      <3>2. child[c].pc = "booting"
        BY <2>6 DEF Boot, At
      <3>3. Advance(child[c], [child[c] EXCEPT !.pc = "ready", !.error = failed])
        BY <2>1, <3>2 DEF Place, ChildState, Advance
      <3>4. QED
        BY <2>1, <3>1, <3>3, ChildAdvances
    <2>7. CASE Call(c)
      BY <2>2, <2>7 DEF Call, At
    <2>8. CASE Crash(c)
      BY <2>3, <2>8 DEF Crash
    <2>9. QED
      BY <1>2, <2>4, <2>5, <2>6, <2>7, <2>8
  <1>3. ASSUME NEW c \in Child, NEW b \in Barrier, ChildLeaves(c, b) \/ ChildRaises(c, b)
        PROVE  \A d \in Child : Advance(child[d], child'[d])
    <2>1. Place(child[c]) /\ ChildrenPlaced
      BY ChildIsPlaced DEF Placed
    <2>2. child[c].pc = b
      BY <1>3 DEF ChildLeaves, ChildRaises, At
    <2>3. CASE ChildLeaves(c, b)
      <3> DEFINE s == [child[c] EXCEPT !.pc = NextPc(c, b),
                                       !.round = IF NextPc(c, b) = "ended" THEN @
                                                 ELSE IF b = "start" THEN @ ELSE @ + 1]
      <3>1. s.pc = NextPc(c, b)
        BY <2>1 DEF Place, ChildState
      <3>2. s.round = IF NextPc(c, b) = "ended" THEN child[c].round
                      ELSE IF b = "start" THEN child[c].round ELSE child[c].round + 1
        BY <2>1 DEF Place, ChildState
      <3>3. child[c].round \in Nat
        BY <2>1, SomeRound DEF Place, ChildState
      <3> HIDE DEF s
      <3>4. Advance(child[c], s)
        BY <2>2, <3>1, <3>2, <3>3 DEF Advance
      <3>5. QED
        BY <2>1, <2>3, <3>4, ChildAdvances DEF ChildLeaves, s
    <2>4. CASE ChildRaises(c, b)
      <3>1. Advance(child[c], [child[c] EXCEPT !.pc = "ended"])
        BY <2>1 DEF Place, ChildState, Advance
      <3>2. QED
        BY <2>1, <2>4, <3>1, ChildAdvances DEF ChildRaises
    <2>5. QED
      BY <1>3, <2>3, <2>4
  <1>4. CASE ParentStep
    BY <1>1, <1>2, <1>4 DEF ParentStep, StartFails, ReadReady, CreateTask, Collect, ReadTimesOut,
         Judge, ParentRaises, ParentLeaves, Open, BarrierTimesOut
  <1>5. CASE \E c \in Child : ChildStep(c)
    BY <1>1, <1>2, <1>3, <1>5 DEF ChildStep, BarrierTimesOut
  <1>6. QED
    BY <1>4, <1>5 DEF Next

LEMMA CalledStays ==
  ASSUME Placed, Placed', Next, NEW c \in Child, NEW r \in Nat, Called(c, r)
  PROVE  Called(c, r)'
  <1>1. Advance(child[c], child'[c])
    BY NobodyGoesBack
  <1>2. child[c].round \in Nat /\ child'[c].round \in Nat
    <2>1. child[c] \in ChildState /\ child'[c] \in ChildState
      BY DEF Placed, ChildrenPlaced
    <2>2. QED
      BY <2>1, SomeRound DEF ChildState
  <1>3. QED
    BY <1>1, <1>2 DEF Called, Advance

LEMMA MessagesTyped ==
  ASSUME Placed, NEW m \in Messages
  PROVE  m.child \in Child /\ m.round \in Nat /\ m.won \in BOOLEAN /\ m.error \in BOOLEAN
  <1>1. m \in Message
    BY DEF Messages, Placed, QueuesTyped
  <1>2. QED
    BY <1>1, SomeRound DEF Message, NoRound

(* A step that lets nobody win and sends nothing but complaints.           *)
LEMMA TellingStays ==
  ASSUME Placed, Placed', CallsAreOver, MessagesTell, Next, wins' = wins,
         \A m \in Messages' : m \in Messages \/ m.error
  PROVE  CallsAreOver' /\ MessagesTell'
  <1>1. ASSUME NEW r \in 1..MaxRound, NEW c \in Child, <<r, c>> \in wins'
        PROVE  Called(c, r)'
    BY <1>1, CalledStays, SomeRound DEF CallsAreOver
  <1>2. ASSUME NEW m \in Messages', ~m.error
        PROVE  Called(m.child, m.round)'
    BY <1>2, CalledStays, MessagesTyped DEF CallsAreOver
  <1>3. MessagesTell'
    BY DEF MessagesTell
  <1>4. QED
    BY <1>1, <1>2, <1>3 DEF CallsAreOver

(* The call of a round is the first the child makes in it.                 *)
LEMMA CallTells ==
  ASSUME Placed, Placed', CallsAreOver, MessagesTell, NEW c \in Child, Call(c)
  PROVE  CallsAreOver' /\ MessagesTell'
  <1> DEFINE r == child[c].round
  <1>1. child[c] \in ChildState /\ child[c].pc = "calling"
    BY DEF Placed, ChildrenPlaced, Call, At
  <1>2. r \in Nat
    BY <1>1, SomeRound DEF ChildState
  <1>3. ~Called(c, r)
    BY <1>1, <1>2 DEF Called
  <1>4. child'[c].round = r /\ child'[c].pc \in {"finish", "ended"}
    <2>1. child' = [child EXCEPT ![c] = [child[c] EXCEPT !.pc = IF kind = "claim" THEN "finish"
                                                               ELSE "ended"]]
      BY DEF Call, Become
    <2>2. child'[c] = [child[c] EXCEPT !.pc = IF kind = "claim" THEN "finish" ELSE "ended"]
      BY <2>1 DEF Placed, ChildrenPlaced
    <2>3. QED
      BY <1>1, <2>2 DEF ChildState
  <1>5. Next
    BY DEF Next, ChildStep
  <1>6. PICK won \in BOOLEAN, error \in BOOLEAN :
          /\ resultQueue' = resultQueue \cup
                              {[child |-> c, round |-> r, won |-> won, error |-> error]}
          /\ wins' = wins \/ wins' = wins \cup {<<r, c>>}
          /\ ~error => (won <=> wins' = wins \cup {<<r, c>>}) /\ (~won => wins' = wins)
    <2>1. CASE child[c].error
      BY <2>1 DEF Call, service
    <2>2. CASE ~child[c].error
      <3>1. <<r, c>> \notin wins
        BY <1>2, <1>3 DEF CallsAreOver, Placed, ServiceTyped
      <3>2. QED
        BY <2>2, <3>1 DEF Call, service, Answered
    <2>3. QED
      BY <2>1, <2>2
  <1>7. <<r, c>> \notin wins
    BY <1>2, <1>3 DEF CallsAreOver, Placed, ServiceTyped
  <1>8. results' = results
    BY DEF Call
  <1> DEFINE new == [child |-> c, round |-> r, won |-> won, error |-> error]
  <1>9. \A m \in Messages' : m \in Messages \/ m = new
    BY <1>6, <1>8 DEF Messages
  <1>10. ASSUME NEW q \in 1..MaxRound, NEW d \in Child, <<q, d>> \in wins'
         PROVE  Called(d, q)'
    <2>1. CASE <<q, d>> \in wins
      BY <1>5, <2>1, CalledStays, SomeRound DEF CallsAreOver
    <2>2. CASE q = r /\ d = c
      BY <1>4, <2>2 DEF Called
    <2>3. QED
      BY <1>6, <1>10, <2>1, <2>2
  <1>11. ASSUME NEW m \in Messages', ~m.error
         PROVE  Called(m.child, m.round)' /\ (m.won <=> <<m.round, m.child>> \in wins')
    <2>1. CASE m \in Messages
      <3>1. Called(m.child, m.round) /\ (m.won <=> <<m.round, m.child>> \in wins)
        BY <1>11, <2>1 DEF CallsAreOver, MessagesTell
      <3>2. <<m.round, m.child>> # <<r, c>>
        BY <1>3, <3>1
      <3>3. QED
        BY <1>5, <1>6, <2>1, <3>1, <3>2, CalledStays, MessagesTyped
    <2>2. CASE m = new
      <3>1. m.child = c /\ m.round = r /\ m.won = won /\ ~error
        BY <1>11, <2>2
      <3>2. Called(m.child, m.round)'
        BY <1>4, <3>1 DEF Called
      <3>3. m.won <=> <<m.round, m.child>> \in wins'
        BY <1>6, <1>7, <3>1
      <3>4. QED
        BY <3>2, <3>3
    <2>3. QED
      BY <1>9, <2>1, <2>2
  <1>12. QED
    BY <1>10, <1>11 DEF CallsAreOver, MessagesTell

LEMMA StepTells ==
  ASSUME Placed, Placed', CallsAreOver, MessagesTell, Next
  PROVE  CallsAreOver' /\ MessagesTell'
  <1>1. CASE \E c \in Child : Call(c)
    BY <1>1, CallTells
  <1>2. CASE ~ \E c \in Child : Call(c)
    <2>1. wins' = wins
      BY <1>2 DEF Next, ParentStep, ChildStep, StartChild, Terminate, StartFails, ReadReady,
           CreateTask, Collect, ReadTimesOut, Judge, ParentRaises, ParentLeaves, Open,
           BarrierTimesOut, Boot, Crash, ChildLeaves, ChildRaises, service
    <2>2. \A m \in Messages' : m \in Messages \/ m.error
      <3>1. CASE ParentStep
        BY <3>1 DEF ParentStep, StartChild, Terminate, StartFails, ReadReady, CreateTask, Collect,
             ReadTimesOut, Judge, ParentRaises, ParentLeaves, Open, BarrierTimesOut, Messages
      <3>2. CASE \E c \in Child, b \in Barrier : ChildRaises(c, b)
        BY <3>2 DEF ChildRaises, Messages, WorkerError
      <3>3. CASE \E c \in Child : /\ ChildStep(c) /\ ~Call(c)
                                   /\ \A b \in Barrier : ~ChildRaises(c, b)
        BY <3>3 DEF ChildStep, Boot, Crash, ChildLeaves, BarrierTimesOut, Messages
      <3>4. QED
        BY <1>2, <3>1, <3>2, <3>3 DEF Next
    <2>3. QED
      BY <2>1, <2>2, TellingStays
  <1>3. QED
    BY <1>1, <1>2

-----------------------------------------------------------------------------
(* What a pass says.                                                       *)

LEMMA CompleteTells ==
  ASSUME Placed, MessagesTell, Complete, NEW r \in Rounds
  PROVE  WinnersOf(r) = {d \in Child : <<r, d>> \in wins}
  <1>1. ASSUME NEW d \in WinnersOf(r)
        PROVE  d \in Child /\ <<r, d>> \in wins
    BY <1>1, MessagesTyped DEF WinnersOf, Complete, MessagesTell
  <1>2. ASSUME NEW d \in Child, <<r, d>> \in wins
        PROVE  d \in WinnersOf(r)
    <2>1. <<r, d>> \in Pairs
      BY DEF Complete
    <2>2. PICK m \in Messages : m.round = r /\ m.child = d
      BY <2>1 DEF Pairs
    <2>3. m.won
      BY <1>2, <2>2 DEF Complete, MessagesTell
    <2>4. QED
      BY <2>2, <2>3 DEF WinnersOf
  <1>3. QED
    BY <1>1, <1>2

Certified(r, k, held, won) ==
  \E c \in Child :
    /\ {d \in Child : <<r, d>> \in won} = {c}
    /\ held[r] # NULL
    /\ k = "claim" => held[r] = c

LEMMA JudgePasses ==
  ASSUME Placed, MessagesTell, Judge, verdict' = "pass"
  PROVE  PassIsLast' /\ PassMeansOneWinner'
  <1>1. Complete /\ OneWinnerEach
    BY DEF Judge
  <1>2. UNCHANGED <<kind, child, owner, wins>>
    BY DEF Judge, service
  <1>3. PassIsLast'
    <2>1. parent'.pc = "over"
      BY DEF Judge, Parent, Placed, ParentPlaced, ParentState
    <2>2. \A c \in Child : child[c].pc \in {"unborn", "ended"}
      BY <1>1 DEF Judge, Complete, Alive
    <2>3. QED
      BY <1>2, <2>1, <2>2 DEF PassIsLast
  <1>4. ASSUME NEW r \in Rounds
        PROVE  Certified(r, kind, owner, wins)
    <2>1. WinnersOf(r) = {d \in Child : <<r, d>> \in wins}
      BY <1>1, CompleteTells
    <2>2. IsFiniteSet(WinnersOf(r))
      BY <2>1, HarnessAssumption, FS_Subset DEF HarnessAssumption
    <2>3. Cardinality(WinnersOf(r)) = 1 /\ owner[r] # NULL
          /\ (kind = "claim" => owner[r] \in WinnersOf(r))
      BY <1>1 DEF OneWinnerEach
    <2>4. PICK c : WinnersOf(r) = {c}
      BY <2>2, <2>3, FS_Singleton
    <2>5. c \in Child
      BY <2>1, <2>4
    <2>6. QED
      BY <2>1, <2>3, <2>4, <2>5 DEF Certified
  <1>5. PassMeansOneWinner'
    <2>1. Rounds' = Rounds
      BY <1>2 DEF Rounds
    <2>2. \A r \in Rounds' : Certified(r, kind', owner', wins')
      BY <1>2, <1>4, <2>1
    <2>3. QED
      BY <2>2 DEF PassMeansOneWinner, Certified
  <1>6. QED
    BY <1>3, <1>5

LEMMA NothingAfterPass ==
  ASSUME PassIsLast, verdict = "pass", Next
  PROVE  UNCHANGED <<kind, parent, child, owner, wins, verdict>>
  <1>1. parent.pc = "over" /\ \A c \in Child : child[c].pc \in {"unborn", "ended"}
    BY DEF PassIsLast
  <1>2. \E b \in Barrier : Open(b) \/ BarrierTimesOut(b)
    BY <1>1 DEF Next, ParentStep, ChildStep, StartChild, Terminate, StartFails, ReadReady,
         CreateTask, Collect, ReadTimesOut, Judge, ParentRaises, ParentLeaves, Barrier,
         Boot, Call, Crash, ChildLeaves, ChildRaises, At, Alive
  <1>3. QED
    BY <1>2 DEF Open, BarrierTimesOut, service

LEMMA OnlyJudgePasses ==
  ASSUME Next, ~Judge
  PROVE  verdict' = verdict
  BY DEF Next, ParentStep, ChildStep, StartChild, Terminate, StartFails, ReadReady,
       CreateTask, Collect, ReadTimesOut, ParentRaises, ParentLeaves, Open,
       BarrierTimesOut, Boot, Call, Crash, ChildLeaves, ChildRaises

LEMMA PassStays ==
  ASSUME Placed, MessagesTell, PassIsLast, PassMeansOneWinner, Next
  PROVE  PassIsLast' /\ PassMeansOneWinner'
  <1>1. CASE verdict' # "pass"
    BY <1>1 DEF PassIsLast, PassMeansOneWinner
  <1>2. CASE verdict' = "pass" /\ verdict = "pass"
    BY <1>2, NothingAfterPass DEF PassIsLast, PassMeansOneWinner, Rounds
  <1>3. CASE verdict' = "pass" /\ verdict # "pass"
    BY <1>3, OnlyJudgePasses, JudgePasses
  <1>4. QED
    BY <1>1, <1>2, <1>3

LEMMA HarnessStart == Init => HarnessInv
  <1> SUFFICES ASSUME Init PROVE HarnessInv
    OBVIOUS
  <1>1. verdict # "pass"
    BY HarnessAssumption DEF Init, HarnessAssumption, Verdict
  <1>2. Messages = {} /\ wins = {}
    BY DEF Init, Messages
  <1>3. CallsAreOver /\ MessagesTell
    BY <1>2 DEF CallsAreOver, MessagesTell
  <1>4. QED
    BY <1>1, <1>3, HarnessInitPlaced DEF HarnessInv, PassIsLast, PassMeansOneWinner

LEMMA HarnessStep == HarnessInv /\ [Next]_vars => HarnessInv'
  <1> SUFFICES ASSUME HarnessInv, [Next]_vars PROVE HarnessInv'
    OBVIOUS
  <1>1. Placed'
    BY NextPlaced DEF HarnessInv
  <1>2. CASE Next
    BY <1>1, <1>2, StepTells, PassStays DEF HarnessInv
  <1>3. CASE UNCHANGED vars
    BY <1>1, <1>3 DEF HarnessInv, vars, service, CallsAreOver, MessagesTell, Messages, Called,
         PassIsLast, PassMeansOneWinner, Rounds
  <1>4. QED
    BY <1>2, <1>3

THEOREM HarnessInvHolds == Spec => []HarnessInv
  BY HarnessStart, HarnessStep, PTL DEF Spec

(* A proof that passes is one, for any number of children and rounds and   *)
(* any service: every round had exactly one call that won, and the table   *)
(* says so too.                                                            *)
THEOREM PassCorrect == Spec => []PassMeansOneWinner
  <1>1. HarnessInv => PassMeansOneWinner
    BY DEF HarnessInv
  <1>2. QED
    BY HarnessInvHolds, <1>1, PTL

-----------------------------------------------------------------------------
(* A proof of a sound service on a machine that does its work.             *)

Healthy == sound /\ faults = 0 /\ ~timedOut
Working == parent.pc \notin {"cleaning", "over"}

Well ==
  /\ \A c \in Child : ~child[c].error /\ ~child[c].dead
  /\ survivors = {} /\ ~parent.failed

(* None is jammed; they open one at a time, the last to leave closes it.   *)
BarriersTurn ==
  /\ \A b \in Barrier : barrier[b] # "jammed"
  /\ Working => \A b \in Barrier : barrier[b] # "broken"
  /\ \A b \in Barrier : barrier[b] = "draining" => parent.pc = b \/ Inside(b) # {}
  /\ \A a, b \in Barrier : barrier[a] = "draining" /\ barrier[b] = "draining" => a = b

(* The round of a child that waits for the next one to start.              *)
Ahead ==
  IF parent.pc \in {"creating", "start"}
     \/ (parent.pc = "finish" /\ barrier["finish"] # "draining")
  THEN parent.round ELSE parent.round + 1

(* In the claim proof no child gets into a round before the parent.        *)
InStep(c) ==
  /\ child[c].pc = "start" =>
       child[c].round <= (IF barrier["start"] = "draining" THEN parent.round ELSE Ahead)
  /\ child[c].pc \in {"calling", "finish"} => child[c].round <= parent.round
  /\ barrier["finish"] = "draining" =>
       /\ child[c].pc # "calling"
       /\ child[c].pc = "finish" => child[c].round < Ahead

Synchronous ==
  /\ kind = "idempotency" => \A c \in Child : child[c].round <= 1
  /\ kind = "claim" /\ Working => \A c \in Child : InStep(c)

N == Cardinality(Child)

(* Each round takes as many messages as there are children.                *)
Counted ==
  /\ IsFiniteSet(results)
  /\ parent.pc \in {"starting", "reading ready", "ready"} => parent.round = 0 /\ results = {}
  /\ parent.pc \in {"creating", "start", "finish"} =>
       kind = "claim" /\ parent.round \in Rounds
         /\ Cardinality(results) = (parent.round - 1) * N
  /\ parent.pc = "collecting" =>
       /\ parent.round \in Rounds
       /\ (parent.round - 1) * N <= Cardinality(results)
       /\ Cardinality(results) < parent.round * N
  /\ ~Working => /\ parent.round \in Rounds /\ parent.round + 1 \notin Rounds
                 /\ Cardinality(results) = parent.round * N

(* One message for a call; a child that complains was at the last barrier  *)
(* when the parent had all it waits for.                                   *)
OneMessageEach ==
  /\ results \cap resultQueue = {}
  /\ \A m \in results : ~m.error /\ m.round <= parent.round
  /\ \A m \in Messages : ~m.error =>
       /\ m.round \in Rounds
       /\ kind = "claim" /\ Working => m.round <= parent.round
  /\ \A m, n \in Messages : ~m.error /\ ~n.error /\ m.round = n.round /\ m.child = n.child => m = n

LateOnlyComplain ==
  \A m \in Messages : m.error =>
    ~Working /\ kind = "claim" /\ m.round = NoRound /\ child[m.child].round = MaxRound

SoundTable ==
  /\ \A r \in 1..MaxRound, c \in Child : <<r, c>> \in wins <=> owner[r] = c
  /\ \A m \in Messages : ~m.error => owner[m.round] # NULL

JudgedWell ==
  verdict \in {NULL, "pass"} \/ (verdict = "fail" /\ kind = "claim" /\ \E m \in Messages : m.error)

Good == /\ Well /\ BarriersTurn /\ Synchronous /\ Counted
        /\ OneMessageEach /\ LateOnlyComplain /\ SoundTable /\ JudgedWell

HealthyInv == HarnessInv /\ faults \in Nat /\ (Healthy => Good)

-----------------------------------------------------------------------------
(* The steps of a healthy proof.                                           *)

HealthyNext ==
  \/ \E c \in Child : StartChild(c) \/ Boot(c) \/ Call(c)
  \/ \E c \in Child, b \in Barrier : ChildLeaves(c, b) \/ ChildRaises(c, b)
  \/ \E b \in Barrier : Open(b) \/ ParentLeaves(b)
  \/ ReadReady \/ CreateTask \/ Collect \/ Judge

LEMMA HealthyBefore ==
  ASSUME faults \in Nat, Next, Healthy'
  PROVE  Healthy
  <1>1. sound' = sound
    BY DEF Next, ParentStep, ChildStep, StartChild, Terminate, StartFails, ReadReady,
         CreateTask, Collect, ReadTimesOut, Judge, ParentRaises, ParentLeaves, Open,
         BarrierTimesOut, Boot, Call, Crash, ChildLeaves, ChildRaises
  <1>2. faults' = faults \/ faults' = faults + 1
    BY DEF Next, ParentStep, ChildStep, StartChild, Terminate, StartFails, ReadReady,
         CreateTask, Collect, ReadTimesOut, Judge, ParentRaises, ParentLeaves, Open,
         BarrierTimesOut, Boot, Call, Crash, ChildLeaves, ChildRaises, machine
  <1>3. timedOut' = timedOut \/ timedOut'
    BY DEF Next, ParentStep, ChildStep, StartChild, Terminate, StartFails, ReadReady,
         CreateTask, Collect, ReadTimesOut, Judge, ParentRaises, ParentLeaves, Open,
         BarrierTimesOut, Boot, Call, Crash, ChildLeaves, ChildRaises, machine
  <1>4. faults' = 0 /\ ~timedOut' /\ sound'
    BY DEF Healthy
  <1>5. faults = 0
    BY <1>2, <1>4
  <1>6. ~timedOut
    BY <1>3, <1>4
  <1>7. QED
    BY <1>1, <1>4, <1>5, <1>6 DEF Healthy

LEMMA HealthySteps ==
  ASSUME HealthyInv, Next, Healthy'
  PROVE  Healthy /\ Good /\ HealthyNext
  <1>1. Healthy /\ Good
    BY HealthyBefore DEF HealthyInv
  <1>2. faults = 0 /\ faults' = 0 /\ ~timedOut'
    BY <1>1 DEF Healthy
  <1>3. \A c \in Child : ~Crash(c) /\ ~Terminate(c)
    BY <1>2 DEF Crash, Terminate
  <1>4. ~StartFails /\ ~ReadTimesOut /\ \A b \in Barrier : ~BarrierTimesOut(b)
    <2>1. ~StartFails
      BY <1>2 DEF StartFails
    <2>2. ReadTimesOut => timedOut'
      BY DEF ReadTimesOut
    <2>3. \A b \in Barrier : BarrierTimesOut(b) => timedOut'
      BY DEF BarrierTimesOut
    <2>4. QED
      BY <1>2, <2>1, <2>2, <2>3
  <1>5. ~ParentRaises
    <2> SUFFICES ASSUME ParentRaises PROVE FALSE
      OBVIOUS
    <2>1. parent.pc \in Barrier /\ barrier[parent.pc] = "broken"
      BY DEF ParentRaises
    <2>2. Working
      BY <2>1 DEF Working, Barrier
    <2>3. QED
      BY <1>1, <2>1, <2>2 DEF Good, BarriersTurn
  <1>6. CASE ParentStep
    BY <1>1, <1>3, <1>4, <1>5, <1>6 DEF ParentStep, HealthyNext
  <1>7. CASE \E c \in Child : ChildStep(c)
    <2>1. PICK c \in Child : ChildStep(c)
      BY <1>7
    <2>2. Boot(c) \/ Call(c) \/ \E b \in Barrier : ChildLeaves(c, b) \/ ChildRaises(c, b)
      BY <1>3, <1>4, <2>1 DEF ChildStep
    <2>3. QED
      BY <1>1, <2>2 DEF HealthyNext
  <1>8. QED
    BY <1>6, <1>7 DEF Next

(* What becomes of the children.                                           *)
Moved(c, pc, r) ==
  /\ child'[c].pc = pc /\ child'[c].round = r
  /\ ~child'[c].error /\ ~child'[c].dead
  /\ \A d \in Child : d # c => child'[d] = child[d]

LEMMA ChildMoved ==
  ASSUME Placed, Well, NEW c \in Child, NEW pc, Become(c, [child[c] EXCEPT !.pc = pc])
  PROVE  Moved(c, pc, child[c].round)
  <1>1. child \in [Child -> ChildState] /\ ~child[c].error /\ ~child[c].dead
    BY DEF Placed, ChildrenPlaced, Well
  <1>2. child'[c] = [child[c] EXCEPT !.pc = pc] /\ \A d \in Child : d # c => child'[d] = child[d]
    BY <1>1 DEF Become
  <1>3. /\ child'[c].pc = pc /\ child'[c].round = child[c].round
        /\ child'[c].error = child[c].error /\ child'[c].dead = child[c].dead
    BY <1>1, <1>2 DEF ChildState
  <1>4. QED
    BY <1>1, <1>2, <1>3 DEF Moved

LEMMA StartMoves ==
  ASSUME Placed, Well, NEW c \in Child, StartChild(c)
  PROVE  child[c].pc = "unborn" /\ Moved(c, "booting", child[c].round)
  BY ChildMoved DEF StartChild, Started

LEMMA BootMoves ==
  ASSUME Placed, Well, NEW c \in Child, Boot(c), faults = 0, faults' = 0
  PROVE  child[c].pc = "booting" /\ Moved(c, "ready", child[c].round)
  <1>1. PICK failed \in BOOLEAN :
             /\ faults' = (IF failed THEN faults + 1 ELSE faults)
             /\ Become(c, [child[c] EXCEPT !.pc = "ready", !.error = failed])
    BY DEF Boot
  <1>2. ~failed
    BY <1>1
  <1>3. child \in [Child -> ChildState] /\ ~child[c].dead
    BY DEF Placed, ChildrenPlaced, Well
  <1> DEFINE s == [child[c] EXCEPT !.pc = "ready", !.error = failed]
  <1>4. s.pc = "ready" /\ s.round = child[c].round /\ s.error = failed /\ s.dead = child[c].dead
    BY <1>3 DEF ChildState
  <1>5. child'[c] = s /\ \A d \in Child : d # c => child'[d] = child[d]
    BY <1>1, <1>3 DEF Become
  <1> HIDE DEF s
  <1>6. Moved(c, "ready", child[c].round)
    BY <1>2, <1>3, <1>4, <1>5 DEF Moved
  <1>7. QED
    BY <1>6 DEF Boot, At

LEMMA CallMoves ==
  ASSUME Placed, Well, NEW c \in Child, Call(c)
  PROVE  /\ child[c].pc = "calling"
         /\ Moved(c, IF kind = "claim" THEN "finish" ELSE "ended", child[c].round)
  BY ChildMoved DEF Call, At

LEMMA RaiseMoves ==
  ASSUME Placed, Well, NEW c \in Child, NEW b \in Barrier, ChildRaises(c, b)
  PROVE  child[c].pc = b /\ Moved(c, "ended", child[c].round)
  BY ChildMoved DEF ChildRaises, At

LEMMA LeaveMoves ==
  ASSUME Placed, Well, NEW c \in Child, NEW b \in Barrier, ChildLeaves(c, b)
  PROVE  /\ child[c].pc = b
         /\ Moved(c, NextPc(c, b), IF NextPc(c, b) = "ended" \/ b = "start" THEN child[c].round
                                   ELSE child[c].round + 1)
  <1>1. child \in [Child -> ChildState] /\ ~child[c].error /\ ~child[c].dead
    BY DEF Placed, ChildrenPlaced, Well
  <1> DEFINE s == [child[c] EXCEPT !.pc = NextPc(c, b),
                                   !.round = IF NextPc(c, b) = "ended" THEN @
                                             ELSE IF b = "start" THEN @ ELSE @ + 1]
  <1>2. /\ s.pc = NextPc(c, b)
        /\ s.round = IF NextPc(c, b) = "ended" THEN child[c].round
                     ELSE IF b = "start" THEN child[c].round ELSE child[c].round + 1
        /\ s.error = child[c].error /\ s.dead = child[c].dead
    BY <1>1 DEF ChildState
  <1>3. child'[c] = s /\ \A d \in Child : d # c => child'[d] = child[d]
    BY <1>1 DEF ChildLeaves, Become
  <1> HIDE DEF s
  <1>4. s.round = IF NextPc(c, b) = "ended" \/ b = "start" THEN child[c].round
                  ELSE child[c].round + 1
    BY <1>2
  <1>5. Moved(c, NextPc(c, b), IF NextPc(c, b) = "ended" \/ b = "start" THEN child[c].round
                               ELSE child[c].round + 1)
    BY <1>1, <1>2, <1>3, <1>4 DEF Moved
  <1>6. QED
    BY <1>5 DEF ChildLeaves, At

LEMMA BarrierNames ==
  /\ "ready" \in Barrier /\ "start" \in Barrier /\ "finish" \in Barrier
  /\ \A b \in Barrier : b \notin {"unborn", "booting", "calling", "ended", "starting",
                                  "reading ready", "creating", "collecting", "cleaning", "over"}
  BY DEF Barrier

LEMMA WellStays ==
  ASSUME Placed, Placed', Well, Healthy, Healthy', HealthyNext
  PROVE  Well'
  <1> USE DEF Well
  <1>1. faults = 0 /\ faults' = 0
    BY DEF Healthy
  <1>2. /\ parent \in ParentState /\ parent' \in ParentState
        /\ barrier \in [Barrier -> BarrierState]
    BY DEF Placed, ParentPlaced, BarriersTyped
  <1>3. UNCHANGED survivors
    BY DEF HealthyNext, StartChild, Boot, Call, ChildLeaves, ChildRaises, Open, ParentLeaves,
           ReadReady, CreateTask, Collect, Judge
  <1>4. \A c \in Child : ~child'[c].error /\ ~child'[c].dead
    <2>1. CASE child' = child
      BY <2>1
    <2>2. ASSUME NEW c \in Child, NEW pc, NEW r, Moved(c, pc, r)
          PROVE  \A d \in Child : ~child'[d].error /\ ~child'[d].dead
      BY <2>2 DEF Moved
    <2>3. ASSUME NEW c \in Child, StartChild(c) \/ Boot(c) \/ Call(c)
          PROVE  \A d \in Child : ~child'[d].error /\ ~child'[d].dead
      <3>1. \E pc, r : Moved(c, pc, r)
        BY <1>1, <2>3, StartMoves, BootMoves, CallMoves
      <3>2. QED
        BY <2>2, <3>1
    <2>4. ASSUME NEW c \in Child, NEW b \in Barrier, ChildLeaves(c, b) \/ ChildRaises(c, b)
          PROVE  \A d \in Child : ~child'[d].error /\ ~child'[d].dead
      <3>1. \E pc, r : Moved(c, pc, r)
        BY <2>4, LeaveMoves, RaiseMoves
      <3>2. QED
        BY <2>2, <3>1
    <2>5. CASE \/ ReadReady \/ CreateTask \/ Collect \/ Judge
               \/ \E b \in Barrier : Open(b) \/ ParentLeaves(b)
      BY <2>1, <2>5 DEF Open, ParentLeaves, ReadReady, CreateTask, Collect, Judge
    <2>6. QED
      BY <2>3, <2>4, <2>5 DEF HealthyNext
  <1>5. parent'.failed = parent.failed
    <2>1. ASSUME NEW pc, Parent(pc) PROVE parent'.failed = parent.failed
      BY <1>2, <2>1 DEF Parent, ParentState
    <2>2. ASSUME Clean(FALSE) PROVE parent'.failed = parent.failed
      BY <1>2, <2>2 DEF Clean, ParentState
    <2>3. CASE parent' = parent
      BY <2>3
    <2>4. CASE \E c \in Child : StartChild(c)
      BY <2>1, <2>4 DEF StartChild
    <2>5. CASE ReadReady
      <3>1. ~ \E c \in Child : child[c].error
        OBVIOUS
      <3>2. QED
        BY <2>1, <2>5, <3>1 DEF ReadReady
    <2>6. CASE CreateTask \/ Judge
      BY <2>1, <2>6 DEF CreateTask, Judge
    <2>7. CASE Collect
      <3>1. CASE parent' = [parent EXCEPT !.pc = "creating", !.round = @ + 1]
        BY <1>2, <3>1 DEF ParentState
      <3>2. QED
        BY <2>2, <2>7, <3>1 DEF Collect
    <2>8. ASSUME NEW b \in Barrier, ParentLeaves(b) PROVE parent'.failed = parent.failed
      BY <1>2, <2>8 DEF ParentLeaves, ParentState
    <2>9. QED
      BY <2>3, <2>4, <2>5, <2>6, <2>7, <2>8
         DEF HealthyNext, Boot, Call, ChildLeaves, ChildRaises, Open
  <1>6. QED
    BY <1>3, <1>4, <1>5

LEMMA InsideStays ==
  ASSUME NEW b, Inside(b) # {},
         \A d \in Child : child[d].pc = b => child'[d].pc = b
  PROVE  Inside(b)' # {}
  BY DEF Inside

(* Nobody goes in or out of a barrier that drains, but to leave it.        *)
LEMMA TurnsStay ==
  ASSUME Placed, Placed', Well, BarriersTurn, Healthy, Healthy', HealthyNext
  PROVE  BarriersTurn'
  <1> DEFINE Held(b) == barrier[b] = "draining" => parent.pc = b \/ Inside(b) # {}
  <1>1. /\ faults = 0 /\ faults' = 0
        /\ parent \in ParentState /\ barrier \in [Barrier -> BarrierState]
    BY DEF Healthy, Placed, ParentPlaced, BarriersTyped
  <1>2. /\ \A b \in Barrier : barrier[b] # "jammed"
        /\ Working => \A b \in Barrier : barrier[b] # "broken"
        /\ \A b \in Barrier : Held(b)
        /\ \A a, b \in Barrier : barrier[a] = "draining" /\ barrier[b] = "draining" => a = b
    BY DEF BarriersTurn
  <1>3. ASSUME barrier' = barrier, Working' => Working,
               \A b \in Barrier : parent.pc = b => parent'.pc = b,
               \A d \in Child, b \in Barrier :
                 child[d].pc = b => child'[d].pc = b \/ barrier[b] = "broken"
        PROVE  BarriersTurn'
    <2>1. ASSUME NEW b \in Barrier, barrier[b] = "draining"
          PROVE  parent'.pc = b \/ Inside(b)' # {}
      <3>1. \A d \in Child : child[d].pc = b => child'[d].pc = b
        BY <1>3, <2>1
      <3>2. parent.pc = b \/ Inside(b) # {}
        BY <1>2, <2>1
      <3>3. QED
        BY <1>3, <3>1, <3>2, InsideStays
    <2>2. QED
      BY <1>2, <1>3, <2>1 DEF BarriersTurn
  <1>4. ASSUME NEW c \in Child, NEW pc, NEW r, Moved(c, pc, r), barrier' = barrier,
               parent' = parent \/ (parent.pc = "starting" /\ parent'.pc = "reading ready"),
               child[c].pc \in {"unborn", "booting", "calling"} \/ barrier[child[c].pc] = "broken"
        PROVE  BarriersTurn'
    <2>1. \A b \in Barrier : parent.pc = b => parent'.pc = b
      BY <1>4, BarrierNames
    <2>2. Working' => Working
      BY <1>4 DEF Working
    <2>3. ASSUME NEW d \in Child, NEW b \in Barrier, child[d].pc = b
          PROVE  child'[d].pc = b \/ barrier[b] = "broken"
      <3>1. CASE d = c
        BY <1>4, <2>3, <3>1, BarrierNames
      <3>2. CASE d # c
        BY <1>4, <2>3, <3>2 DEF Moved
      <3>3. QED
        BY <3>1, <3>2
    <2>4. QED
      BY <1>3, <1>4, <2>1, <2>2, <2>3
  <1>5. ASSUME NEW c \in Child, StartChild(c) PROVE BarriersTurn'
    <2>1. parent' = parent \/ (parent.pc = "starting" /\ parent'.pc = "reading ready")
      BY <1>1, <1>5 DEF StartChild, Parent, ParentState
    <2>2. barrier' = barrier
      BY <1>5 DEF StartChild
    <2>3. QED
      BY <1>4, <1>5, <2>1, <2>2, StartMoves
  <1>6. ASSUME NEW c \in Child, Boot(c) \/ Call(c) PROVE BarriersTurn'
    <2>1. barrier' = barrier /\ parent' = parent
      BY <1>6 DEF Boot, Call
    <2>2. QED
      BY <1>1, <1>4, <1>6, <2>1, BootMoves, CallMoves
  <1>7. ASSUME NEW c \in Child, NEW b \in Barrier, ChildRaises(c, b) PROVE BarriersTurn'
    <2>1. barrier' = barrier /\ parent' = parent /\ barrier[b] = "broken"
      BY <1>7 DEF ChildRaises
    <2>2. QED
      BY <1>4, <1>7, <2>1, RaiseMoves
  <1>8. ASSUME Clean(FALSE), child' = child PROVE BarriersTurn'
    <2>1. barrier' = [b \in Barrier |-> "broken"] /\ parent'.pc = "cleaning"
      <3>1. Jammed = {}
        BY <1>2 DEF Jammed
      <3>2. parent' = [parent EXCEPT !.pc = "cleaning", !.failed = FALSE]
        BY <1>8, <3>1 DEF Clean
      <3>3. barrier' = [b \in Barrier |-> "broken"]
        BY <1>8, <3>1 DEF Clean
      <3>4. QED
        BY <1>1, <3>2, <3>3 DEF ParentState
    <2>2. ~Working'
      BY <2>1 DEF Working
    <2>3. QED
      BY <2>1, <2>2 DEF BarriersTurn
  <1>9. ASSUME parent' = parent \/ (parent.pc \notin Barrier /\ (Working' => Working)),
               barrier' = barrier, child' = child
        PROVE  BarriersTurn'
    <2>1. Working' => Working
      BY <1>9 DEF Working
    <2>2. \A b \in Barrier : parent.pc = b => parent'.pc = b
      BY <1>9
    <2>3. QED
      BY <1>3, <1>9, <2>1, <2>2
  <1>10. CASE ReadReady
    <2>1. ~ \E c \in Child : child[c].error
      BY DEF Well
    <2>2. parent.pc \notin Barrier /\ Working /\ child' = child /\ barrier' = barrier
      BY <1>10, <2>1, BarrierNames DEF ReadReady, Working
    <2>3. QED
      BY <1>9, <2>2
  <1>11. CASE CreateTask
    <2>1. parent.pc \notin Barrier /\ Working /\ child' = child /\ barrier' = barrier
      BY <1>11, BarrierNames DEF CreateTask, Working
    <2>2. QED
      BY <1>9, <2>1
  <1>12. CASE Judge
    <2>1. parent.pc \notin Barrier /\ ~Working' /\ child' = child /\ barrier' = barrier
      BY <1>1, <1>12, BarrierNames DEF Judge, Working, Parent, ParentState
    <2>2. QED
      BY <1>9, <2>1
  <1>13. CASE Collect
    <2>1. parent.pc \notin Barrier /\ Working /\ child' = child
      BY <1>13, BarrierNames DEF Collect, Working
    <2>2. CASE barrier' = barrier
      BY <1>9, <2>1, <2>2
    <2>3. CASE Clean(FALSE)
      BY <1>8, <2>1, <2>3
    <2>4. QED
      BY <1>13, <2>2, <2>3 DEF Collect
  <1>14. ASSUME NEW b \in Barrier, Open(b) PROVE BarriersTurn'
    <2>1. /\ parent.pc = b /\ \A c \in Child : child[c].pc = b
          /\ barrier' = [barrier EXCEPT ![b] = "draining"] /\ parent' = parent /\ child' = child
      BY <1>14 DEF Open, At
    <2>2. \A a \in Barrier : a # b => barrier[a] # "draining"
      <3>1. \A a \in Barrier : a # b => parent.pc # a /\ Inside(a) = {}
        BY <2>1 DEF Inside
      <3>2. QED
        BY <1>2, <3>1
    <2>3. barrier'[b] = "draining" /\ \A a \in Barrier : a # b => barrier'[a] = barrier[a]
      BY <1>1, <2>1
    <2>4. Working /\ Working'
      BY <2>1, BarrierNames DEF Working
    <2>5. QED
      BY <1>2, <2>1, <2>2, <2>3, <2>4 DEF BarriersTurn
  <1>15. ASSUME NEW b \in Barrier, ParentLeaves(b) PROVE BarriersTurn'
    <2>1. /\ parent.pc = b /\ child' = child
          /\ barrier' = IF Inside(b) = {} THEN [barrier EXCEPT ![b] = "filling"] ELSE barrier
      BY <1>15 DEF ParentLeaves, AfterLeaving
    <2>2. Working
      BY <2>1, BarrierNames DEF Working
    <2>3. ASSUME NEW a \in Barrier
          PROVE  /\ barrier'[a] # "broken" /\ barrier'[a] # "jammed"
                 /\ barrier'[a] = "draining" => barrier[a] = "draining" /\ Inside(a)' # {}
      <3>1. CASE a = b
        BY <1>1, <1>2, <2>1, <2>2, <3>1 DEF Inside
      <3>2. CASE a # b
        BY <1>1, <1>2, <2>1, <2>2, <3>2 DEF Inside
      <3>3. QED
        BY <3>1, <3>2
    <2>4. QED
      BY <1>2, <2>3 DEF BarriersTurn
  <1>16. ASSUME NEW c \in Child, NEW b \in Barrier, ChildLeaves(c, b) PROVE BarriersTurn'
    <2>1. /\ parent' = parent /\ child[c].pc = b
          /\ barrier' = IF Inside(b) = {c} /\ parent.pc # b
                        THEN [barrier EXCEPT ![b] = "filling"] ELSE barrier
          /\ \A d \in Child : d # c => child'[d] = child[d]
      BY <1>16, LeaveMoves DEF ChildLeaves, AfterLeaving, Moved
    <2>2. ASSUME NEW a \in Barrier
          PROVE  /\ Working => barrier'[a] # "broken"
                 /\ barrier'[a] # "jammed"
                 /\ barrier'[a] = "draining" => barrier[a] = "draining"
                                                /\ (parent.pc = a \/ Inside(a)' # {})
      <3>1. CASE a = b
        <4>1. CASE Inside(b) = {c} /\ parent.pc # b
          BY <1>1, <2>1, <3>1, <4>1
        <4>2. CASE Inside(b) # {c} /\ parent.pc # b
          <5>1. c \in Inside(b)
            BY <2>1 DEF Inside
          <5>2. PICK d \in Inside(b) : d # c
            BY <4>2, <5>1
          <5>3. d \in Inside(b)'
            BY <2>1, <5>2 DEF Inside
          <5>4. QED
            BY <1>2, <2>1, <3>1, <4>2, <5>3
        <4>3. CASE parent.pc = b
          BY <1>2, <2>1, <3>1, <4>3
        <4>4. QED
          BY <4>1, <4>2, <4>3
      <3>2. CASE a # b
        <4>1. \A d \in Child : child[d].pc = a => child'[d].pc = a
          BY <2>1, <3>2
        <4>2. barrier'[a] = barrier[a]
          BY <1>1, <2>1, <3>2
        <4>3. QED
          BY <1>2, <4>1, <4>2, InsideStays
      <3>3. QED
        BY <3>1, <3>2
    <2>3. QED
      BY <1>2, <2>1, <2>2 DEF BarriersTurn, Working
  <1>17. QED
    BY <1>5, <1>6, <1>7, <1>10, <1>11, <1>12, <1>13, <1>14, <1>15, <1>16 DEF HealthyNext

LEMMA SameKind ==
  ASSUME HealthyNext
  PROVE  kind' = kind /\ sound' = sound
  BY DEF HealthyNext, StartChild, Boot, Call, ChildLeaves, ChildRaises, Open, ParentLeaves,
         ReadReady, CreateTask, Collect, Judge

LEMMA Numbers ==
  ASSUME Placed
  PROVE  /\ parent.round \in Nat /\ parent \in ParentState
         /\ barrier \in [Barrier -> BarrierState]
         /\ kind \in {"claim", "idempotency"}
         /\ \A c \in Child : child[c].round \in 0..MaxRound /\ child[c].round \in Nat
                             /\ Place(child[c])
  <1>1. parent \in ParentState /\ barrier \in [Barrier -> BarrierState]
        /\ kind \in {"claim", "idempotency"}
    BY DEF Placed, ParentPlaced, BarriersTyped, EndTyped
  <1>2. parent.round \in Nat
    <2>1. parent.round \in 0..MaxRound
      BY <1>1 DEF ParentState
    <2>2. QED
      BY <2>1, SomeRound
  <1>3. ASSUME NEW c \in Child
        PROVE  child[c].round \in 0..MaxRound /\ child[c].round \in Nat /\ Place(child[c])
    <2>1. Place(child[c])
      BY ChildIsPlaced DEF Placed
    <2>2. QED
      BY <2>1, SomeRound DEF Place, ChildState
  <1>4. QED
    BY <1>1, <1>2, <1>3

(* The parent's steps, by what it is at.                                   *)
LEMMA WorkBefore ==
  ASSUME Placed, HealthyNext, Working'
  PROVE  Working
  <1>1. parent \in ParentState
    BY Numbers
  <1>2. ~Judge
    BY <1>1 DEF Judge, Parent, ParentState, Working
  <1>3. CASE parent' = parent
    BY <1>3 DEF Working
  <1>4. CASE parent.pc \in {"starting", "reading ready", "creating", "collecting"} \cup Barrier
    BY <1>4, BarrierNames DEF Working
  <1>5. QED
    BY <1>2, <1>3, <1>4 DEF HealthyNext, StartChild, Boot, Call, ChildLeaves, ChildRaises, Open,
           ParentLeaves, ReadReady, CreateTask, Collect

LEMMA ParentLeft ==
  ASSUME Placed, NEW b \in Barrier, ParentLeaves(b)
  PROVE  /\ parent.pc = b /\ barrier[b] = "draining"
         /\ parent'.pc = IF b = "start" THEN "finish"
                         ELSE IF b = "ready" /\ kind = "claim" THEN "creating" ELSE "collecting"
         /\ parent'.round = IF b = "ready" THEN 1 ELSE parent.round
         /\ \A a \in Barrier : barrier'[a] = barrier[a] \/ (a = b /\ barrier'[a] = "filling")
         /\ child' = child /\ results' = results /\ resultQueue' = resultQueue
  <1>1. parent \in ParentState /\ barrier \in [Barrier -> BarrierState]
    BY Numbers
  <1> DEFINE pc == IF b = "start" THEN "finish"
                   ELSE IF b = "ready" /\ kind = "claim" THEN "creating" ELSE "collecting"
             r == IF b = "ready" THEN 1 ELSE parent.round
  <1>2. parent' = [parent EXCEPT !.pc = pc, !.round = r]
    BY DEF ParentLeaves
  <1> HIDE DEF pc, r
  <1>3. parent'.pc = pc /\ parent'.round = r
    BY <1>1, <1>2 DEF ParentState
  <1>4. \A a \in Barrier : barrier'[a] = barrier[a] \/ (a = b /\ barrier'[a] = "filling")
    BY <1>1 DEF ParentLeaves, AfterLeaving
  <1>5. QED
    BY <1>3, <1>4 DEF ParentLeaves, pc, r

LEMMA Collecting ==
  ASSUME Placed, BarriersTurn, Collect
  PROVE  /\ parent.pc = "collecting" /\ child' = child
         /\ \/ UNCHANGED <<parent, barrier>> /\ Collected + 1 < N
            \/ /\ parent'.pc = "creating" /\ parent'.round = parent.round + 1
               /\ parent.round + 1 \in Rounds /\ barrier' = barrier /\ ~(Collected + 1 < N)
            \/ /\ parent'.pc = "cleaning" /\ parent'.round = parent.round
               /\ parent.round + 1 \notin Rounds /\ ~(Collected + 1 < N)
  <1>1. parent \in ParentState
    BY Numbers
  <1>2. CASE Collected + 1 < N
    BY <1>2 DEF Collect, N
  <1>3. CASE ~(Collected + 1 < N) /\ parent.round + 1 \in Rounds
    <2>1. parent' = [parent EXCEPT !.pc = "creating", !.round = parent.round + 1] /\ barrier' = barrier
      BY <1>3 DEF Collect, N
    <2>2. parent'.pc = "creating" /\ parent'.round = parent.round + 1
      BY <1>1, <2>1 DEF ParentState
    <2>3. QED
      BY <1>3, <2>1, <2>2 DEF Collect
  <1>4. CASE ~(Collected + 1 < N) /\ parent.round + 1 \notin Rounds
    <2>1. Clean(FALSE)
      BY <1>4 DEF Collect, N
    <2>2. parent'.pc = "cleaning" /\ parent'.round = parent.round
      <3>1. Jammed = {}
        BY DEF BarriersTurn, Jammed
      <3>2. parent' = [parent EXCEPT !.pc = "cleaning", !.failed = FALSE]
        BY <2>1, <3>1 DEF Clean
      <3>3. QED
        BY <1>1, <3>2 DEF ParentState
    <2>3. QED
      BY <1>4, <2>2 DEF Collect
  <1>5. QED
    BY <1>2, <1>3, <1>4

Idle == UNCHANGED <<barrier, child, results, resultQueue>>

(* Reading who is ready, and creating a task.                              *)
LEMMA ParentGoesOn ==
  ASSUME Placed, Well
  PROVE  /\ ReadReady => /\ parent.pc = "reading ready" /\ parent'.pc \in {"reading ready", "ready"}
                         /\ parent'.round = parent.round /\ Idle
         /\ CreateTask => /\ parent.pc = "creating" /\ parent'.pc = "start"
                          /\ parent'.round = parent.round /\ Idle
         /\ Judge => /\ parent.pc = "cleaning" /\ parent'.pc = "over"
                     /\ parent'.round = parent.round /\ Idle
         /\ \A c \in Child : StartChild(c) =>
              /\ parent.pc = "starting" /\ parent'.pc \in {"starting", "reading ready"}
              /\ parent'.round = parent.round /\ UNCHANGED <<barrier, results, resultQueue>>
  <1>1. parent \in ParentState /\ ~ \E c \in Child : child[c].error
    BY Numbers DEF Well
  <1>2. ASSUME NEW pc, Parent(pc) PROVE parent'.pc = pc /\ parent'.round = parent.round
    BY <1>1, <1>2 DEF Parent, ParentState
  <1>3. ReadReady => /\ parent.pc = "reading ready" /\ parent'.pc \in {"reading ready", "ready"}
                     /\ parent'.round = parent.round /\ Idle
    BY <1>1, <1>2 DEF ReadReady, Idle
  <1>4. CreateTask => /\ parent.pc = "creating" /\ parent'.pc = "start"
                      /\ parent'.round = parent.round /\ Idle
    BY <1>2 DEF CreateTask, Idle
  <1>5. Judge => /\ parent.pc = "cleaning" /\ parent'.pc = "over"
                 /\ parent'.round = parent.round /\ Idle
    BY <1>2 DEF Judge, Idle
  <1>6. ASSUME NEW c \in Child, StartChild(c)
        PROVE  /\ parent.pc = "starting" /\ parent'.pc \in {"starting", "reading ready"}
               /\ parent'.round = parent.round /\ UNCHANGED <<barrier, results, resultQueue>>
    BY <1>2, <1>6 DEF StartChild
  <1>7. QED
    BY <1>3, <1>4, <1>5, <1>6

-----------------------------------------------------------------------------
(* Nobody is a round ahead.                                                *)

LEMMA InStepSame ==
  ASSUME NEW d \in Child, InStep(d), child'[d] = child[d], child[d].round \in Nat,
         parent.round \in Nat, parent'.round \in Nat, parent.round <= parent'.round,
         Ahead' = Ahead, parent.round <= Ahead,
         barrier'["start"] = "draining" => barrier["start"] = "draining",
         barrier'["finish"] = "draining" => barrier["finish"] = "draining"
  PROVE  InStep(d)'
  <1>1. Ahead \in Nat
    BY DEF Ahead
  <1>2. child[d].pc = "start" => child[d].round <= (IF barrier'["start"] = "draining"
                                                     THEN parent'.round ELSE Ahead)
    BY <1>1 DEF InStep
  <1>3. child[d].pc \in {"calling", "finish"} => child[d].round <= parent'.round
    BY DEF InStep
  <1>4. barrier'["finish"] = "draining" =>
          child[d].pc # "calling" /\ (child[d].pc = "finish" => child[d].round < Ahead)
    BY DEF InStep
  <1>5. QED
    BY <1>2, <1>3, <1>4 DEF InStep

LEMMA AheadIsRound ==
  ASSUME Placed, Counted
  PROVE  Ahead \in Nat /\ parent.round <= Ahead /\ 1 <= Ahead
  <1>1. parent.round \in Nat
    BY Numbers
  <1>2. parent.pc \in {"creating", "start", "finish"} => 1 <= parent.round
    <2>1. \A r \in Rounds : 1 <= r
      BY SomeRound DEF Rounds
    <2>2. QED
      BY <2>1 DEF Counted
  <1>3. QED
    BY <1>1, <1>2 DEF Ahead

LEMMA ChildKeepsStep ==
  ASSUME Placed, Well, BarriersTurn, Synchronous, Counted, kind = "claim", Working,
         parent' = parent,
         NEW c \in Child,
         \/ Boot(c) /\ faults = 0 /\ faults' = 0
         \/ Call(c)
         \/ \E b \in Barrier : ChildLeaves(c, b) \/ ChildRaises(c, b)
  PROVE  \A d \in Child : InStep(d)'
  <1>1. /\ \A d \in Child : InStep(d) /\ child[d].round \in Nat /\ Place(child[d])
        /\ barrier \in [Barrier -> BarrierState]
        /\ parent.round \in Nat /\ Ahead \in Nat /\ parent.round <= Ahead /\ 1 <= Ahead
        /\ \A b \in Barrier : barrier[b] # "broken"
        /\ \A a, b \in Barrier : barrier[a] = "draining" /\ barrier[b] = "draining" => a = b
        /\ parent'.round = parent.round /\ parent'.round \in Nat
    BY Numbers, AheadIsRound DEF Synchronous, BarriersTurn
  <1>2. ASSUME \A d \in Child : d # c => child'[d] = child[d], InStep(c)', Ahead' = Ahead,
               barrier'["start"] = "draining" => barrier["start"] = "draining",
               barrier'["finish"] = "draining" => barrier["finish"] = "draining"
        PROVE  \A d \in Child : InStep(d)'
    <2>1. ASSUME NEW d \in Child PROVE InStep(d)'
      <3>1. CASE d = c
        BY <1>2, <3>1
      <3>2. CASE d # c
        BY <1>1, <1>2, <3>2, InStepSame
      <3>3. QED
        BY <3>1, <3>2
    <2>2. QED
      BY <2>1
  <1>3. CASE Boot(c) /\ faults = 0 /\ faults' = 0
    <2>1. Moved(c, "ready", child[c].round) /\ barrier' = barrier
      BY <1>3, BootMoves DEF Boot
    <2>2. InStep(c)' /\ Ahead' = Ahead
      BY <2>1 DEF Moved, InStep, Ahead
    <2>3. QED
      BY <1>2, <2>1, <2>2 DEF Moved
  <1>4. CASE Call(c)
    <2>1. child[c].pc = "calling" /\ Moved(c, "finish", child[c].round) /\ barrier' = barrier
      BY <1>4, CallMoves DEF Call
    <2>2. child[c].round <= parent.round /\ barrier["finish"] # "draining"
      BY <1>1, <2>1 DEF InStep
    <2>3. InStep(c)' /\ Ahead' = Ahead
      BY <2>1, <2>2 DEF Moved, InStep, Ahead
    <2>4. QED
      BY <1>2, <2>1, <2>3 DEF Moved
  <1>5. ASSUME NEW b \in Barrier, ChildRaises(c, b) PROVE FALSE
    BY <1>1, <1>5 DEF ChildRaises
  <1>6. ASSUME NEW b \in Barrier, ChildLeaves(c, b) PROVE \A d \in Child : InStep(d)'
    <2> DEFINE r == IF NextPc(c, b) = "ended" \/ b = "start" THEN child[c].round
                    ELSE child[c].round + 1
    <2>1. child[c].pc = b /\ Moved(c, NextPc(c, b), r) /\ barrier[b] = "draining"
      BY <1>6, LeaveMoves DEF ChildLeaves
    <2>2. \A a \in Barrier : \/ barrier'[a] = barrier[a]
                             \/ a = b /\ barrier'[a] = "filling" /\ parent.pc # b
      BY <1>1, <1>6 DEF ChildLeaves, AfterLeaving
    <2>3. Ahead' = Ahead
      BY <2>2, BarrierNames DEF Ahead
    <2>4. /\ barrier'["start"] = "draining" => barrier["start"] = "draining"
          /\ barrier'["finish"] = "draining" => barrier["finish"] = "draining"
      BY <2>2, BarrierNames
    <2>5. InStep(c)'
      <3>1. CASE b = "ready"
        <4>1. NextPc(c, b) = "start" /\ child[c].round = 0 /\ r = 1
          BY <1>1, <2>1, <3>1 DEF NextPc, Place
        <4>2. barrier'["start"] # "draining"
          BY <1>1, <2>1, <2>4, <3>1, BarrierNames
        <4>3. child'[c].pc = "start" /\ child'[c].round = 1
          BY <2>1, <4>1 DEF Moved
        <4>4. child'[c].round <= Ahead'
          BY <1>1, <2>3, <4>3
        <4>5. QED
          BY <4>2, <4>3, <4>4 DEF InStep
      <3>2. CASE b = "start"
        <4>1. NextPc(c, b) = "calling" /\ r = child[c].round
          BY <3>2 DEF NextPc
        <4>2. child[c].round <= parent.round
          BY <1>1, <2>1, <3>2 DEF InStep
        <4>3. barrier'["finish"] # "draining"
          BY <1>1, <2>1, <2>4, <3>2, BarrierNames
        <4>4. child'[c].pc = "calling" /\ child'[c].round <= parent'.round
          BY <1>1, <2>1, <4>1, <4>2 DEF Moved
        <4>5. QED
          BY <4>3, <4>4 DEF InStep
      <3>3. CASE b = "finish"
        <4>1. NextPc(c, b) \in {"start", "ended"}
          BY <3>3 DEF NextPc
        <4>2. child[c].round < Ahead
          BY <1>1, <2>1, <3>3 DEF InStep
        <4>3. barrier'["start"] # "draining"
          BY <1>1, <2>1, <2>4, <3>3, BarrierNames
        <4>4. CASE NextPc(c, b) = "ended"
          BY <2>1, <4>4 DEF Moved, InStep
        <4>5. CASE NextPc(c, b) = "start"
          <5>1. r = child[c].round + 1
            BY <3>3, <4>5
          <5>2. child'[c].pc = "start" /\ child'[c].round <= Ahead'
            BY <1>1, <2>1, <2>3, <4>2, <4>5, <5>1 DEF Moved
          <5>3. QED
            BY <4>3, <5>2 DEF InStep
        <4>6. QED
          BY <4>1, <4>4, <4>5
      <3>4. QED
        BY <3>1, <3>2, <3>3 DEF Barrier
    <2>6. QED
      BY <1>2, <2>1, <2>3, <2>4, <2>5 DEF Moved
  <1>7. QED
    BY <1>3, <1>4, <1>5, <1>6

LEMMA ParentKeepsStep ==
  ASSUME Placed, Placed', Well, BarriersTurn, Synchronous, Counted, kind = "claim", Working, Working',
         \/ \E c \in Child : StartChild(c)
         \/ \E b \in Barrier : Open(b) \/ ParentLeaves(b)
         \/ ReadReady \/ CreateTask \/ Collect
  PROVE  \A d \in Child : InStep(d)'
  <1>1. /\ \A d \in Child : InStep(d) /\ child[d].round \in Nat
        /\ barrier \in [Barrier -> BarrierState]
        /\ parent.round \in Nat /\ Ahead \in Nat /\ parent.round <= Ahead /\ 1 <= Ahead
        /\ \A a, b \in Barrier : barrier[a] = "draining" /\ barrier[b] = "draining" => a = b
        /\ parent'.round \in Nat
    <2>1. parent'.round \in 0..MaxRound
      BY DEF Placed, ParentPlaced, ParentState
    <2>2. parent'.round \in Nat
      BY <2>1, SomeRound
    <2>3. QED
      BY <2>2, Numbers, AheadIsRound DEF Synchronous, BarriersTurn
  <1>2. ASSUME child' = child, Ahead' = Ahead, parent.round <= parent'.round,
               barrier'["start"] = "draining" => barrier["start"] = "draining",
               barrier'["finish"] = "draining" => barrier["finish"] = "draining"
        PROVE  \A d \in Child : InStep(d)'
    BY <1>1, <1>2, InStepSame
  <1>3. parent'.round = parent.round => parent.round <= parent'.round
    <2>1. parent.round \in Nat
      BY Numbers
    <2>2. parent.round <= parent.round
      BY <2>1
    <2>3. QED
      BY <2>2
  <1>4. ASSUME NEW c \in Child, StartChild(c) PROVE \A d \in Child : InStep(d)'
    <2>1. /\ parent.pc = "starting" /\ parent'.pc \in {"starting", "reading ready"}
          /\ parent'.round = parent.round /\ barrier' = barrier
      BY <1>4, ParentGoesOn
    <2>2. parent.round <= parent'.round
      BY <1>3, <2>1
    <2>3. Ahead = parent.round + 1 /\ Ahead' = parent'.round + 1
      BY <2>1 DEF Ahead
    <2>4. Ahead' = Ahead
      BY <2>1, <2>3
    <2>5. Moved(c, "booting", child[c].round)
      BY <1>4, StartMoves
    <2>6. ASSUME NEW d \in Child PROVE InStep(d)'
      <3>1. CASE d = c
        BY <2>5, <3>1 DEF Moved, InStep
      <3>2. CASE d # c
        BY <1>1, <2>1, <2>2, <2>4, <2>5, <3>2, InStepSame DEF Moved
      <3>3. QED
        BY <3>1, <3>2
    <2>7. QED
      BY <2>6
  <1>5. CASE ReadReady \/ CreateTask
    <2>1. /\ UNCHANGED <<barrier, child>> /\ parent'.round = parent.round
          /\ \/ parent.pc = "reading ready" /\ parent'.pc \in {"reading ready", "ready"}
             \/ parent.pc = "creating" /\ parent'.pc = "start"
      BY <1>5, ParentGoesOn DEF Idle
    <2>2. parent.round <= parent'.round
      BY <1>3, <2>1
    <2>3. CASE parent.pc = "reading ready" /\ parent'.pc \in {"reading ready", "ready"}
      <3>1. Ahead = parent.round + 1 /\ Ahead' = parent'.round + 1
        BY <2>3 DEF Ahead
      <3>2. QED
        BY <1>2, <2>1, <2>2, <3>1
    <2>4. CASE parent.pc = "creating" /\ parent'.pc = "start"
      <3>1. Ahead = parent.round /\ Ahead' = parent'.round
        BY <2>4 DEF Ahead
      <3>2. QED
        BY <1>2, <2>1, <2>2, <3>1
    <2>5. QED
      BY <2>1, <2>3, <2>4
  <1>6. CASE Collect
    <2>1. /\ parent.pc = "collecting" /\ child' = child /\ barrier' = barrier
          /\ \/ parent' = parent
             \/ parent'.pc = "creating" /\ parent'.round = parent.round + 1
      BY <1>6, Collecting DEF Working
    <2>2. Ahead = parent.round + 1
      BY <2>1 DEF Ahead
    <2>3. CASE parent' = parent
      <3>1. Ahead' = Ahead
        BY <2>1, <2>3 DEF Ahead
      <3>2. parent.round <= parent'.round
        BY <1>1, <2>3
      <3>3. QED
        BY <1>2, <2>1, <3>1, <3>2
    <2>4. CASE parent'.pc = "creating" /\ parent'.round = parent.round + 1
      <3>1. Ahead' = Ahead
        BY <2>2, <2>4 DEF Ahead
      <3>2. parent.round <= parent'.round
        BY <1>1, <2>4
      <3>3. QED
        BY <1>2, <2>1, <3>1, <3>2
    <2>5. QED
      BY <2>1, <2>3, <2>4
  <1>7. ASSUME NEW b \in Barrier, ParentLeaves(b) PROVE \A d \in Child : InStep(d)'
    <2>1. /\ parent.pc = b /\ barrier[b] = "draining" /\ child' = child
          /\ parent'.pc = IF b = "start" THEN "finish"
                          ELSE IF b = "ready" THEN "creating" ELSE "collecting"
          /\ parent'.round = IF b = "ready" THEN 1 ELSE parent.round
          /\ \A a \in Barrier : barrier'[a] = "draining" => barrier[a] = "draining"
      BY <1>7, ParentLeft
    <2>2. b = "ready" => parent.round = 0
      BY <2>1 DEF Counted
    <2>3. parent.round <= parent'.round
      BY <1>1, <2>1, <2>2
    <2>4. Ahead' = Ahead
      <3>1. CASE b = "ready"
        <4>1. parent.pc = "ready" /\ parent'.pc = "creating" /\ parent.round = 0 /\ parent'.round = 1
          BY <2>1, <2>2, <3>1
        <4>2. QED
          BY <4>1 DEF Ahead
      <3>2. CASE b = "start"
        <4>1. parent.pc = "start" /\ parent'.pc = "finish" /\ parent'.round = parent.round
          BY <2>1, <3>2
        <4>2. barrier'["finish"] # "draining"
          BY <1>1, <2>1, <3>2, BarrierNames
        <4>3. QED
          BY <4>1, <4>2 DEF Ahead
      <3>3. CASE b = "finish"
        <4>1. parent.pc = "finish" /\ parent'.pc = "collecting" /\ parent'.round = parent.round
              /\ barrier["finish"] = "draining"
          BY <2>1, <3>3
        <4>2. QED
          BY <4>1 DEF Ahead
      <3>4. QED
        BY <3>1, <3>2, <3>3 DEF Barrier
    <2>5. QED
      BY <1>2, <2>1, <2>3, <2>4, BarrierNames
  <1>8. ASSUME NEW b \in Barrier, Open(b) PROVE \A d \in Child : InStep(d)'
    <2>1. /\ parent.pc = b /\ parent' = parent /\ child' = child /\ barrier[b] = "filling"
          /\ \A d \in Child : child[d].pc = b
          /\ barrier'[b] = "draining" /\ \A a \in Barrier : a # b => barrier'[a] = barrier[a]
      BY <1>1, <1>8 DEF Open, At
    <2>2. ASSUME NEW d \in Child PROVE InStep(d)'
      <3>1. child'[d] = child[d] /\ child[d].pc = b /\ InStep(d) /\ child[d].round \in Nat
        BY <1>1, <2>1
      <3>2. CASE b = "ready"
        BY <3>1, <3>2 DEF InStep
      <3>3. CASE b = "start"
        <4>1. child[d].round <= parent.round
          BY <2>1, <3>1, <3>3 DEF InStep, Ahead
        <4>2. QED
          BY <2>1, <3>1, <3>3, <4>1 DEF InStep
      <3>4. CASE b = "finish"
        <4>1. child[d].round <= parent.round
          BY <3>1, <3>4 DEF InStep
        <4>2. Ahead' = parent.round + 1
          BY <2>1, <3>4 DEF Ahead
        <4>3. child[d].round < Ahead'
          BY <1>1, <3>1, <4>1, <4>2
        <4>4. QED
          BY <2>1, <3>1, <3>4, <4>1, <4>3 DEF InStep
      <3>5. QED
        BY <3>2, <3>3, <3>4 DEF Barrier
    <2>3. QED
      BY <2>2
  <1>9. QED
    BY <1>4, <1>5, <1>6, <1>7, <1>8

LEMMA SynchronousStays ==
  ASSUME Placed, Placed', Well, BarriersTurn, Synchronous, Counted,
         Healthy, Healthy', HealthyNext
  PROVE  Synchronous'
  <1>1. kind' = kind /\ faults = 0 /\ faults' = 0
    BY SameKind DEF Healthy
  <1>2. ASSUME kind = "claim", Working' PROVE \A c \in Child : InStep(c)'
    <2>1. Working
      BY <1>2, WorkBefore
    <2>2. ~Judge
      BY <1>2, ParentGoesOn DEF Working
    <2>3. ASSUME NEW c \in Child,
                 Boot(c) \/ Call(c) \/ \E b \in Barrier : ChildLeaves(c, b) \/ ChildRaises(c, b)
          PROVE  \A d \in Child : InStep(d)'
      <3>1. parent' = parent
        BY <2>3 DEF Boot, Call, ChildLeaves, ChildRaises
      <3>2. QED
        BY <1>1, <1>2, <2>1, <2>3, <3>1, ChildKeepsStep
    <2>4. QED
      BY <1>2, <2>1, <2>2, <2>3, ParentKeepsStep DEF HealthyNext
  <1>3. ASSUME kind = "idempotency", NEW d \in Child PROVE child'[d].round <= 1
    <2>1. child[d].round <= 1
      BY <1>3 DEF Synchronous
    <2>2. ASSUME NEW c \in Child, NEW pc, NEW r, Moved(c, pc, r), r <= 1
          PROVE  child'[d].round <= 1
      BY <2>1, <2>2 DEF Moved
    <2>3. \A c \in Child : child[c].round <= 1
      BY <1>3 DEF Synchronous
    <2>4. ASSUME NEW c \in Child, StartChild(c) \/ Boot(c) \/ Call(c)
          PROVE  child'[d].round <= 1
      BY <1>1, <2>2, <2>3, <2>4, StartMoves, BootMoves, CallMoves
    <2>5. ASSUME NEW c \in Child, NEW b \in Barrier, ChildRaises(c, b)
          PROVE  child'[d].round <= 1
      BY <2>2, <2>3, <2>5, RaiseMoves
    <2>6. ASSUME NEW c \in Child, NEW b \in Barrier, ChildLeaves(c, b)
          PROVE  child'[d].round <= 1
      <3> DEFINE r == IF NextPc(c, b) = "ended" \/ b = "start" THEN child[c].round
                      ELSE child[c].round + 1
      <3>1. child[c].pc = b /\ Moved(c, NextPc(c, b), r)
        BY <2>6, LeaveMoves
      <3>2. Place(child[c])
        BY Numbers
      <3>3. b = "ready" /\ child[c].round = 0
        BY <1>3, <3>1, <3>2 DEF Place, Barrier
      <3>4. r <= 1
        BY <3>3
      <3>5. QED
        BY <2>2, <3>1, <3>4
    <2>7. CASE child' = child
      BY <2>1, <2>7
    <2>8. QED
      BY <2>4, <2>5, <2>6, <2>7
         DEF HealthyNext, Open, ParentLeaves, ReadReady, CreateTask, Collect, Judge
  <1>4. QED
    BY <1>1, <1>2, <1>3 DEF Synchronous

-----------------------------------------------------------------------------
(* The parent takes what it must.                                          *)

LEMMA RoundNumbers ==
  /\ N \in Nat /\ 1 <= N
  /\ 1 \in Rounds /\ \A r \in Rounds : r \in 1..MaxRound /\ r \in Nat /\ 1 <= r
  /\ \A r \in Rounds : (r - 1) * N \in Nat /\ r * N = (r - 1) * N + N /\ (r + 1) - 1 = r
  /\ \A r \in Rounds : r + 1 \in Rounds => kind = "claim"
  <1>1. N \in Nat
    BY HarnessAssumption, FS_CardinalityType DEF HarnessAssumption, N
  <1>2. N # 0
    BY HarnessAssumption, FS_EmptySet DEF HarnessAssumption, N
  <1>3. 1 \in Rounds /\ \A r \in Rounds : r \in 1..MaxRound
    BY SomeRound DEF Rounds
  <1>4. \A r \in Rounds : r \in Nat /\ 1 <= r
    BY <1>3, SomeRound
  <1>5. ASSUME NEW r \in Rounds
        PROVE  (r - 1) * N \in Nat /\ r * N = (r - 1) * N + N /\ (r + 1) - 1 = r
    <2>1. r \in Nat /\ 1 <= r
      BY <1>4
    <2>2. PICK q \in Nat : r = q + 1
      <3>1. r - 1 \in Nat /\ r = (r - 1) + 1
        BY <2>1
      <3>2. QED
        BY <3>1
    <2>3. r - 1 = q /\ q * N \in Nat /\ (q + 1) * N = q * N + N
      BY <1>1, <2>2
    <2>4. QED
      BY <2>1, <2>2, <2>3
  <1>6. \A r \in Rounds : r + 1 \in Rounds => kind = "claim"
    BY <1>4 DEF Rounds
  <1>7. QED
    BY <1>1, <1>2, <1>3, <1>4, <1>5, <1>6

LEMMA CountedSame ==
  ASSUME Counted, kind' = kind, results' = results, parent'.pc = parent.pc,
         parent'.round = parent.round
  PROVE  Counted'
  BY DEF Counted, Rounds, Working

LEMMA CountedCollect ==
  ASSUME Placed, BarriersTurn, Counted, OneMessageEach, Collect
  PROVE  Counted'
  <1>1. kind' = kind /\ Rounds' = Rounds
    BY DEF Collect, Rounds
  <1>2. PICK m \in resultQueue : results' = results \cup {m}
    BY DEF Collect
  <1>3. /\ IsFiniteSet(results') /\ Cardinality(results') = Cardinality(results) + 1
        /\ Cardinality(results) \in Nat
    <2>1. m \notin results
      BY DEF OneMessageEach
    <2>2. QED
      BY <1>2, <2>1, FS_AddElement, FS_CardinalityType DEF Counted
  <1>4. parent.pc = "collecting"
    BY DEF Collect
  <1> DEFINE r == parent.round
             k == Cardinality(results)
             a == (r - 1) * N
  <1>5. r \in Rounds /\ a <= k /\ k < r * N
    BY <1>4 DEF Counted
  <1>6. N \in Nat /\ a \in Nat /\ r * N = a + N /\ (r + 1) - 1 = r /\ k \in Nat
    BY <1>3, <1>5, RoundNumbers
  <1>7. Collected = k - a
    BY DEF Collected, N
  <1> HIDE DEF k, a, r
  <1>8. CASE parent' = parent /\ Collected + 1 < N
    <2>1. a <= k + 1 /\ k + 1 < r * N
      BY <1>5, <1>6, <1>7, <1>8
    <2>2. parent'.pc = "collecting" /\ parent'.round = r
      BY <1>4, <1>8 DEF r
    <2>3. QED
      BY <1>1, <1>3, <1>5, <2>1, <2>2 DEF Counted, Working, k, a
  <1>9. ASSUME ~(Collected + 1 < N) PROVE Cardinality(results') = r * N
    <2>1. k + 1 = r * N
      BY <1>5, <1>6, <1>7, <1>9
    <2>2. QED
      BY <1>3, <2>1 DEF k
  <1>10. CASE parent'.pc = "creating" /\ parent'.round = r + 1 /\ r + 1 \in Rounds /\ ~(Collected + 1 < N)
    <2>1. kind = "claim"
      BY <1>5, <1>10, RoundNumbers
    <2>2. (parent'.round - 1) * N = r * N
      BY <1>6, <1>10
    <2>3. QED
      BY <1>1, <1>3, <1>9, <1>10, <2>1, <2>2 DEF Counted, Working
  <1>11. CASE parent'.pc = "cleaning" /\ parent'.round = r /\ r + 1 \notin Rounds /\ ~(Collected + 1 < N)
    BY <1>1, <1>3, <1>5, <1>9, <1>11 DEF Counted, Working
  <1>12. QED
    BY <1>8, <1>10, <1>11, Collecting DEF r

LEMMA CountedStays ==
  ASSUME Placed, Well, BarriersTurn, Counted, OneMessageEach, HealthyNext
  PROVE  Counted'
  <1>1. kind' = kind /\ Rounds' = Rounds
    BY SameKind DEF Rounds
  <1>2. CASE parent' = parent /\ results' = results
    BY <1>1, <1>2, CountedSame
  <1>3. CASE ReadReady \/ CreateTask \/ Judge \/ \E c \in Child : StartChild(c)
    <2>1. /\ parent'.round = parent.round /\ results' = results
          /\ \/ /\ parent.pc \in {"starting", "reading ready"}
                /\ parent'.pc \in {"starting", "reading ready", "ready"}
             \/ parent.pc = "creating" /\ parent'.pc = "start"
             \/ parent.pc = "cleaning" /\ parent'.pc = "over"
      BY <1>3, ParentGoesOn DEF Idle
    <2>2. QED
      BY <1>1, <2>1 DEF Counted, Working
  <1>4. ASSUME NEW b \in Barrier, ParentLeaves(b) PROVE Counted'
    <2>1. /\ parent.pc = b /\ results' = results
          /\ parent'.pc = IF b = "start" THEN "finish"
                          ELSE IF b = "ready" /\ kind = "claim" THEN "creating" ELSE "collecting"
          /\ parent'.round = IF b = "ready" THEN 1 ELSE parent.round
      BY <1>4, ParentLeft
    <2>2. CASE b = "ready"
      <3>1. results = {} /\ IsFiniteSet(results) /\ Cardinality(results) = 0
        BY <2>1, <2>2, FS_EmptySet DEF Counted
      <3>2. parent'.round = 1 /\ parent'.round \in Rounds /\ parent'.pc \in {"creating", "collecting"}
            /\ (parent'.pc = "creating" => kind = "claim")
        BY <2>1, <2>2, RoundNumbers
      <3>3. (parent'.round - 1) * N = 0 /\ 0 < parent'.round * N
        <4>1. ASSUME NEW n \in Nat, 1 <= n PROVE (1 - 1) * n = 0 /\ 0 < 1 * n
          BY <4>1
        <4>2. (1 - 1) * N = 0 /\ 0 < 1 * N
          BY <4>1, RoundNumbers
        <4>3. parent'.round = 1
          BY <3>2
        <4>4. (parent'.round - 1) * N = (1 - 1) * N /\ parent'.round * N = 1 * N
          BY <4>3, Zenon
        <4>5. QED
          BY <4>2, <4>4, Zenon
      <3>4. /\ IsFiniteSet(results') /\ parent'.round \in Rounds'
            /\ Cardinality(results') = (parent'.round - 1) * N
            /\ (parent'.round - 1) * N <= Cardinality(results')
            /\ Cardinality(results') < parent'.round * N
        BY <1>1, <2>1, <3>1, <3>2, <3>3
      <3>5. parent'.pc = "creating" => kind' = "claim"
        BY <1>1, <3>2
      <3>6. Working' /\ parent'.pc \in {"creating", "collecting"}
        BY <3>2 DEF Working
      <3>7. QED
        BY <3>4, <3>5, <3>6 DEF Counted
    <2>3. CASE b = "start"
      BY <1>1, <2>1, <2>3 DEF Counted, Working
    <2>4. CASE b = "finish"
      <3>1. /\ parent'.pc = "collecting" /\ parent'.round = parent.round /\ parent.round \in Rounds
            /\ Cardinality(results) = (parent.round - 1) * N /\ IsFiniteSet(results)
        BY <2>1, <2>4 DEF Counted
      <3>2. (parent.round - 1) * N \in Nat /\ (parent.round - 1) * N < parent.round * N
            /\ (parent.round - 1) * N <= (parent.round - 1) * N
        <4> DEFINE a == (parent.round - 1) * N
        <4>1. a \in Nat /\ parent.round * N = a + N /\ N \in Nat /\ 1 <= N
          BY <3>1, RoundNumbers
        <4>2. ASSUME NEW x \in Nat, NEW n \in Nat, 1 <= n PROVE x < x + n /\ x <= x
          BY <4>2
        <4>3. a < a + N /\ a <= a
          BY <4>1, <4>2
        <4> HIDE DEF a
        <4>4. a < parent.round * N
          BY <4>1, <4>3
        <4>5. QED
          BY <4>1, <4>3, <4>4 DEF a
      <3>3. QED
        BY <1>1, <2>1, <3>1, <3>2 DEF Counted, Working
    <2>5. QED
      BY <2>2, <2>3, <2>4 DEF Barrier
  <1>5. CASE Collect
    BY <1>5, CountedCollect
  <1>6. QED
    BY <1>2, <1>3, <1>4, <1>5 DEF HealthyNext, Boot, Call, ChildLeaves, ChildRaises, Open

-----------------------------------------------------------------------------
(* The messages.                                                           *)

LEMMA TheRounds ==
  ASSUME Placed, Counted, ~Working
  PROVE  /\ Rounds = 1..parent.round /\ parent.round \in Nat /\ 1 <= parent.round
         /\ kind = "claim" => parent.round = MaxRound
  <1>1. parent.round \in Rounds /\ parent.round + 1 \notin Rounds
    BY DEF Counted
  <1>2. parent.round \in Nat /\ 1 <= parent.round
    BY <1>1, RoundNumbers
  <1>3. CASE kind = "claim"
    <2>1. Rounds = 1..MaxRound
      BY <1>3 DEF Rounds
    <2>2. parent.round = MaxRound
      BY <1>1, <1>2, <2>1, SomeRound
    <2>3. QED
      BY <1>2, <2>1, <2>2
  <1>4. CASE kind # "claim"
    <2>1. Rounds = {1}
      BY <1>4 DEF Rounds
    <2>2. parent.round = 1
      BY <1>1, <2>1
    <2>3. 1..1 = {1}
      OBVIOUS
    <2>4. QED
      BY <1>4, <2>1, <2>2, <2>3
  <1>5. QED
    BY <1>3, <1>4

(* The parent has one message of each child and round when it cleans up.   *)
LEMMA AllThere ==
  ASSUME Placed, Counted, OneMessageEach, ~Working, NEW r \in Rounds, NEW c \in Child
  PROVE  \E m \in results : ~m.error /\ m.round = r /\ m.child = c
  <1> DEFINE f == [m \in results |-> <<m.round, m.child>>]
             T == Rounds \X Child
  <1>1. ASSUME NEW m \in results
        PROVE  m \in Messages /\ ~m.error /\ <<m.round, m.child>> \in T
    <2>1. m \in Messages
      BY DEF Messages
    <2>2. ~m.error /\ m.round \in Rounds
      BY <2>1 DEF OneMessageEach
    <2>3. QED
      BY <2>1, <2>2, MessagesTyped
  <1>2. f \in Injection(results, T)
    <2>1. f \in [results -> T]
      BY <1>1
    <2>2. ASSUME NEW m \in results, NEW n \in results, f[m] = f[n]
          PROVE  m = n
      <3>1. m.round = n.round /\ m.child = n.child
        BY <2>2
      <3>2. QED
        BY <1>1, <3>1 DEF OneMessageEach
    <2>3. IsInjective(f)
      BY <2>2 DEF IsInjective
    <2>4. QED
      BY <2>1, <2>3 DEF Injection
  <1>3. IsFiniteSet(T) /\ Cardinality(T) = parent.round * N
    <2>1. Rounds = 1..parent.round /\ parent.round \in Nat /\ 1 <= parent.round
      BY TheRounds
    <2>2. 1 \in Int /\ parent.round \in Int
      BY <2>1
    <2>3. /\ IsFiniteSet(1..parent.round)
          /\ Cardinality(1..parent.round) = IF 1 > parent.round THEN 0 ELSE parent.round - 1 + 1
      BY <2>2, FS_Interval
    <2>4. IsFiniteSet(Rounds) /\ Cardinality(Rounds) = parent.round
      BY <2>1, <2>3
    <2>5. IsFiniteSet(Child)
      BY HarnessAssumption DEF HarnessAssumption
    <2>6. QED
      BY <2>4, <2>5, FS_Product DEF N
  <1>4. Cardinality(results) = Cardinality(T)
    BY <1>3 DEF Counted
  <1>5. f \in Surjection(results, T)
    BY <1>2, <1>3, <1>4, FS_Injection
  <1>6. <<r, c>> \in T
    OBVIOUS
  <1>7. PICK m \in results : f[m] = <<r, c>>
    BY <1>5, <1>6 DEF Surjection
  <1>8. m.round = r /\ m.child = c /\ ~m.error
    BY <1>1, <1>7
  <1>9. QED
    BY <1>8

(* The rounds go on.                                                       *)
LEMMA RoundGrows ==
  ASSUME Placed, Placed', Well, BarriersTurn, Counted, HealthyNext
  PROVE  /\ parent.round \in Nat /\ parent'.round \in Nat /\ parent.round <= parent'.round
         /\ ~Working => ~Working'
         /\ kind' = kind /\ Rounds' = Rounds
  <1>1. parent.round \in Nat /\ parent'.round \in Nat
    <2>1. parent.round \in Nat /\ parent'.round \in 0..MaxRound
      BY Numbers DEF Placed, ParentPlaced, ParentState
    <2>2. QED
      BY <2>1, SomeRound
  <1>2. ASSUME NEW p \in Nat, NEW q \in Nat, p = q \/ q = p + 1 PROVE p <= q
    BY <1>2
  <1>3. parent'.round = parent.round \/ parent'.round = parent.round + 1
    <2>1. CASE parent' = parent
      BY <2>1
    <2>2. CASE ReadReady \/ CreateTask \/ Judge \/ \E c \in Child : StartChild(c)
      BY <2>2, ParentGoesOn
    <2>3. CASE Collect
      BY <2>3, Collecting
    <2>4. ASSUME NEW b \in Barrier, ParentLeaves(b)
          PROVE  parent'.round = parent.round \/ parent'.round = parent.round + 1
      <3>1. parent.pc = b /\ parent'.round = IF b = "ready" THEN 1 ELSE parent.round
        BY <2>4, ParentLeft
      <3>2. b = "ready" => parent.round = 0
        BY <3>1 DEF Counted
      <3>3. QED
        BY <3>1, <3>2
    <2>5. QED
      BY <2>1, <2>2, <2>3, <2>4 DEF HealthyNext, Boot, Call, ChildLeaves, ChildRaises, Open
  <1>4. parent.round <= parent'.round
    BY <1>1, <1>2, <1>3
  <1>5. ~Working => ~Working'
    BY WorkBefore
  <1>6. kind' = kind /\ Rounds' = Rounds
    BY SameKind DEF Rounds
  <1>7. QED
    BY <1>1, <1>4, <1>5, <1>6

(* A child that was in the last round stays there.                         *)
LEMMA LastRoundStays ==
  ASSUME Placed, Placed', Next, NEW c \in Child, child[c].round = MaxRound
  PROVE  child'[c].round = MaxRound
  <1>1. Advance(child[c], child'[c])
    BY NobodyGoesBack
  <1>2. child'[c].round \in 0..MaxRound
    BY DEF Placed, ChildrenPlaced, ChildState
  <1>3. QED
    BY <1>1, <1>2, SomeRound DEF Advance

MessagesSound == OneMessageEach /\ LateOnlyComplain /\ SoundTable

LEMMA FromHealthyNext == HealthyNext => Next
  BY DEF HealthyNext, Next, ParentStep, ChildStep

(* A step that reads or sends nothing, or reads an answer.                 *)
LEMMA MessagesKept ==
  ASSUME Placed, Placed', Well, BarriersTurn, Counted, HealthyNext, MessagesSound,
         Messages' = Messages, results' \cap resultQueue' = {},
         \A m \in results' : ~m.error /\ m.round <= parent.round,
         UNCHANGED service
  PROVE  MessagesSound'
  <1>1. /\ parent.round \in Nat /\ parent'.round \in Nat /\ parent.round <= parent'.round
        /\ ~Working => ~Working'
        /\ kind' = kind /\ Rounds' = Rounds
    BY RoundGrows
  <1>2. \A m \in Messages' : m \in Messages /\ m.round \in Nat /\ m.child \in Child
    BY MessagesTyped
  <1>3. ASSUME NEW k \in Nat, k <= parent.round PROVE k <= parent'.round
    BY <1>1, <1>3
  <1>4. \A m \in results' : ~m.error /\ m.round <= parent'.round
    BY <1>2, <1>3 DEF Messages
  <1>5. \A m \in Messages' : ~m.error =>
          m.round \in Rounds' /\ (kind' = "claim" /\ Working' => m.round <= parent'.round)
    BY <1>1, <1>2, <1>3 DEF MessagesSound, OneMessageEach
  <1>6. OneMessageEach'
    BY <1>2, <1>4, <1>5 DEF MessagesSound, OneMessageEach
  <1>7. LateOnlyComplain'
    BY <1>1, <1>2, LastRoundStays, FromHealthyNext DEF MessagesSound, LateOnlyComplain, NoRound
  <1>8. SoundTable'
    BY <1>2 DEF MessagesSound, SoundTable, service
  <1>9. QED
    BY <1>6, <1>7, <1>8 DEF MessagesSound

LEMMA MessageCollected ==
  ASSUME Placed, Placed', Well, BarriersTurn, Counted, HealthyNext, MessagesSound, Collect
  PROVE  MessagesSound'
  <1>1. PICK m \in resultQueue : resultQueue' = resultQueue \ {m} /\ results' = results \cup {m}
    BY DEF Collect
  <1>2. Messages' = Messages /\ results' \cap resultQueue' = {}
    BY <1>1 DEF Messages, MessagesSound, OneMessageEach
  <1>3. parent.pc = "collecting" /\ Working
    BY DEF Collect, Working
  <1>4. m \in Messages /\ ~m.error
    BY <1>1, <1>3 DEF Messages, MessagesSound, LateOnlyComplain
  <1>5. m.round <= parent.round
    <2>1. m.round \in Rounds /\ (kind = "claim" => m.round <= parent.round)
      BY <1>3, <1>4 DEF MessagesSound, OneMessageEach
    <2>2. CASE kind # "claim"
      <3>1. m.round = 1 /\ parent.round = 1
        BY <1>3, <2>1, <2>2 DEF Counted, Rounds
      <3>2. QED
        BY <3>1
    <2>3. QED
      BY <2>1, <2>2
  <1>6. \A n \in results' : ~n.error /\ n.round <= parent.round
    BY <1>1, <1>4, <1>5 DEF MessagesSound, OneMessageEach
  <1>7. UNCHANGED service
    BY DEF Collect
  <1>8. QED
    BY <1>2, <1>6, <1>7, MessagesKept

(* A complaint comes only from the last barrier, when all is over.         *)
LEMMA OnlyLateRaise ==
  ASSUME Placed, Placed', Well, BarriersTurn, Counted, HealthyNext, MessagesSound, CallsAreOver,
         NEW c \in Child, NEW b \in Barrier, ChildRaises(c, b)
  PROVE  MessagesSound'
  <1>1. /\ resultQueue' = resultQueue \cup {WorkerError(c)} /\ results' = results
        /\ parent' = parent /\ kind' = kind /\ UNCHANGED service
        /\ child[c].pc = b /\ barrier[b] = "broken"
    BY RaiseMoves DEF ChildRaises
  <1>2. ~Working /\ ~Working' /\ Rounds' = Rounds
    BY <1>1 DEF BarriersTurn, Working, Rounds
  <1>3. \A r \in Rounds : Called(c, r)
    <2>1. ASSUME NEW r \in Rounds PROVE Called(c, r)
      <3>1. PICK m \in results : ~m.error /\ m.round = r /\ m.child = c
        BY <1>2, AllThere DEF MessagesSound
      <3>2. QED
        BY <3>1 DEF CallsAreOver, Messages
    <2>2. QED
      BY <2>1
  <1>4. child[c].round \in 0..MaxRound /\ Place(child[c]) /\ kind \in {"claim", "idempotency"}
    BY Numbers
  <1>5. kind = "claim"
    <2> SUFFICES ASSUME kind # "claim" PROVE FALSE
      OBVIOUS
    <2>1. child[c].pc = "ready"
      BY <1>1, <1>4 DEF Place, Barrier
    <2>2. child[c].round = 0
      BY <1>4, <2>1 DEF Place
    <2>3. Called(c, 1)
      BY <1>3, RoundNumbers
    <2>4. QED
      BY <2>1, <2>2, <2>3 DEF Called
  <1>6. child[c].round = MaxRound
    <2>1. MaxRound \in Rounds
      BY <1>5, SomeRound DEF Rounds
    <2>2. Called(c, MaxRound)
      BY <1>3, <2>1
    <2>3. QED
      BY <1>4, <2>2, SomeRound DEF Called
  <1> DEFINE w == WorkerError(c)
  <1>7. w.error /\ w.child = c /\ w.round = NoRound
    BY DEF WorkerError
  <1>8. \A m \in Messages' : m \in Messages \/ m = w
    BY <1>1 DEF Messages
  <1> HIDE DEF w
  <1>9. w \notin results
    BY <1>7 DEF MessagesSound, OneMessageEach
  <1>10. OneMessageEach'
    <2>1. results' \cap resultQueue' = {}
      BY <1>1, <1>9 DEF MessagesSound, OneMessageEach, w
    <2>2. \A m \in results' : ~m.error /\ m.round <= parent'.round
      BY <1>1 DEF MessagesSound, OneMessageEach
    <2>3. \A m \in Messages' : ~m.error => m \in Messages
      BY <1>7, <1>8
    <2>4. QED
      BY <1>1, <1>2, <2>1, <2>2, <2>3 DEF MessagesSound, OneMessageEach
  <1>11. LateOnlyComplain'
    <2>1. child'[c].round = MaxRound
      BY <1>6, LastRoundStays, FromHealthyNext
    <2>2. ASSUME NEW m \in Messages', m.error
          PROVE  ~Working' /\ kind' = "claim" /\ m.round = NoRound /\ child'[m.child].round = MaxRound
      <3>1. CASE m = w
        BY <1>1, <1>2, <1>5, <1>7, <2>1, <3>1
      <3>2. CASE m \in Messages
        <4>1. m.child \in Child /\ m.round = NoRound /\ child[m.child].round = MaxRound
          BY <2>2, <3>2, MessagesTyped DEF MessagesSound, LateOnlyComplain
        <4>2. QED
          BY <1>1, <1>2, <1>5, <4>1, LastRoundStays, FromHealthyNext
      <3>3. QED
        BY <1>8, <3>1, <3>2
    <2>3. QED
      BY <2>2 DEF LateOnlyComplain, NoRound
  <1>12. SoundTable'
    BY <1>1, <1>7, <1>8 DEF MessagesSound, SoundTable, service
  <1>13. QED
    BY <1>10, <1>11, <1>12 DEF MessagesSound

(* A sound service lets the first call win, and enters who made it.        *)
LEMMA SoundAnswer ==
  ASSUME Placed, SoundTable, sound, NEW c \in Child, NEW r \in 1..MaxRound, NEW won \in BOOLEAN,
         Answered(c, r, won)
  PROVE  /\ owner'[r] # NULL /\ \A q \in 1..MaxRound : owner[q] # NULL => owner'[q] # NULL
         /\ \A q \in 1..MaxRound, d \in Child : <<q, d>> \in wins' <=> owner'[q] = d
  <1>1. /\ owner \in [1..MaxRound -> Child \cup {NULL}] /\ NULL \notin Child
        /\ \A q \in 1..MaxRound, d \in Child : <<q, d>> \in wins <=> owner[q] = d
    BY HarnessAssumption DEF Placed, ServiceTyped, SoundTable, HarnessAssumption
  <1>2. CASE owner[r] = NULL
    <2>1. wins' = wins \cup {<<r, c>>} /\ owner' = [owner EXCEPT ![r] = c]
      BY <1>2 DEF Answered
    <2>2. owner'[r] = c /\ \A q \in 1..MaxRound : q # r => owner'[q] = owner[q]
      BY <1>1, <2>1
    <2>3. ASSUME NEW q \in 1..MaxRound, NEW d \in Child
          PROVE  <<q, d>> \in wins' <=> owner'[q] = d
      <3>1. CASE q = r
        <4>1. <<q, d>> \notin wins
          BY <1>1, <1>2, <3>1
        <4>2. QED
          BY <2>1, <2>2, <3>1, <4>1
      <3>2. CASE q # r
        BY <1>1, <2>1, <2>2, <3>2
      <3>3. QED
        BY <3>1, <3>2
    <2>4. QED
      BY <1>1, <2>2, <2>3
  <1>3. CASE owner[r] # NULL
    <2>1. ~won
      BY <1>3 DEF Answered
    <2>2. wins' = wins /\ owner' = [owner EXCEPT ![r] = owner[r]]
      BY <2>1 DEF Answered
    <2>3. \A q \in 1..MaxRound : owner'[q] = owner[q]
      BY <1>1, <2>2
    <2>4. QED
      BY <1>1, <1>3, <2>2, <2>3
  <1>4. QED
    BY <1>2, <1>3

LEMMA MessageSent ==
  ASSUME Placed, Placed', Well, Synchronous, Counted, Healthy, Healthy', HealthyNext,
         MessagesSound, CallsAreOver, NEW c \in Child, Call(c)
  PROVE  MessagesSound'
  <1> DEFINE r == child[c].round
  <1>1. /\ parent' = parent /\ kind' = kind /\ results' = results /\ child[c].pc = "calling"
        /\ Working' = Working /\ Rounds' = Rounds
    BY CallMoves DEF Call, Working, Rounds
  <1>2. r \in 0..MaxRound /\ r \in Nat /\ r # 0 /\ kind \in {"claim", "idempotency"}
    BY <1>1, Numbers DEF Place
  <1>3. r \in Rounds /\ r \in 1..MaxRound
    <2>1. r \in 1..MaxRound
      BY <1>2, SomeRound
    <2>2. CASE kind = "claim"
      BY <2>1, <2>2 DEF Rounds
    <2>3. CASE kind = "idempotency"
      <3>1. r <= 1
        BY <2>3 DEF Synchronous
      <3>2. r = 1
        BY <1>2, <3>1
      <3>3. QED
        BY <2>1, <2>3, <3>2 DEF Rounds
    <2>4. QED
      BY <1>2, <2>2, <2>3
  <1>4. kind = "claim" /\ Working => r <= parent.round
    BY <1>1 DEF Synchronous, InStep
  <1>5. PICK won \in BOOLEAN :
          /\ Answered(c, r, won)
          /\ resultQueue' = resultQueue \cup
                              {[child |-> c, round |-> r, won |-> won, error |-> FALSE]}
    <2>1. ~child[c].error
      BY DEF Well
    <2>2. ~(faults' = faults + 1)
      BY DEF Healthy
    <2>3. QED
      BY <2>1, <2>2 DEF Call
  <1> DEFINE new == [child |-> c, round |-> r, won |-> won, error |-> FALSE]
  <1>6. new.child = c /\ new.round = r /\ ~new.error
    OBVIOUS
  <1>7. \A m \in Messages' : m \in Messages \/ m = new
    BY <1>1, <1>5 DEF Messages
  <1>8. results' \cap resultQueue' \subseteq (results \cap resultQueue) \cup (results \cap {new})
    BY <1>1, <1>5
  <1> HIDE DEF new
  <1>9. ASSUME NEW m \in Messages, ~m.error, m.round = r, m.child = c PROVE FALSE
    <2>1. Called(c, r)
      BY <1>9 DEF CallsAreOver
    <2>2. QED
      BY <1>1, <1>2, <2>1 DEF Called
  <1>10. results' \cap resultQueue' = {}
    <2>1. new \notin results
      BY <1>6, <1>9 DEF Messages
    <2>2. QED
      BY <1>8, <2>1 DEF MessagesSound, OneMessageEach
  <1>11. OneMessageEach'
    <2>1. \A m \in results' : ~m.error /\ m.round <= parent'.round
      BY <1>1 DEF MessagesSound, OneMessageEach
    <2>2. ASSUME NEW m \in Messages', ~m.error
          PROVE  m.round \in Rounds' /\ (kind' = "claim" /\ Working' => m.round <= parent'.round)
      <3>1. CASE m = new
        BY <1>1, <1>3, <1>4, <1>6, <3>1
      <3>2. CASE m \in Messages
        BY <1>1, <2>2, <3>2 DEF MessagesSound, OneMessageEach
      <3>3. QED
        BY <1>7, <3>1, <3>2
    <2>3. ASSUME NEW m \in Messages', NEW n \in Messages', ~m.error, ~n.error,
                 m.round = n.round, m.child = n.child
          PROVE  m = n
      <3>1. CASE m \in Messages /\ n \in Messages
        BY <2>3, <3>1 DEF MessagesSound, OneMessageEach
      <3>2. m \in Messages => n # new
        BY <1>6, <1>9, <2>3
      <3>3. n \in Messages => m # new
        BY <1>6, <1>9, <2>3
      <3>4. QED
        BY <1>7, <3>1, <3>2, <3>3
    <2>4. QED
      BY <1>10, <2>1, <2>2, <2>3 DEF OneMessageEach
  <1>12. LateOnlyComplain'
    <2>1. ASSUME NEW m \in Messages', m.error
          PROVE  ~Working' /\ kind' = "claim" /\ m.round = NoRound /\ child'[m.child].round = MaxRound
      <3>1. m \in Messages
        BY <1>6, <1>7, <2>1
      <3>2. m.child \in Child /\ m.round = NoRound /\ child[m.child].round = MaxRound
            /\ ~Working /\ kind = "claim"
        BY <2>1, <3>1, MessagesTyped DEF MessagesSound, LateOnlyComplain
      <3>3. QED
        BY <1>1, <3>2, LastRoundStays, FromHealthyNext
    <2>2. QED
      BY <2>1 DEF LateOnlyComplain, NoRound
  <1>13. SoundTable'
    <2>1. /\ owner'[r] # NULL /\ \A q \in 1..MaxRound : owner[q] # NULL => owner'[q] # NULL
          /\ \A q \in 1..MaxRound, d \in Child : <<q, d>> \in wins' <=> owner'[q] = d
      BY <1>3, <1>5, SoundAnswer DEF MessagesSound, Healthy
    <2>2. ASSUME NEW m \in Messages', ~m.error PROVE owner'[m.round] # NULL
      <3>1. CASE m = new
        BY <1>6, <2>1, <3>1
      <3>2. CASE m \in Messages
        <4>1. m.round \in Rounds /\ owner[m.round] # NULL
          BY <2>2, <3>2 DEF MessagesSound, OneMessageEach, SoundTable
        <4>2. m.round \in 1..MaxRound
          BY <4>1, RoundNumbers
        <4>3. QED
          BY <2>1, <4>1, <4>2
      <3>3. QED
        BY <1>7, <3>1, <3>2
    <2>3. QED
      BY <2>1, <2>2 DEF SoundTable
  <1>14. QED
    BY <1>11, <1>12, <1>13 DEF MessagesSound

LEMMA MessagesStay ==
  ASSUME Placed, Placed', Well, BarriersTurn, Synchronous, Counted, Healthy, Healthy', HealthyNext,
         MessagesSound, CallsAreOver
  PROVE  MessagesSound'
  <1>1. CASE UNCHANGED <<results, resultQueue, service>>
    <2>1. Messages' = Messages /\ results' \cap resultQueue' = {}
      BY <1>1 DEF Messages, MessagesSound, OneMessageEach
    <2>2. \A m \in results' : ~m.error /\ m.round <= parent.round
      BY <1>1 DEF MessagesSound, OneMessageEach
    <2>3. QED
      BY <1>1, <2>1, <2>2, MessagesKept
  <1>2. QED
    BY <1>1, MessageCollected, OnlyLateRaise, MessageSent
       DEF HealthyNext, StartChild, Boot, ChildLeaves, Open, ParentLeaves, ReadReady, CreateTask, Judge

(* A judge with all answers and no complaint passes a sound service.       *)
LEMMA SoundPasses ==
  ASSUME Placed, Well, Counted, Healthy, MessagesSound, MessagesTell, Judge,
         \A m \in Messages : ~m.error
  PROVE  verdict' = "pass"
  <1>1. ~Working
    BY DEF Judge, Working
  <1>2. ASSUME NEW r \in Rounds, NEW c \in Child
        PROVE  \E m \in Messages : ~m.error /\ m.round = r /\ m.child = c
    BY <1>1, AllThere DEF MessagesSound, Messages
  <1>3. Pairs = Rounds \X Child
    <2>1. ASSUME NEW m \in Messages PROVE <<m.round, m.child>> \in Rounds \X Child
      <3>1. m.round \in Rounds /\ m.child \in Child
        BY MessagesTyped DEF MessagesSound, OneMessageEach
      <3>2. QED
        BY <3>1
    <2>2. ASSUME NEW r \in Rounds, NEW c \in Child PROVE <<r, c>> \in Pairs
      BY <1>2 DEF Pairs
    <2>3. QED
      BY <2>1, <2>2 DEF Pairs
  <1>4. Complete
    BY <1>3 DEF Complete, Well
  <1>5. ASSUME NEW r \in Rounds
        PROVE  /\ Cardinality(WinnersOf(r)) = 1 /\ owner[r] # NULL
               /\ kind = "claim" => owner[r] \in WinnersOf(r)
    <2>1. r \in 1..MaxRound
      BY RoundNumbers
    <2>2. owner[r] # NULL
      <3>1. PICK c \in Child : TRUE
        BY HarnessAssumption DEF HarnessAssumption
      <3>2. PICK m \in Messages : ~m.error /\ m.round = r
        BY <1>2, <3>1
      <3>3. QED
        BY <3>2 DEF MessagesSound, SoundTable
    <2>3. owner[r] \in Child
      BY <2>1, <2>2 DEF Placed, ServiceTyped
    <2>4. WinnersOf(r) = {d \in Child : <<r, d>> \in wins}
      BY <1>4, CompleteTells
    <2>5. WinnersOf(r) = {owner[r]}
      BY <2>1, <2>3, <2>4 DEF MessagesSound, SoundTable
    <2>6. Cardinality({owner[r]}) = 1
      BY FS_Singleton
    <2>7. QED
      BY <2>2, <2>5, <2>6
  <1>6. OneWinnerEach
    BY <1>5 DEF OneWinnerEach
  <1>7. QED
    BY <1>4, <1>6 DEF Judge, Well, OtherChecksFail, Healthy

LEMMA JudgedWellStays ==
  ASSUME Placed, Well, Counted, Healthy, MessagesSound, MessagesTell, JudgedWell, HealthyNext
  PROVE  JudgedWell'
  <1>1. kind' = kind
    BY SameKind
  <1>2. CASE ~Judge
    <2>1. verdict' = verdict
      BY <1>2, OnlyJudgePasses, FromHealthyNext
    <2>2. Messages \subseteq Messages'
      BY DEF HealthyNext, StartChild, Boot, Call, ChildLeaves, ChildRaises, Open, ParentLeaves,
           ReadReady, CreateTask, Collect, Judge, Messages
    <2>3. QED
      BY <1>1, <2>1, <2>2 DEF JudgedWell
  <1>3. CASE Judge
    <2>1. Messages' = Messages
      BY <1>3 DEF Judge, Messages
    <2>2. CASE \A m \in Messages : ~m.error
      BY <1>3, <2>2, SoundPasses DEF JudgedWell
    <2>3. CASE \E m \in Messages : m.error
      <3>1. kind = "claim"
        BY <2>3 DEF MessagesSound, LateOnlyComplain
      <3>2. verdict' \in {"pass", "fail"}
        BY <1>3 DEF Judge, Well
      <3>3. QED
        BY <1>1, <2>1, <2>3, <3>1, <3>2 DEF JudgedWell
    <2>4. QED
      BY <2>2, <2>3
  <1>4. QED
    BY <1>2, <1>3

-----------------------------------------------------------------------------
LEMMA GoodStart == Init => HealthyInv
  <1> SUFFICES ASSUME Init PROVE HealthyInv
    OBVIOUS
  <1>1. HarnessInv
    BY HarnessStart
  <1>2. Messages = {} /\ results = {} /\ resultQueue = {} /\ verdict = NULL /\ faults = 0
    BY DEF Init, Messages
  <1>3. parent.pc = "starting" /\ parent.round = 0 /\ ~parent.failed /\ Working
    BY DEF Init, Working
  <1>4. \A c \in Child : /\ child[c].pc = "unborn" /\ child[c].round = 0
                         /\ ~child[c].error /\ ~child[c].dead
    BY DEF Init
  <1>5. \A b \in Barrier : barrier[b] = "filling"
    BY DEF Init
  <1>6. Well
    BY <1>3, <1>4 DEF Well, Init
  <1>7. BarriersTurn
    BY <1>5 DEF BarriersTurn
  <1>8. Synchronous
    <2>1. \A c \in Child : InStep(c)
      BY <1>4, <1>5, BarrierNames DEF InStep
    <2>2. \A c \in Child : child[c].round <= 1
      BY <1>4
    <2>3. QED
      BY <2>1, <2>2 DEF Synchronous
  <1>9. Counted
    BY <1>2, <1>3, FS_EmptySet DEF Counted
  <1>10. OneMessageEach /\ LateOnlyComplain
    BY <1>2 DEF OneMessageEach, LateOnlyComplain
  <1>11. SoundTable
    <2>1. \A r \in 1..MaxRound, c \in Child : <<r, c>> \notin wins /\ owner[r] # c
      BY HarnessAssumption DEF Init, HarnessAssumption
    <2>2. QED
      BY <1>2, <2>1 DEF SoundTable
  <1>12. JudgedWell
    BY <1>2 DEF JudgedWell
  <1>13. Good
    BY <1>6, <1>7, <1>8, <1>9, <1>10, <1>11, <1>12 DEF Good
  <1>14. QED
    BY <1>1, <1>2, <1>13 DEF HealthyInv

LEMMA GoodStep == HealthyInv /\ Next => HealthyInv'
  <1> SUFFICES ASSUME HealthyInv, Next PROVE HealthyInv'
    OBVIOUS
  <1>1. HarnessInv /\ Placed /\ CallsAreOver /\ MessagesTell
    BY DEF HealthyInv, HarnessInv
  <1>2. Placed'
    BY <1>1, NextPlaced
  <1>3. HarnessInv'
    BY <1>1, HarnessStep
  <1>4. faults' \in Nat
    <2>1. faults' = faults \/ faults' = faults + 1
      BY DEF Next, ParentStep, ChildStep, StartChild, Terminate, StartFails, ReadReady,
           CreateTask, Collect, ReadTimesOut, Judge, ParentRaises, ParentLeaves, Open,
           BarrierTimesOut, Boot, Call, Crash, ChildLeaves, ChildRaises, machine
    <2>2. QED
      BY <2>1 DEF HealthyInv
  <1>5. ASSUME Healthy' PROVE Good'
    <2>1. Healthy /\ Good /\ HealthyNext
      BY <1>5, HealthySteps
    <2>2. /\ Well /\ BarriersTurn /\ Synchronous /\ Counted /\ OneMessageEach
          /\ MessagesSound /\ JudgedWell
      BY <2>1 DEF Good, MessagesSound
    <2>3. Well' /\ BarriersTurn'
      BY <1>1, <1>2, <1>5, <2>1, <2>2, WellStays, TurnsStay
    <2>4. Synchronous' /\ Counted'
      BY <1>1, <1>2, <1>5, <2>1, <2>2, SynchronousStays, CountedStays
    <2>5. MessagesSound'
      BY <1>1, <1>2, <1>5, <2>1, <2>2, MessagesStay
    <2>6. JudgedWell'
      BY <1>1, <2>1, <2>2, JudgedWellStays
    <2>7. QED
      BY <2>3, <2>4, <2>5, <2>6 DEF Good, MessagesSound
  <1>6. QED
    BY <1>3, <1>4, <1>5 DEF HealthyInv

THEOREM HealthyInvHolds == Spec => []HealthyInv
  <1>1. ASSUME HealthyInv, UNCHANGED vars PROVE HealthyInv'
    <2>1. HarnessInv'
      BY <1>1, HarnessStep DEF HealthyInv
    <2>2. /\ faults' = faults /\ timedOut' = timedOut /\ sound' = sound /\ Messages' = Messages
          /\ Working' = Working /\ Rounds' = Rounds /\ Ahead' = Ahead
      BY <1>1 DEF vars, machine, Messages, Working, Rounds, Ahead
    <2>3. Well' = Well /\ BarriersTurn' = BarriersTurn /\ Synchronous' = Synchronous
      BY <1>1 DEF vars, Well, BarriersTurn, Working, Inside, Synchronous, InStep, Ahead
    <2>4. Counted' = Counted /\ OneMessageEach' = OneMessageEach
      BY <1>1 DEF vars, Counted, OneMessageEach, Messages, Working, Rounds
    <2>5. /\ LateOnlyComplain' = LateOnlyComplain /\ SoundTable' = SoundTable
          /\ JudgedWell' = JudgedWell
      BY <1>1 DEF vars, service, LateOnlyComplain, SoundTable, JudgedWell, Messages, Working
    <2>6. Good' = Good
      BY <2>3, <2>4, <2>5 DEF Good
    <2>7. QED
      BY <1>1, <2>1, <2>2, <2>6 DEF HealthyInv, Healthy
  <1>2. HealthyInv /\ [Next]_vars => HealthyInv'
    BY <1>1, GoodStep
  <1>3. QED
    BY <1>2, GoodStart, PTL DEF Spec

(* A proof of a sound service on a machine that does its work fails only   *)
(* for the complaint of a child that had not left the last barrier when    *)
(* the parent aborted it, for any number of children and rounds.           *)
THEOREM FailuresAreExplained == Spec => []FailuresHaveACause
  <1>1. HealthyInv => FailuresHaveACause
    BY HarnessAssumption
       DEF HealthyInv, Healthy, Good, JudgedWell, LateOnlyComplain, FailuresHaveACause,
           HarnessAssumption, Verdict
  <1>2. QED
    BY HealthyInvHolds, <1>1, PTL
=============================================================================
