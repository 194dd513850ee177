------------------------- MODULE WorkerManagerProofs -------------------------
(***************************************************************************)
(* The worker manager proved for any number of requests, calls, processes  *)
(* and servers, any limit and any counts up to it.                         *)
(***************************************************************************)
EXTENDS WorkerManager, SequenceTheorems, FiniteSetTheorems, TLAPS

(* Whoever starts or stops workers holds the lock, and nobody else does; a *)
(* spawn still has workers to start; a stop has noted how many there were. *)
LockHeld ==
  \A r \in Request :
    /\ lock = r <=> request[r].pc \in {"starting", "joining"}
    /\ request[r].pc \in {"spawn", "starting"} => request[r].count > 0
    /\ request[r].before <= Len(processes)

(* The table holds processes of this server only, and their numbers, spent *)
(* ones included, go up to the counter.                                    *)
NumbersSpent ==
  /\ \A p \in Pid : processes[p].server <= server
  /\ \A p \in Pid : Mine(p) => processes[p].name <= counter
  /\ \A p \in workers : Mine(p)

(* A stop has signalled every worker of the table, and those it no longer  *)
(* waits for are gone or were left behind.                                 *)
StopUnderWay ==
  \A r \in Request : request[r].pc = "joining" =>
    /\ request[r].items \subseteq workers
    /\ \A p \in workers : processes[p].status # "alive"
    /\ \A p \in workers : Alive(p) => p \in request[r].items \/ p \in outlived

(* What a spawn that has the lock was allowed to start still fits.         *)
RoomKept ==
  /\ Cardinality(Pruned) <= Limit
  /\ \A r \in Request : request[r].pc = "starting" => RoomFor(request[r].count)

ManagerInv ==
  /\ TypeOK
  /\ LockHeld
  /\ NumbersSpent
  /\ StopUnderWay
  /\ RoomKept
  /\ NoWorkerForgotten
  /\ NamesIdentifyWorkers
  /\ StoppedBeforeWipe
-----------------------------------------------------------------------------
(* The table of processes.                                                 *)

LEMMA Pids ==
  ASSUME TypeOK
  PROVE  /\ Len(processes) \in Nat
         /\ Pid = 1..Len(processes)
         /\ \A p \in Pid : processes[p] \in ProcessRow
  <1>1. processes \in Seq(ProcessRow)
    BY DEF TypeOK
  <1>2. /\ Len(processes) \in Nat
        /\ DOMAIN processes = 1..Len(processes)
        /\ processes \in [1..Len(processes) -> ProcessRow]
    BY <1>1, LenProperties
  <1>3. QED
    BY <1>2 DEF Pid

(* Processes are signalled and die; they keep name and server.             *)
Fading ==
  /\ processes' \in Seq(ProcessRow)
  /\ Len(processes') = Len(processes)
  /\ Pid' = Pid
  /\ \A p \in Pid :
       /\ processes'[p].name = processes[p].name
       /\ processes'[p].server = processes[p].server
       /\ processes[p].status # "alive" => processes'[p].status # "alive"
       /\ processes[p].status = "dead" => processes'[p].status = "dead"

LEMMA DeathFades ==
  ASSUME TypeOK, NEW p \in Pid, processes' = [processes EXCEPT ![p].status = "dead"]
  PROVE  Fading
  <1> DEFINE row == [processes[p] EXCEPT !.status = "dead"]
  <1>1. processes[p] \in ProcessRow /\ row \in ProcessRow /\ p \in 1..Len(processes)
    BY Pids DEF ProcessRow
  <1>2. processes' = [processes EXCEPT ![p] = row]
    OBVIOUS
  <1> HIDE DEF row
  <1>3. /\ processes' \in Seq(ProcessRow)
        /\ Len(processes') = Len(processes)
        /\ \A q \in 1..Len(processes) : processes'[q] = IF q = p THEN row ELSE processes[q]
    <2>1. processes \in Seq(ProcessRow)
      BY DEF TypeOK
    <2>2. /\ [processes EXCEPT ![p] = row] \in Seq(ProcessRow)
          /\ Len([processes EXCEPT ![p] = row]) = Len(processes)
          /\ \A q \in 1..Len(processes) :
               [processes EXCEPT ![p] = row][q] = IF q = p THEN row ELSE processes[q]
      BY <1>1, <2>1, ExceptSeq
    <2>3. QED
      BY <1>2, <2>2
  <1>4. Pid' = 1..Len(processes)
    <2>1. processes' \in Seq(ProcessRow)
      BY <1>3
    <2>2. DOMAIN processes' = 1..Len(processes')
      BY <2>1, LenProperties
    <2>3. QED
      BY <1>3, <2>2 DEF Pid
  <1>5. row.name = processes[p].name /\ row.server = processes[p].server /\ row.status = "dead"
    BY <1>1 DEF row, ProcessRow
  <1>6. Pid = 1..Len(processes)
    BY Pids
  <1>7. ASSUME NEW q \in Pid
        PROVE  /\ processes'[q].name = processes[q].name
               /\ processes'[q].server = processes[q].server
               /\ processes[q].status # "alive" => processes'[q].status # "alive"
               /\ processes[q].status = "dead" => processes'[q].status = "dead"
    BY <1>3, <1>5, <1>6
  <1>8. QED
    BY <1>3, <1>4, <1>6, <1>7 DEF Fading

LEMMA SignalFades ==
  ASSUME TypeOK, processes' = Terminated
  PROVE  Fading /\ \A p \in workers : processes'[p].status # "alive"
  <1> DEFINE n == Len(processes)
             row(p) == IF p \in workers /\ processes[p].status = "alive"
                       THEN [processes[p] EXCEPT !.status = "terminated"]
                       ELSE processes[p]
  <1>1. n \in Nat /\ Pid = 1..n /\ \A p \in Pid : processes[p] \in ProcessRow
    BY Pids
  <1>2. \A p \in Pid : row(p) \in ProcessRow
    BY <1>1 DEF ProcessRow
  <1>3. processes' = [p \in 1..n |-> row(p)]
    BY <1>1 DEF Terminated
  <1>4. processes' \in [1..n -> ProcessRow] /\ Pid' = 1..n
    BY <1>1, <1>2, <1>3 DEF Pid
  <1>5. processes' \in Seq(ProcessRow)
    BY <1>1, <1>4, SeqDef
  <1>6. Len(processes') = n
    BY <1>1, <1>4, <1>5, LenProperties DEF Pid
  <1>7. ASSUME NEW p \in Pid
        PROVE  /\ processes'[p].name = processes[p].name
               /\ processes'[p].server = processes[p].server
               /\ processes[p].status # "alive" => processes'[p].status = processes[p].status
               /\ p \in workers => processes'[p].status # "alive"
    BY <1>1, <1>3 DEF ProcessRow
  <1>8. QED
    BY <1>1, <1>4, <1>5, <1>6, <1>7 DEF Fading, TypeOK

LEMMA KeptFades ==
  ASSUME TypeOK, UNCHANGED processes
  PROVE  Fading
  BY DEF Fading, TypeOK, Pid

LEMMA PrunedFinite ==
  ASSUME TypeOK
  PROVE  IsFiniteSet(Pruned) /\ Cardinality(Pruned) \in Nat
  <1>1. IsFiniteSet(Pid)
    BY Pids, FS_Interval
  <1>2. Pruned \subseteq Pid
    BY DEF Pruned, TypeOK
  <1>3. QED
    BY <1>1, <1>2, FS_Subset, FS_CardinalityType

(* Nobody appears while processes only fade.                               *)
LEMMA AfterFading ==
  ASSUME ManagerInv, Fading, workers' \subseteq workers, counter' \in Nat, counter <= counter',
         server' = server, outlived \subseteq outlived'
  PROVE  /\ NumbersSpent' /\ NamesIdentifyWorkers'
         /\ Pruned' \subseteq Pruned
         /\ Cardinality(Pruned') \in Nat
         /\ Cardinality(Pruned') <= Cardinality(Pruned)
         /\ Managed' \subseteq Managed
  <1>1. TypeOK /\ workers \subseteq Pid
    BY DEF ManagerInv, TypeOK
  <1>2. \A p \in Pid : Alive(p)' => Alive(p)
    BY DEF Fading, Alive
  <1>3. Pruned' \subseteq Pruned
    BY <1>1, <1>2 DEF Pruned
  <1>4. Cardinality(Pruned') \in Nat /\ Cardinality(Pruned') <= Cardinality(Pruned)
    BY <1>1, <1>3, PrunedFinite, FS_Subset, FS_CardinalityType
  <1>5. \A p \in Pid : Mine(p)' <=> Mine(p)
    BY DEF Fading, Mine
  <1>6. Managed' \subseteq Managed
    BY <1>2, <1>5 DEF Fading, Managed
  <1>7. \A p \in Pid : processes[p].name \in Nat /\ processes[p].server \in Nat
    BY <1>1, Pids DEF ProcessRow
  <1>8. NumbersSpent'
    <2>1. \A p \in Pid' : processes'[p].server <= server'
      BY DEF Fading, ManagerInv, NumbersSpent
    <2>2. \A p \in Pid' : Mine(p)' => processes'[p].name <= counter'
      BY <1>1, <1>5, <1>7 DEF Fading, ManagerInv, NumbersSpent, TypeOK
    <2>3. \A p \in workers' : Mine(p)'
      BY <1>1, <1>5 DEF ManagerInv, NumbersSpent
    <2>4. QED
      BY <2>1, <2>2, <2>3 DEF NumbersSpent
  <1>9. NamesIdentifyWorkers'
    BY DEF Fading, ManagerInv, NamesIdentifyWorkers
  <1>10. QED
    BY <1>3, <1>4, <1>6, <1>8, <1>9

-----------------------------------------------------------------------------
(* The requests.                                                           *)

LEMMA RequestOf ==
  ASSUME TypeOK, NEW r \in Request
  PROVE  /\ request[r] \in RequestState
         /\ request[r].count \in Nat /\ request[r].before \in Nat
         /\ request[r].count <= Limit
  BY ManagerAssumption DEF TypeOK, RequestState, ManagerAssumption

LEMMA BecomeOne ==
  ASSUME TypeOK, NEW r \in Request, NEW state \in RequestState, Become(r, state)
  PROVE  /\ request' \in [Request -> RequestState]
         /\ request'[r] = state
         /\ \A q \in Request \ {r} : request'[q] = request[q]
  BY DEF TypeOK, Become

LEMMA IdleType ==
  /\ Idle \in RequestState
  /\ Idle.pc = "idle" /\ Idle.count = 0 /\ Idle.before = 0 /\ Idle.items = {}
  BY ManagerAssumption DEF Idle, RequestState, ManagerAssumption

(* What a request that moves may become.                                   *)
Ready(r) ==
  LET state == request'[r]
  IN  /\ lock' = r <=> state.pc \in {"starting", "joining"}
      /\ state.pc \in {"spawn", "starting"} => state.count > 0
      /\ state.before <= Len(processes)
      /\ state.pc = "starting" => RoomFor(state.count)
      /\ state.pc = "joining" =>
           /\ state.items \subseteq workers'
           /\ \A p \in workers' : processes'[p].status # "alive"
           /\ \A p \in workers' : Alive(p)' => p \in state.items \/ p \in outlived'
      /\ state.pc \in {"wiping", "exiting"} => \A p \in Managed' : p > state.before

Rests(r) ==
  /\ request'[r] = request[r]
  /\ lock' = r <=> lock = r
  /\ request[r].pc = "joining" => workers' = workers

(* While processes only fade and the table only loses dead ones, a step is *)
(* safe when it is for the requests that move.                             *)
LEMMA FadingKeeps ==
  ASSUME ManagerInv, Fading, server' = server,
         workers' \subseteq workers, Managed' \subseteq workers',
         counter' \in Nat, counter <= counter', outlived \subseteq outlived',
         outlived' \subseteq Pid, calls' \in 0..MaxCall, lock' \in Request \cup {NULL},
         request' \in [Request -> RequestState],
         \A r \in Request : Ready(r) \/ Rests(r)
  PROVE  ManagerInv'
  <1>1. /\ NumbersSpent' /\ NamesIdentifyWorkers'
        /\ Pruned' \subseteq Pruned
        /\ Cardinality(Pruned') \in Nat
        /\ Cardinality(Pruned') <= Cardinality(Pruned)
        /\ Managed' \subseteq Managed
    BY AfterFading
  <1>2. TypeOK'
    BY DEF ManagerInv, TypeOK, Fading, Pid
  <1>3. ASSUME NEW r \in Request
        PROVE  /\ lock' = r <=> request'[r].pc \in {"starting", "joining"}
               /\ request'[r].pc \in {"spawn", "starting"} => request'[r].count > 0
               /\ request'[r].before <= Len(processes')
    <2>1. CASE Ready(r)
      BY <2>1 DEF Ready, Fading
    <2>2. CASE Rests(r)
      BY <2>2 DEF Rests, Fading, ManagerInv, LockHeld
    <2>3. QED
      BY <2>1, <2>2
  <1>4. \A p \in Pid : Alive(p)' => Alive(p)
    BY DEF Fading, Alive
  <1>5. workers \subseteq Pid
    BY DEF ManagerInv, TypeOK
  <1>6. StopUnderWay'
    <2> SUFFICES ASSUME NEW r \in Request, request'[r].pc = "joining"
                 PROVE  /\ request'[r].items \subseteq workers'
                        /\ \A p \in workers' : processes'[p].status # "alive"
                        /\ \A p \in workers' :
                             Alive(p)' => p \in request'[r].items \/ p \in outlived'
      BY DEF StopUnderWay
    <2>1. CASE Ready(r)
      BY <2>1 DEF Ready
    <2>2. CASE Rests(r)
      <3>1. request'[r] = request[r] /\ workers' = workers
        BY <2>2 DEF Rests
      <3>2. /\ request[r].items \subseteq workers
            /\ \A p \in workers : processes[p].status # "alive"
            /\ \A p \in workers : Alive(p) => p \in request[r].items \/ p \in outlived
        BY <3>1 DEF ManagerInv, StopUnderWay
      <3>3. \A p \in workers : processes'[p].status # "alive"
        BY <1>5, <3>2 DEF Fading
      <3>4. QED
        BY <1>4, <1>5, <3>1, <3>2, <3>3
    <2>3. QED
      BY <2>1, <2>2
  <1>7. RoomKept'
    <2>1. Limit \in Nat /\ Cardinality(Pruned) \in Nat
      BY PrunedFinite, ManagerAssumption DEF ManagerInv, ManagerAssumption
    <2>2. ASSUME NEW r \in Request, request'[r].pc = "starting"
          PROVE  Cardinality(Pruned') + request'[r].count <= Limit
      <3>1. RoomFor(request'[r].count)
        BY <2>2 DEF Ready, Rests, ManagerInv, RoomKept
      <3>2. request'[r].count \in Nat
        <4>1. request'[r] \in RequestState
          OBVIOUS
        <4>2. QED
          BY <4>1, ManagerAssumption DEF RequestState, ManagerAssumption
      <3>3. Cardinality(Pruned) + request'[r].count <= Limit
        BY <3>1 DEF RoomFor
      <3>4. QED
        BY <1>1, <2>1, <3>2, <3>3
    <2>3. Cardinality(Pruned') <= Limit
      BY <1>1, <2>1 DEF ManagerInv, RoomKept
    <2>4. QED
      BY <2>2, <2>3 DEF RoomKept, RoomFor
  <1>8. StoppedBeforeWipe'
    <2> SUFFICES ASSUME NEW r \in Request, request'[r].pc \in {"wiping", "exiting"}
                 PROVE  \A p \in Managed' : p > request'[r].before
      BY DEF StoppedBeforeWipe
    <2>1. QED
      BY <1>1 DEF Ready, Rests, ManagerInv, StoppedBeforeWipe
  <1>9. LockHeld'
    BY <1>3 DEF LockHeld
  <1>10. NoWorkerForgotten'
    BY DEF NoWorkerForgotten
  <1>11. QED
    BY <1>1, <1>2, <1>6, <1>7, <1>8, <1>9, <1>10 DEF ManagerInv

-----------------------------------------------------------------------------
(* Each step.                                                              *)

LEMMA ManagedKept ==
  ASSUME ManagerInv, Fading, server' = server, outlived \subseteq outlived', workers' = workers
  PROVE  Managed' \subseteq workers'
  BY DEF ManagerInv, NoWorkerForgotten, Managed, Fading, Mine, Alive

(* One request moves, and nobody else sees the lock change hands.          *)
LEMMA OneMoves ==
  ASSUME ManagerInv, Fading, server' = server, workers' = workers,
         counter' \in Nat, counter <= counter', outlived \subseteq outlived',
         outlived' \subseteq Pid, calls' \in 0..MaxCall, lock' \in Request \cup {NULL},
         NEW r \in Request, NEW state \in RequestState, Become(r, state), Ready(r),
         \A q \in Request \ {r} : lock' = q <=> lock = q
  PROVE  ManagerInv'
  <1>1. /\ request' \in [Request -> RequestState]
        /\ \A q \in Request \ {r} : request'[q] = request[q]
    BY BecomeOne DEF ManagerInv
  <1>2. \A q \in Request : Ready(q) \/ Rests(q)
    BY <1>1 DEF Rests
  <1>3. QED
    BY <1>1, <1>2, ManagedKept, FadingKeeps

LEMMA ArrivesKeeps ==
  ASSUME ManagerInv, NEW r \in Request, NEW state \in RequestState, Arrives(r, state),
         state.pc \in {"spawn", "stop"}, state.pc = "spawn" => state.count > 0, state.before = 0
  PROVE  ManagerInv'
  <1>1. request[r].pc = "idle" /\ lock # r
    BY DEF Arrives, ManagerInv, LockHeld
  <1>2. Len(processes) \in Nat /\ Fading
    BY Pids, KeptFades DEF Arrives, ManagerInv
  <1>3. calls' \in 0..MaxCall
    BY ManagerAssumption DEF Arrives, ManagerInv, TypeOK, ManagerAssumption
  <1>4. Become(r, state) /\ UNCHANGED <<workers, counter, lock, server, outlived>>
    BY DEF Arrives
  <1>5. request'[r] = state
    BY <1>4, BecomeOne DEF ManagerInv
  <1>6. Ready(r)
    BY <1>1, <1>2, <1>4, <1>5 DEF Ready
  <1>7. QED
    BY <1>2, <1>3, <1>4, <1>6, OneMoves DEF ManagerInv, TypeOK

LEMMA CallKeeps ==
  ASSUME ManagerInv, NEW r \in Request,
         CallSpawn(r) \/ CallStop(r) \/ CallReset(r) \/ Shutdown(r)
  PROVE  ManagerInv'
  <1>1. CASE CallSpawn(r)
    <2>1. PICK n \in Counts : Arrives(r, [Idle EXCEPT !.pc = "spawn", !.count = n])
      BY <1>1 DEF CallSpawn
    <2>2. n \in 0..Limit /\ n > 0
      BY ManagerAssumption DEF ManagerAssumption
    <2> DEFINE state == [Idle EXCEPT !.pc = "spawn", !.count = n]
    <2>3. state \in RequestState /\ state.pc = "spawn" /\ state.count = n /\ state.before = 0
      BY <2>2, IdleType DEF RequestState
    <2> HIDE DEF state
    <2>4. QED
      BY <2>1, <2>2, <2>3, ArrivesKeeps DEF state
  <1>2. CASE CallStop(r)
    <2> DEFINE state == [Idle EXCEPT !.pc = "stop"]
    <2>1. state \in RequestState /\ state.pc = "stop" /\ state.before = 0
      BY IdleType DEF RequestState
    <2>2. Arrives(r, state)
      BY <1>2 DEF CallStop
    <2> HIDE DEF state
    <2>3. QED
      BY <2>1, <2>2, ArrivesKeeps
  <1>3. CASE CallReset(r) \/ Shutdown(r)
    <2>1. PICK then \in {"wiping", "exiting"} : Arrives(r, [Idle EXCEPT !.pc = "stop", !.then = then])
      BY <1>3 DEF CallReset, Shutdown
    <2> DEFINE state == [Idle EXCEPT !.pc = "stop", !.then = then]
    <2>2. state \in RequestState /\ state.pc = "stop" /\ state.before = 0
      BY IdleType DEF RequestState
    <2>3. Arrives(r, state)
      BY <2>1
    <2> HIDE DEF state
    <2>4. QED
      BY <2>2, <2>3, ArrivesKeeps
  <1>4. QED
    BY <1>1, <1>2, <1>3

(* What a request becomes when it is over.                                 *)
LEMMA IdleReady ==
  ASSUME ManagerInv, NEW r \in Request, Become(r, Idle), lock' # r
  PROVE  Ready(r)
  <1>1. request'[r] = Idle
    BY BecomeOne, IdleType DEF ManagerInv
  <1>2. Len(processes) \in Nat
    BY Pids DEF ManagerInv
  <1>3. QED
    BY <1>1, <1>2, IdleType DEF Ready

LEMMA WipeKeeps ==
  ASSUME ManagerInv, NEW r \in Request, Wipe(r)
  PROVE  ManagerInv'
  <1>1. Become(r, Idle) /\ UNCHANGED <<processes, workers, counter, lock, server, outlived, calls>>
    BY DEF Wipe
  <1>2. lock # r
    BY DEF Wipe, ManagerInv, LockHeld
  <1>3. Fading
    BY <1>1, KeptFades DEF ManagerInv
  <1>4. QED
    BY <1>1, <1>2, <1>3, IdleReady, IdleType, OneMoves DEF ManagerInv, TypeOK

LEMMA StartFailsKeeps ==
  ASSUME ManagerInv, NEW r \in Request, StartFails(r)
  PROVE  ManagerInv'
  <1>1. /\ Become(r, Idle) /\ UNCHANGED <<processes, workers, server, outlived, calls>>
        /\ counter' = counter + 1 /\ lock' = NULL
    BY DEF StartFails
  <1>2. lock = r /\ NULL \notin Request
    BY ManagerAssumption DEF StartFails, ManagerInv, LockHeld, ManagerAssumption
  <1>3. Fading
    BY <1>1, KeptFades DEF ManagerInv
  <1>4. Ready(r)
    BY <1>1, <1>2, IdleReady
  <1>5. counter' \in Nat /\ counter <= counter'
    BY <1>1 DEF ManagerInv, TypeOK
  <1>6. \A q \in Request \ {r} : lock' = q <=> lock = q
    BY <1>1, <1>2
  <1>7. outlived \subseteq outlived' /\ outlived' \subseteq Pid /\ calls' \in 0..MaxCall
    BY <1>1 DEF ManagerInv, TypeOK
  <1>8. QED
    BY <1>1, <1>3, <1>4, <1>5, <1>6, <1>7, IdleType, OneMoves

LEMMA JoinKeeps ==
  ASSUME ManagerInv, NEW r \in Request, Join(r)
  PROVE  ManagerInv'
  <1>1. PICK p \in request[r].items :
          /\ Become(r, [request[r] EXCEPT !.items = @ \ {p}])
          /\ outlived' = IF processes[p].status = "terminated" THEN outlived \cup {p} ELSE outlived
    BY DEF Join
  <1>2. request[r].pc = "joining" /\ UNCHANGED <<processes, workers, counter, lock, server, calls>>
    BY DEF Join
  <1>3. /\ request[r].items \subseteq workers /\ workers \subseteq Pid
        /\ \A q \in workers : processes[q].status # "alive"
        /\ \A q \in workers : Alive(q) => q \in request[r].items \/ q \in outlived
    BY <1>2 DEF ManagerInv, StopUnderWay, TypeOK
  <1>4. p \in Pid /\ processes[p].status \in {"terminated", "dead"}
    BY <1>3, Pids DEF ManagerInv, ProcessRow
  <1> DEFINE state == [request[r] EXCEPT !.items = @ \ {p}]
  <1>5. request[r] \in RequestState
    BY RequestOf DEF ManagerInv
  <1>6. /\ state \in RequestState /\ state.pc = "joining" /\ state.before = request[r].before
        /\ state.items = request[r].items \ {p}
    BY <1>2, <1>5 DEF RequestState
  <1>7. Become(r, state)
    BY <1>1
  <1> HIDE DEF state
  <1>8. request'[r] = state
    BY <1>6, <1>7, BecomeOne DEF ManagerInv
  <1>9. Alive(p) => p \in outlived'
    BY <1>1, <1>4 DEF Alive
  <1>10. outlived \subseteq outlived' /\ outlived' \subseteq Pid
    BY <1>1, <1>4 DEF ManagerInv, TypeOK
  <1>11. lock = r /\ state.before <= Len(processes)
    BY <1>2, <1>6 DEF ManagerInv, LockHeld
  <1>12. \A q \in workers : Alive(q) => q \in state.items \/ q \in outlived'
    BY <1>3, <1>6, <1>9, <1>10
  <1>13. Ready(r)
    BY <1>2, <1>3, <1>6, <1>8, <1>11, <1>12 DEF Ready, Alive
  <1>14. Fading
    BY <1>2, KeptFades DEF ManagerInv
  <1>15. counter' \in Nat /\ counter <= counter' /\ calls' \in 0..MaxCall
    BY <1>2 DEF ManagerInv, TypeOK
  <1>16. QED
    BY <1>2, <1>6, <1>7, <1>10, <1>13, <1>14, <1>15, OneMoves DEF ManagerInv, TypeOK

(* Those that are dropped from the table are dead.                         *)
LEMMA PruningKeeps ==
  ASSUME ManagerInv, UNCHANGED <<processes, counter, server, outlived, calls>>,
         workers' = Pruned, lock = NULL, lock' \in Request \cup {NULL},
         request' \in [Request -> RequestState],
         \A r \in Request : Ready(r) \/ (request'[r] = request[r] /\ lock' # r)
  PROVE  ManagerInv'
  <1>1. Fading
    BY KeptFades DEF ManagerInv
  <1>2. workers' \subseteq workers
    BY DEF Pruned
  <1>3. Managed' \subseteq workers'
    BY DEF ManagerInv, NoWorkerForgotten, Managed, Pruned, Pid, Alive, Mine
  <1>4. \A r \in Request : r # NULL
    BY ManagerAssumption DEF ManagerAssumption
  <1>5. \A r \in Request : Ready(r) \/ Rests(r)
    BY <1>4 DEF Rests, ManagerInv, LockHeld
  <1>6. counter' \in Nat /\ counter <= counter' /\ calls' \in 0..MaxCall
        /\ outlived \subseteq outlived' /\ outlived' \subseteq Pid
    BY DEF ManagerInv, TypeOK
  <1>7. QED
    BY <1>1, <1>2, <1>3, <1>5, <1>6, FadingKeeps

LEMMA EnterSpawnKeeps ==
  ASSUME ManagerInv, NEW r \in Request, EnterSpawn(r)
  PROVE  ManagerInv'
  <1>1. /\ request[r].pc = "spawn" /\ lock = NULL /\ workers' = Pruned
        /\ UNCHANGED <<processes, counter, server, outlived, calls>>
    BY DEF EnterSpawn
  <1>2. request[r] \in RequestState /\ Len(processes) \in Nat /\ NULL \notin Request
    BY RequestOf, Pids, ManagerAssumption DEF ManagerInv, ManagerAssumption
  <1>3. CASE /\ RoomFor(request[r].count) /\ lock' = r
             /\ Become(r, [request[r] EXCEPT !.pc = "starting"])
    <2> DEFINE state == [request[r] EXCEPT !.pc = "starting"]
    <2>1. /\ state \in RequestState /\ state.pc = "starting" /\ state.count = request[r].count
          /\ state.before = request[r].before
      BY <1>2 DEF RequestState
    <2>2. Become(r, state)
      BY <1>3
    <2> HIDE DEF state
    <2>3. /\ request' \in [Request -> RequestState] /\ request'[r] = state
          /\ \A q \in Request \ {r} : request'[q] = request[q]
      BY <2>1, <2>2, BecomeOne DEF ManagerInv
    <2>4. request[r].count > 0 /\ request[r].before <= Len(processes)
      BY <1>1 DEF ManagerInv, LockHeld
    <2>5. Ready(r)
      BY <1>3, <2>1, <2>3, <2>4 DEF Ready
    <2>6. QED
      BY <1>1, <1>3, <2>3, <2>5, PruningKeeps
  <1>4. CASE lock' = lock /\ Become(r, Idle)
    <2>1. /\ request' \in [Request -> RequestState]
          /\ \A q \in Request \ {r} : request'[q] = request[q]
      BY <1>4, BecomeOne, IdleType DEF ManagerInv
    <2>2. Ready(r)
      BY <1>1, <1>2, <1>4, IdleReady
    <2>3. QED
      BY <1>1, <1>2, <1>4, <2>1, <2>2, PruningKeeps
  <1>5. QED
    BY <1>3, <1>4 DEF EnterSpawn

LEMMA DescribeKeeps ==
  ASSUME ManagerInv, PollWorkers \/ \E r \in Request : ListWorkers(r)
  PROVE  ManagerInv'
  <1>1. Describe /\ NULL \notin Request
    BY ManagerAssumption DEF PollWorkers, ListWorkers, ManagerAssumption
  <1>2. CASE PollWorkers
    <2>1. UNCHANGED request
      BY <1>2 DEF PollWorkers
    <2>2. QED
      BY <1>1, <2>1, PruningKeeps DEF Describe, ManagerInv, TypeOK
  <1>3. ASSUME NEW r \in Request, ListWorkers(r)
        PROVE  ManagerInv'
    <2>1. Become(r, Idle)
      BY <1>3 DEF ListWorkers
    <2>2. /\ request' \in [Request -> RequestState]
          /\ \A q \in Request \ {r} : request'[q] = request[q]
      BY <2>1, BecomeOne, IdleType DEF ManagerInv
    <2>3. Ready(r)
      BY <1>1, <2>1, IdleReady DEF Describe
    <2>4. QED
      BY <1>1, <2>2, <2>3, PruningKeeps DEF Describe
  <1>4. QED
    BY <1>2, <1>3

LEMMA EnterStopKeeps ==
  ASSUME ManagerInv, NEW r \in Request, EnterStop(r)
  PROVE  ManagerInv'
  <1>1. /\ lock = NULL /\ lock' = r /\ processes' = Terminated
        /\ UNCHANGED <<workers, counter, server, outlived, calls>>
    BY DEF EnterStop
  <1>2. Fading /\ \A p \in workers : processes'[p].status # "alive"
    BY <1>1, SignalFades DEF ManagerInv
  <1>3. /\ request[r] \in RequestState /\ Len(processes) \in Nat /\ NULL \notin Request
        /\ Pid = 1..Len(processes) /\ workers \subseteq Pid
    BY RequestOf, Pids, ManagerAssumption DEF ManagerInv, ManagerAssumption, TypeOK
  <1> DEFINE state == [request[r] EXCEPT !.pc = "joining", !.items = ToJoin,
                                         !.before = Len(processes)]
  <1>4. workers \in SUBSET Nat
    BY <1>3
  <1>5. /\ state \in RequestState /\ state.pc = "joining" /\ state.items = workers
        /\ state.before = Len(processes)
    BY <1>3, <1>4 DEF RequestState, ToJoin
  <1>6. Become(r, state)
    BY DEF EnterStop
  <1> HIDE DEF state
  <1>7. request'[r] = state
    BY <1>5, <1>6, BecomeOne DEF ManagerInv
  <1>8. Ready(r)
    BY <1>1, <1>2, <1>3, <1>5, <1>7 DEF Ready
  <1>9. \A q \in Request \ {r} : lock' = q <=> lock = q
    BY <1>1, <1>3
  <1>10. /\ counter' \in Nat /\ counter <= counter' /\ calls' \in 0..MaxCall
         /\ outlived \subseteq outlived' /\ outlived' \subseteq Pid
    BY <1>1 DEF ManagerInv, TypeOK
  <1>11. QED
    BY <1>1, <1>2, <1>5, <1>6, <1>8, <1>9, <1>10, OneMoves

(* Nobody is left whom the stop should know: they are gone or outlived it. *)
LEMMA FinishStopKeeps ==
  ASSUME ManagerInv, NEW r \in Request, FinishStop(r)
  PROVE  ManagerInv'
  <1>1. /\ request[r].pc = "joining" /\ request[r].items = {} /\ workers' = {}
        /\ counter' = counter /\ lock' = NULL
        /\ UNCHANGED <<processes, server, outlived, calls>>
    BY DEF FinishStop, CounterAfterStop
  <1>2. Fading /\ lock = r /\ request[r] \in RequestState /\ NULL \notin Request
    BY <1>1, KeptFades, RequestOf, ManagerAssumption DEF ManagerInv, LockHeld, ManagerAssumption
  <1>3. \A p \in workers : Alive(p) => p \in outlived
    BY <1>1 DEF ManagerInv, StopUnderWay
  <1>4. Managed' = {}
    BY <1>1, <1>3 DEF ManagerInv, NoWorkerForgotten, Managed, Pid, Alive, Mine
  <1>5. PICK state \in RequestState :
          /\ Become(r, state)
          /\ state.pc \in {"idle", "wiping", "exiting"}
          /\ state.before \in {0, request[r].before}
    <2>1. CASE request[r].then = "idle"
      BY <2>1, IdleType DEF FinishStop
    <2>2. CASE request[r].then # "idle"
      <3> DEFINE next == [request[r] EXCEPT !.pc = request[r].then]
      <3>1. /\ next \in RequestState /\ next.pc = request[r].then
            /\ next.before = request[r].before /\ next.pc \in {"wiping", "exiting"}
        BY <1>2, <2>2 DEF RequestState
      <3>2. Become(r, next)
        BY <2>2 DEF FinishStop
      <3> HIDE DEF next
      <3>3. QED
        BY <3>1, <3>2
    <2>3. QED
      BY <2>1, <2>2
  <1>6. /\ request' \in [Request -> RequestState] /\ request'[r] = state
        /\ \A q \in Request \ {r} : request'[q] = request[q]
    BY <1>5, BecomeOne DEF ManagerInv
  <1>7. state.before <= Len(processes)
    BY <1>5, Pids DEF ManagerInv, LockHeld
  <1>8. Ready(r)
    BY <1>1, <1>2, <1>4, <1>5, <1>6, <1>7 DEF Ready
  <1>9. \A q \in Request \ {r} : Rests(q)
    BY <1>1, <1>2, <1>6 DEF Rests, ManagerInv, LockHeld
  <1>10. /\ counter' \in Nat /\ counter <= counter' /\ calls' \in 0..MaxCall
         /\ outlived \subseteq outlived' /\ outlived' \subseteq Pid
    BY <1>1 DEF ManagerInv, TypeOK
  <1>11. QED
    BY <1>1, <1>2, <1>4, <1>6, <1>8, <1>9, <1>10, FadingKeeps

LEMMA DieKeeps ==
  ASSUME ManagerInv, NEW p \in Pid, Die(p)
  PROVE  ManagerInv'
  <1>1. /\ processes' = [processes EXCEPT ![p].status = "dead"]
        /\ UNCHANGED <<workers, counter, lock, request, server, outlived, calls>>
    BY DEF Die
  <1>2. Fading
    BY <1>1, DeathFades DEF ManagerInv
  <1>3. \A r \in Request : Rests(r)
    BY <1>1 DEF Rests
  <1>4. QED
    BY <1>1, <1>2, <1>3, ManagedKept, FadingKeeps DEF ManagerInv, TypeOK

(* Names are never given twice, so a new worker replaces nobody.           *)
LEMMA StartWorkerKeeps ==
  ASSUME ManagerInv, NEW r \in Request, StartWorker(r)
  PROVE  ManagerInv'
  <1> DEFINE n   == Len(processes) + 1
             row == [name |-> counter + 1, server |-> server, status |-> "alive"]
  <1>1. /\ request[r].pc = "starting" /\ counter' = counter + 1
        /\ processes' = Append(processes, row)
        /\ workers' = {p \in workers : processes[p].name # counter + 1} \cup {n}
        /\ lock' = IF IsLast(r) THEN NULL ELSE r
        /\ UNCHANGED <<server, outlived, calls>>
    BY DEF StartWorker
  <1>2. /\ lock = r /\ request[r].count > 0
        /\ counter \in Nat /\ server \in Nat /\ NULL \notin Request
        /\ workers \subseteq Pid /\ outlived \subseteq Pid
    BY <1>1, ManagerAssumption DEF ManagerInv, LockHeld, TypeOK, ManagerAssumption
  <1>3. /\ Len(processes) \in Nat /\ Pid = 1..Len(processes)
        /\ \A p \in Pid : processes[p] \in ProcessRow
    BY Pids DEF ManagerInv
  <1>4. row \in ProcessRow
    BY <1>2 DEF ProcessRow
  <1>5. processes' \in Seq(ProcessRow) /\ Len(processes') = n
        /\ (\A p \in 1..Len(processes) : processes'[p] = processes[p]) /\ processes'[n] = row
    <2>1. processes \in Seq(ProcessRow)
      BY DEF ManagerInv, TypeOK
    <2> HIDE DEF row
    <2>2. QED
      BY <1>1, <1>4, <2>1, AppendProperties
  <1>6. Pid' = Pid \cup {n} /\ n \notin Pid
    <2>1. processes' \in Seq(ProcessRow)
      BY <1>5
    <2>2. DOMAIN processes' = 1..Len(processes')
      BY <2>1, LenProperties
    <2>3. Pid' = 1..n
      BY <1>5, <2>2 DEF Pid
    <2>4. QED
      BY <1>3, <2>3
  <1>7. /\ \A p \in Pid : processes'[p] = processes[p]
        /\ processes'[n].name = counter + 1 /\ processes'[n].server = server
        /\ processes'[n].status = "alive"
    BY <1>3, <1>5
  <1> HIDE DEF row, n
  <1>8. /\ \A p \in Pid : processes[p].name \in Nat /\ processes[p].server \in Nat
        /\ \A p \in Pid : processes[p].server <= server
        /\ \A p \in Pid : Mine(p) => processes[p].name <= counter
        /\ \A p \in workers : Mine(p)
    BY <1>3 DEF ProcessRow, ManagerInv, NumbersSpent
  <1>9. workers' = workers \cup {n}
    <2>1. \A p \in workers : processes[p].name # counter + 1
      BY <1>2, <1>8
    <2>2. QED
      BY <1>1, <2>1
  <1>10. \A p \in Pid' : /\ Alive(p)' <=> p = n \/ Alive(p)
                         /\ Mine(p)' <=> p = n \/ Mine(p)
    BY <1>1, <1>6, <1>7 DEF Alive, Mine
  <1> DEFINE state == [request[r] EXCEPT !.pc = IF IsLast(r) THEN "listing" ELSE @, !.count = @ - 1]
  <1>11. request[r] \in RequestState /\ request[r].count - 1 \in 0..Limit
    BY <1>2, RequestOf, ManagerAssumption DEF ManagerInv, RequestState, ManagerAssumption
  <1>12. /\ state \in RequestState /\ state.count = request[r].count - 1
         /\ state.pc = (IF IsLast(r) THEN "listing" ELSE "starting")
         /\ state.before = request[r].before
    <2> DEFINE pc == IF IsLast(r) THEN "listing" ELSE request[r].pc
    <2>1. pc \in {"listing", "starting"} /\ pc = (IF IsLast(r) THEN "listing" ELSE "starting")
      BY <1>1
    <2> HIDE DEF pc
    <2>2. LET next == [request[r] EXCEPT !.pc = pc, !.count = request[r].count - 1]
          IN  /\ next \in RequestState /\ next.count = request[r].count - 1
              /\ next.pc = pc /\ next.before = request[r].before
      BY <1>11, <2>1 DEF RequestState
    <2>3. QED
      BY <2>1, <2>2 DEF pc
  <1>13. Become(r, state)
    BY DEF StartWorker
  <1> HIDE DEF state
  <1>14. /\ request' \in [Request -> RequestState] /\ request'[r] = state
         /\ \A q \in Request \ {r} : request'[q] = request[q]
    BY <1>12, <1>13, BecomeOne DEF ManagerInv
  <1>15. \A q \in Request \ {r} : request[q].pc \notin {"starting", "joining"}
    BY <1>2 DEF ManagerInv, LockHeld
  <1>16. TypeOK'
    BY <1>1, <1>2, <1>5, <1>6, <1>9, <1>14 DEF ManagerInv, TypeOK
  <1>17. LockHeld'
    <2>1. ASSUME NEW q \in Request
          PROVE  /\ lock' = q <=> request'[q].pc \in {"starting", "joining"}
                 /\ request'[q].pc \in {"spawn", "starting"} => request'[q].count > 0
                 /\ request'[q].before <= Len(processes')
      <3>1. Len(processes') = Len(processes) + 1 /\ request[q].before <= Len(processes)
            /\ request[q].before \in Nat
        BY <1>5, RequestOf DEF n, ManagerInv, LockHeld
      <3>2. CASE q = r
        <4>1. request'[q] = state
          BY <1>14, <3>2
        <4>2. request[r].count \in Nat
          BY <1>2, RequestOf DEF ManagerInv
        <4>3. lock' = q <=> state.pc \in {"starting", "joining"}
          BY <1>1, <1>2, <1>12, <3>2
        <4>4. state.pc \in {"spawn", "starting"} => state.count > 0
          BY <1>2, <1>12, <4>2 DEF IsLast
        <4>5. state.before <= Len(processes')
          BY <1>3, <1>12, <3>1, <3>2
        <4>6. QED
          BY <4>1, <4>3, <4>4, <4>5
      <3>3. CASE q # r
        BY <1>1, <1>2, <1>3, <1>14, <1>15, <3>1, <3>3 DEF ManagerInv, LockHeld
      <3>4. QED
        BY <3>2, <3>3
    <2>2. QED
      BY <2>1 DEF LockHeld
  <1>18. NumbersSpent'
    <2>1. /\ \A p \in Pid : processes'[p].server <= server
          /\ processes'[n].server <= server
          /\ \A p \in Pid : Mine(p) => processes'[p].name <= counter + 1
          /\ processes'[n].name <= counter + 1
      BY <1>2, <1>7, <1>8
    <2>2. /\ \A p \in Pid' : processes'[p].server <= server'
          /\ \A p \in Pid' : Mine(p)' => processes'[p].name <= counter'
          /\ \A p \in workers' : Mine(p)'
      BY <1>1, <1>2, <1>6, <1>8, <1>9, <1>10, <2>1
    <2>3. QED
      BY <2>2 DEF NumbersSpent
  <1>19. StopUnderWay'
    BY <1>12, <1>14, <1>15 DEF StopUnderWay
  <1>20. RoomKept'
    <2>1. Pruned' = Pruned \cup {n}
      BY <1>2, <1>6, <1>9, <1>10 DEF Pruned
    <2>2. IsFiniteSet(Pruned) /\ Cardinality(Pruned) \in Nat
      BY PrunedFinite DEF ManagerInv
    <2>3. Cardinality(Pruned') \in Nat /\ Cardinality(Pruned') <= Cardinality(Pruned) + 1
      BY <2>1, <2>2, FS_AddElement
    <2>4. Cardinality(Pruned) + request[r].count <= Limit
      BY <1>1 DEF ManagerInv, RoomKept, RoomFor
    <2>5. request[r].count \in Nat /\ Limit \in Nat
      BY RequestOf, ManagerAssumption DEF ManagerInv, ManagerAssumption
    <2>6. Cardinality(Pruned') + (request[r].count - 1) <= Limit /\ Cardinality(Pruned') <= Limit
      BY <1>2, <2>2, <2>3, <2>4, <2>5
    <2>7. \A q \in Request : request'[q].pc = "starting" =>
            q = r /\ request'[q].count = request[r].count - 1
      BY <1>12, <1>14, <1>15
    <2>8. QED
      BY <2>6, <2>7 DEF RoomKept, RoomFor
  <1>21. Managed' \subseteq Managed \cup {n}
    BY <1>1, <1>6, <1>10 DEF Managed
  <1>22. NoWorkerForgotten'
    BY <1>9, <1>21 DEF ManagerInv, NoWorkerForgotten
  <1>23. NamesIdentifyWorkers'
    <2>1. ASSUME NEW p \in Pid, processes[p].server = server
          PROVE  processes[p].name # counter + 1
      BY <1>2, <1>8, <2>1 DEF Mine
    <2>2. ASSUME NEW p \in Pid', NEW q \in Pid', processes'[p].name = processes'[q].name,
                 processes'[p].server = processes'[q].server
          PROVE  p = q
      BY <1>6, <1>7, <2>1, <2>2 DEF ManagerInv, NamesIdentifyWorkers
    <2>3. QED
      BY <2>2 DEF NamesIdentifyWorkers
  <1>24. StoppedBeforeWipe'
    <2> SUFFICES ASSUME NEW q \in Request, request'[q].pc \in {"wiping", "exiting"},
                        NEW p \in Managed'
                 PROVE  p > request'[q].before
      BY DEF StoppedBeforeWipe
    <2>1. q # r /\ request'[q] = request[q]
      BY <1>12, <1>14
    <2>2. request[q].before <= Len(processes) /\ request[q].before \in Nat
      BY RequestOf DEF ManagerInv, LockHeld
    <2>3. CASE p \in Managed
      BY <2>1, <2>3 DEF ManagerInv, StoppedBeforeWipe
    <2>4. CASE p = n
      BY <1>3, <2>1, <2>2, <2>4 DEF n
    <2>5. QED
      BY <1>21, <2>3, <2>4
  <1>25. QED
    BY <1>16, <1>17, <1>18, <1>19, <1>20, <1>22, <1>23, <1>24 DEF ManagerInv

(* The next server has no workers: those there are, are not its own.       *)
LEMMA NextServerKeeps ==
  ASSUME ManagerInv, NextServer
  PROVE  ManagerInv'
  <1>1. /\ workers' = {} /\ counter' = 0 /\ lock' = NULL /\ server' = server + 1
        /\ request' = [r \in Request |-> Idle]
        /\ UNCHANGED <<processes, outlived, calls>>
    BY DEF NextServer
  <1>2. Pid' = Pid
    BY <1>1 DEF Pid
  <1>3. /\ server \in Nat /\ Len(processes) \in Nat
        /\ \A p \in Pid : processes[p].server \in Nat /\ processes[p].server <= server
    BY Pids DEF ManagerInv, TypeOK, NumbersSpent, ProcessRow
  <1>4. \A p \in Pid' : ~Mine(p)'
    BY <1>1, <1>2, <1>3 DEF Mine
  <1>5. Managed' = {} /\ Pruned' = {}
    BY <1>1, <1>4 DEF Managed, Pruned
  <1>6. TypeOK'
    BY <1>1, <1>2, <1>3, IdleType DEF ManagerInv, TypeOK
  <1>7. LockHeld'
    BY <1>1, <1>3, IdleType, ManagerAssumption DEF LockHeld, ManagerAssumption
  <1>8. NumbersSpent'
    BY <1>1, <1>2, <1>3, <1>4 DEF NumbersSpent
  <1>9. StopUnderWay' /\ StoppedBeforeWipe' /\ NoWorkerForgotten'
    BY <1>1, <1>5, IdleType DEF StopUnderWay, StoppedBeforeWipe, NoWorkerForgotten
  <1>10. RoomKept'
    BY <1>1, <1>5, IdleType, FS_EmptySet, ManagerAssumption DEF RoomKept, ManagerAssumption
  <1>11. NamesIdentifyWorkers'
    BY <1>1, <1>2 DEF ManagerInv, NamesIdentifyWorkers
  <1>12. QED
    BY <1>6, <1>7, <1>8, <1>9, <1>10, <1>11 DEF ManagerInv

-----------------------------------------------------------------------------
(* What the manager promises.                                              *)

THEOREM ManagerInit == Init => ManagerInv
  <1> SUFFICES ASSUME Init PROVE ManagerInv
    OBVIOUS
  <1>1. /\ processes = <<>> /\ workers = {} /\ outlived = {} /\ counter = 0 /\ lock = NULL
        /\ server = 1 /\ calls = 0 /\ request = [r \in Request |-> Idle]
    BY DEF Init
  <1>2. processes \in Seq(ProcessRow) /\ Len(processes) = 0
    BY <1>1, EmptySeq
  <1>3. Pid = {}
    BY <1>2, LenProperties DEF Pid
  <1>4. Managed = {} /\ Pruned = {}
    BY <1>1, <1>3 DEF Managed, Pruned
  <1>5. TypeOK
    BY <1>1, <1>2, IdleType, ManagerAssumption DEF TypeOK, ManagerAssumption
  <1>6. LockHeld
    BY <1>1, <1>2, IdleType, ManagerAssumption DEF LockHeld, ManagerAssumption
  <1>7. NumbersSpent /\ NamesIdentifyWorkers
    BY <1>1, <1>3 DEF NumbersSpent, NamesIdentifyWorkers
  <1>8. StopUnderWay /\ StoppedBeforeWipe /\ NoWorkerForgotten
    BY <1>1, <1>4, IdleType DEF StopUnderWay, StoppedBeforeWipe, NoWorkerForgotten
  <1>9. RoomKept
    BY <1>1, <1>4, IdleType, FS_EmptySet, ManagerAssumption DEF RoomKept, ManagerAssumption
  <1>10. QED
    BY <1>5, <1>6, <1>7, <1>8, <1>9 DEF ManagerInv

THEOREM ManagerNext == ManagerInv /\ [Next]_vars => ManagerInv'
  <1> SUFFICES ASSUME ManagerInv, [Next]_vars PROVE ManagerInv'
    OBVIOUS
  <1>1. ASSUME NEW r \in Request, CallSpawn(r) \/ CallStop(r) \/ CallReset(r) \/ Shutdown(r)
        PROVE  ManagerInv'
    BY <1>1, CallKeeps
  <1>2. ASSUME NEW r \in Request, RequestStep(r)
        PROVE  ManagerInv'
    BY <1>2, EnterSpawnKeeps, StartWorkerKeeps, StartFailsKeeps, DescribeKeeps, EnterStopKeeps,
       JoinKeeps, FinishStopKeeps, WipeKeeps DEF RequestStep
  <1>3. CASE Crash \/ \E r \in Request : Exit(r)
    BY <1>3, NextServerKeeps DEF Crash, Exit
  <1>4. CASE PollWorkers \/ \E p \in Pid : Die(p)
    BY <1>4, DescribeKeeps, DieKeeps
  <1>5. CASE UNCHANGED vars
    <2>1. Fading /\ \A r \in Request : Rests(r)
      BY <1>5, KeptFades DEF ManagerInv, vars, Rests
    <2>2. QED
      BY <1>5, <2>1, ManagedKept, FadingKeeps DEF ManagerInv, vars, TypeOK
  <1>6. QED
    BY <1>1, <1>2, <1>3, <1>4, <1>5 DEF Next

THEOREM ManagerInvHolds == Spec => []ManagerInv
  BY ManagerInit, ManagerNext, PTL DEF Spec

(* The manager's table, its lock and its requests are always what they can *)
(* be.                                                                     *)
THEOREM ManagerTypeCorrect == Spec => []TypeOK
  <1>1. ManagerInv => TypeOK
    BY DEF ManagerInv
  <1>2. QED
    BY <1>1, ManagerInvHolds, PTL

(* stop_all and describe know every live worker of the server but those    *)
(* that outlived their join, whatever spawns, stops and deaths there were. *)
THEOREM NobodyIsForgotten == Spec => []NoWorkerForgotten
  <1>1. ManagerInv => NoWorkerForgotten
    BY DEF ManagerInv
  <1>2. QED
    BY <1>1, ManagerInvHolds, PTL

(* The processes there really are never exceed MAX_MANAGED_WORKERS.        *)
THEOREM LimitIsKept == Spec => []LimitHolds
  <1>1. ManagerInv => LimitHolds
    <2> SUFFICES ASSUME ManagerInv PROVE LimitHolds
      OBVIOUS
    <2>1. Managed \subseteq Pruned
      BY DEF ManagerInv, NoWorkerForgotten, Managed, Pruned
    <2>2. Cardinality(Managed) <= Cardinality(Pruned) /\ Cardinality(Managed) \in Nat
      BY <2>1, PrunedFinite, FS_Subset, FS_CardinalityType DEF ManagerInv
    <2>3. Cardinality(Pruned) <= Limit /\ Cardinality(Pruned) \in Nat /\ Limit \in Nat
      BY PrunedFinite, ManagerAssumption DEF ManagerInv, RoomKept, ManagerAssumption
    <2>4. QED
      BY <2>2, <2>3 DEF LimitHolds
  <1>2. QED
    BY <1>1, ManagerInvHolds, PTL

(* No worker_id is given twice by one server.                              *)
THEOREM NamesAreUnique == Spec => []NamesIdentifyWorkers
  <1>1. ManagerInv => NamesIdentifyWorkers
    BY DEF ManagerInv
  <1>2. QED
    BY <1>1, ManagerInvHolds, PTL

(* The board is wiped, and the server exits, only when every worker there  *)
(* was at the stop is gone.                                                *)
THEOREM WipesComeAfterStops == Spec => []StoppedBeforeWipe
  <1>1. ManagerInv => StoppedBeforeWipe
    BY DEF ManagerInv
  <1>2. QED
    BY <1>1, ManagerInvHolds, PTL
=============================================================================
