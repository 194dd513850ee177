---------------------------- MODULE WorkerManager ----------------------------
(***************************************************************************)
(* The dashboard's worker manager (src/app/worker_manager.py) and the      *)
(* routes that drive it (src/app/main.py): requests run in threads of the  *)
(* server, the worker processes live and die beside them.                  *)
(*                                                                         *)
(* A process is known by its pid, its place in processes.  A step is what  *)
(* a thread does until another one, or a process, can notice: it waits for *)
(* the lock only at the start of a critical section, but processes die and *)
(* the server crashes while the lock is held.  What a worker does to the   *)
(* board is in Workers.                                                    *)
(***************************************************************************)
EXTENDS Naturals, Sequences, FiniteSets

CONSTANTS
  Request,   \* the threads that serve requests
  NULL,
  Limit,     \* MAX_MANAGED_WORKERS
  Counts,    \* the values of "count" that spawn is asked for
  MaxCall,   \* bound: calls of spawn, stop, reset and shutdown
  MaxServer  \* bound: no crash after so many servers

ASSUME ManagerAssumption ==
  /\ NULL \notin Request
  /\ Limit \in Nat \ {0}
  /\ Counts \subseteq 1..Limit
  /\ MaxCall \in Nat /\ MaxServer \in Nat

VARIABLES
  processes,  \* every process ever started, in order
  workers,    \* the pids in self._workers, whose keys are their names
  counter,    \* self._counter
  lock,       \* the request that holds self._lock, or NULL
  request,    \* what each thread is doing
  server,     \* which run of the server this is
  outlived,   \* the pids that were terminated and not gone after the join
  calls       \* how many calls were made

vars == <<processes, workers, counter, lock, request, server, outlived, calls>>

Pid == DOMAIN processes

ProcessRow == [name : Nat, server : Nat, status : {"alive", "terminated", "dead"}]

(* before is the number of processes there were when the stop began; no    *)
(* code reads it.                                                          *)
RequestState ==
  [pc     : {"idle", "spawn", "starting", "listing", "stop", "joining", "wiping", "exiting"},
   count  : 0..Limit,               \* processes left to start
   items  : SUBSET Nat,             \* pids left to join
   then   : {"idle", "wiping", "exiting"},  \* what follows a stop
   before : Nat]

Idle == [pc |-> "idle", count |-> 0, items |-> {}, then |-> "idle", before |-> 0]

Become(r, state) == request' = [request EXCEPT ![r] = state]

Alive(p) == processes[p].status # "dead"
Mine(p)  == processes[p].server = server

-----------------------------------------------------------------------------
(* Requests arrive.  A shutdown waits for the requests under way and is    *)
(* the last one of its server; reset_board is a stop and then a wipe.      *)

ShuttingDown == \E r \in Request : request[r].then = "exiting"

Arrives(r, state) ==
  /\ request[r].pc = "idle"
  /\ ~ShuttingDown
  /\ calls < MaxCall
  /\ calls' = calls + 1
  /\ Become(r, state)
  /\ UNCHANGED <<processes, workers, counter, lock, server, outlived>>

CallSpawn(r) == \E n \in Counts : Arrives(r, [Idle EXCEPT !.pc = "spawn", !.count = n])
CallStop(r)  == Arrives(r, [Idle EXCEPT !.pc = "stop"])
CallReset(r) == Arrives(r, [Idle EXCEPT !.pc = "stop", !.then = "wiping"])

Shutdown(r) ==
  /\ \A q \in Request : request[q].pc = "idle"
  /\ Arrives(r, [Idle EXCEPT !.pc = "stop", !.then = "exiting"])

-----------------------------------------------------------------------------
(* spawn: prune and check under the lock, then start one by one.           *)

Pruned == {p \in workers : Alive(p)}

RoomForFault(n) == Cardinality(Pruned) < Limit
RoomFor(n) == Cardinality(Pruned) + n <= Limit

EnterSpawn(r) ==
  /\ request[r].pc = "spawn" /\ lock = NULL
  /\ workers' = Pruned
  /\ \/ /\ RoomFor(request[r].count)
        /\ lock' = r
        /\ Become(r, [request[r] EXCEPT !.pc = "starting"])
     \/ /\ ~RoomFor(request[r].count)
        /\ Become(r, Idle) /\ UNCHANGED lock
  /\ UNCHANGED <<processes, counter, server, outlived, calls>>

IsLast(r) == request[r].count = 1

(* A name that is in use again replaces its entry, as in any dict.         *)
StartWorker(r) ==
  LET name == counter + 1
  IN  /\ request[r].pc = "starting"
      /\ counter' = name
      /\ processes' = Append(processes, [name |-> name, server |-> server, status |-> "alive"])
      /\ workers' = {p \in workers : processes[p].name # name} \cup {Len(processes) + 1}
      /\ lock' = IF IsLast(r) THEN NULL ELSE r
      /\ Become(r, [request[r] EXCEPT !.pc = IF IsLast(r) THEN "listing" ELSE @, !.count = @ - 1])
      /\ UNCHANGED <<server, outlived, calls>>

(* The operating system refuses a process: the number is spent, the        *)
(* workers started before stay.                                            *)
StartFailsFault(r) ==
  /\ request[r].pc = "starting"
  /\ counter' = counter + 1
  /\ Become(r, Idle)
  /\ UNCHANGED <<processes, workers, lock, server, outlived, calls>>
StartFails(r) ==
  /\ request[r].pc = "starting"
  /\ counter' = counter + 1
  /\ lock' = NULL
  /\ Become(r, Idle)
  /\ UNCHANGED <<processes, workers, server, outlived, calls>>

(* describe, at the end of spawn and for every poll of the dashboard.      *)
Describe ==
  /\ lock = NULL
  /\ workers' = Pruned
  /\ UNCHANGED <<processes, counter, lock, server, outlived, calls>>

ListWorkers(r) == request[r].pc = "listing" /\ Describe /\ Become(r, Idle)
PollWorkers    == ~ShuttingDown /\ Describe /\ UNCHANGED request

-----------------------------------------------------------------------------
(* stop_all: terminate every live worker, join each for five seconds,      *)
(* forget them all.                                                        *)

TerminatedFault == [p \in Pid |-> IF p \in workers /\ processes[p].status = "alive"
                                     /\ \E q \in workers : q < p
                                  THEN [processes[p] EXCEPT !.status = "terminated"]
                                  ELSE processes[p]]
Terminated == [p \in Pid |-> IF p \in workers /\ processes[p].status = "alive"
                             THEN [processes[p] EXCEPT !.status = "terminated"]
                             ELSE processes[p]]

ToJoinFault == {}
ToJoin == workers

EnterStop(r) ==
  /\ request[r].pc = "stop" /\ lock = NULL
  /\ lock' = r
  /\ processes' = Terminated
  /\ Become(r, [request[r] EXCEPT !.pc = "joining", !.items = ToJoin,
                                  !.before = Len(processes)])
  /\ UNCHANGED <<workers, counter, server, outlived, calls>>

(* The process is gone, or the join times out.                             *)
Join(r) ==
  /\ request[r].pc = "joining"
  /\ \E p \in request[r].items :
       /\ \A q \in request[r].items : p <= q
       /\ Become(r, [request[r] EXCEPT !.items = @ \ {p}])
       /\ outlived' = IF processes[p].status = "terminated" THEN outlived \cup {p} ELSE outlived
  /\ UNCHANGED <<processes, workers, counter, lock, server, calls>>

CounterAfterStopFault == 0
CounterAfterStop == counter

FinishStop(r) ==
  /\ request[r].pc = "joining" /\ request[r].items = {}
  /\ workers' = {}
  /\ counter' = CounterAfterStop
  /\ lock' = NULL
  /\ Become(r, IF request[r].then = "idle" THEN Idle
               ELSE [request[r] EXCEPT !.pc = request[r].then])
  /\ UNCHANGED <<processes, server, outlived, calls>>

(* reset_all, or its failure when the board stays locked.                  *)
Wipe(r) ==
  /\ request[r].pc = "wiping"
  /\ Become(r, Idle)
  /\ UNCHANGED <<processes, workers, counter, lock, server, outlived, calls>>

-----------------------------------------------------------------------------
(* The server ends.  In an orderly exit the interpreter terminates its     *)
(* daemonic children and joins them without a timeout; a crash leaves them *)
(* to themselves.  The next server knows none and counts from one again.   *)

NextServer ==
  /\ workers' = {}
  /\ counter' = 0
  /\ lock' = NULL
  /\ request' = [r \in Request |-> Idle]
  /\ server' = server + 1
  /\ UNCHANGED <<processes, outlived, calls>>

Exit(r) ==
  /\ request[r].pc = "exiting"
  /\ \A p \in Pid : Mine(p) => ~Alive(p)
  /\ NextServer

Crash == server < MaxServer /\ NextServer

(* A worker ends: by an exception of its own, by a kill from outside or    *)
(* because it was terminated.                                              *)
Die(p) ==
  /\ Alive(p)
  /\ processes' = [processes EXCEPT ![p].status = "dead"]
  /\ UNCHANGED <<workers, counter, lock, request, server, outlived, calls>>

RequestStep(r) ==
  \/ EnterSpawn(r) \/ StartWorker(r) \/ StartFails(r) \/ ListWorkers(r)
  \/ EnterStop(r) \/ Join(r) \/ FinishStop(r) \/ Wipe(r)

Init ==
  /\ processes = <<>>
  /\ workers = {}
  /\ counter = 0
  /\ lock = NULL
  /\ request = [r \in Request |-> Idle]
  /\ server = 1
  /\ outlived = {}
  /\ calls = 0

Next ==
  \/ \E r \in Request :
       \/ CallSpawn(r) \/ CallStop(r) \/ CallReset(r) \/ Shutdown(r)
       \/ RequestStep(r) \/ Exit(r)
  \/ PollWorkers
  \/ Crash
  \/ \E p \in Pid : Die(p)

Spec == Init /\ [][Next]_vars

(* Threads of a server that runs keep running; MaxCall leaves none of them *)
(* to be overtaken for ever at the lock, which is not a fair one.          *)
FairSpec == Spec /\ \A r \in Request : WF_vars(RequestStep(r))

-----------------------------------------------------------------------------
TypeOK ==
  /\ processes \in Seq(ProcessRow)
  /\ workers \subseteq Pid
  /\ counter \in Nat
  /\ lock \in Request \cup {NULL}
  /\ request \in [Request -> RequestState]
  /\ server \in Nat
  /\ outlived \subseteq Pid
  /\ calls \in 0..MaxCall

(* The live workers of this server, but for those that no SIGTERM and no   *)
(* five seconds of join could end.                                         *)
Managed == {p \in Pid : Alive(p) /\ Mine(p) /\ p \notin outlived}

(* A managed worker is never forgotten: whatever spawns, stops, polls and  *)
(* deaths come between, stop_all and describe know every one there is.     *)
NoWorkerForgotten == Managed \subseteq workers

(* MAX_MANAGED_WORKERS bounds the processes there really are, also while   *)
(* several spawns wait for the lock with counts that fit one at a time.    *)
LimitHolds == Cardinality(Managed) <= Limit

(* Within one server no two workers ever have the same worker_id, dead     *)
(* ones included: the operations ledger names them by it.                  *)
NamesIdentifyWorkers ==
  \A p, q \in Pid :
    processes[p].name = processes[q].name /\ processes[p].server = processes[q].server
      => p = q

(* reset_board wipes, and the server exits, only when every worker that    *)
(* there was at the stop is gone; later spawns may have started others.    *)
StoppedBeforeWipe ==
  \A r \in Request :
    request[r].pc \in {"wiping", "exiting"} =>
      \A p \in Managed : p > request[r].before

(* Every request is answered: no failure and no stubborn process leaves    *)
(* the lock held.                                                          *)
RequestsReturn ==
  \A r \in Request : request[r].pc # "idle" ~> request[r].pc \in {"idle", "exiting"}

=============================================================================
