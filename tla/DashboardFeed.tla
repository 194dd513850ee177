---------------------------- MODULE DashboardFeed ----------------------------
(***************************************************************************)
(* One tab of the dashboard (src/app/static/app.js) and the operations     *)
(* ledger it follows: loadTasks asks for the tasks and for the ledger rows *)
(* after its cursor, the server answers each request in its own time, and  *)
(* ingestLogs puts the rows before the ones it has.                        *)
(*                                                                         *)
(* Every transaction that changes the board writes a ledger row, so the    *)
(* next row id also numbers the versions of the board.  The tab is single  *)
(* threaded: a step is what it does between two awaits that a timer, a     *)
(* click or an answer can come between.                                    *)
(***************************************************************************)
EXTENDS Naturals, Sequences, FiniteSets

CONSTANTS
  Slot,        \* room for loads under way (bound)
  NULL,
  FirstLimit,  \* rows asked for without a cursor
  Limit,       \* rows asked for after a cursor
  MaxRows,     \* MAX_LOG_ROWS
  MaxId,       \* bound: ledger rows written
  MaxFail,     \* bound: requests that fail or time out
  MaxRetry     \* bound: clicks on the retry button

ASSUME FeedAssumption ==
  /\ NULL \notin Slot /\ NULL \notin Nat /\ NULL \notin Seq(Nat)
  /\ {FirstLimit, Limit, MaxRows} \subseteq Nat \ {0}
  /\ FirstLimit <= MaxRows /\ Limit <= MaxRows
  /\ {MaxId, MaxFail, MaxRetry} \subseteq Nat

VARIABLES
  table, nextId,  \* ids in operation_logs, and the next one
  items, lastId,  \* logState
  shownAt,        \* the version of the board that the tab shows
  activeLoad,     \* the slot of the load that activeLoad refers to, or NULL
  loads,          \* the calls of loadTasks
  noTasks,        \* whether the tab has no tasks to show
  retryShown,     \* whether the panel with the retry button is shown
  reset,          \* the tab's own reset: NULL, 0 when it is under way,
                  \* the id of its ledger row when it has wiped the table
  forgotten,      \* the row of the last reset that was answered to the tab
  skipped,        \* ids that an answer left out because it was full
  fails, retries

server   == <<table, nextId>>
logState == <<items, lastId>>
history  == <<forgotten, skipped>>
vars     == <<server, logState, shownAt, activeLoad, loads, noTasks, retryShown, reset,
              history, fails, retries>>

Id == 1..MaxId

(* tasksAt is the version that the tasks answer shows, 0 before it comes.  *)
(* since is the version when the click that asked for the load was made.   *)
LoadState ==
  [phase   : {"free", "waiting", "sent"},
   on      : Slot \cup {NULL},          \* the load it waits for
   kind    : {"poll", "action", "retry"},
   since   : Nat,
   after   : Id \cup {NULL},            \* after_id
   tasksAt : Nat,
   logs    : Seq(Id) \cup {NULL}]

Free == [phase |-> "free", on |-> NULL, kind |-> "poll", since |-> 0,
         after |-> NULL, tasksAt |-> 0, logs |-> NULL]

Sent(load, cursor) == [load EXCEPT !.phase = "sent", !.on = NULL, !.after = cursor]

-----------------------------------------------------------------------------
(* The server: other processes write rows, other tabs reset the board.     *)

WriteRow ==
  /\ nextId <= MaxId
  /\ table' = table \cup {nextId}
  /\ nextId' = nextId + 1

(* reset_all deletes the ledger and logs itself; ids are never reused.     *)
WipeTable ==
  /\ nextId <= MaxId
  /\ table' = {nextId}
  /\ nextId' = nextId + 1

Elsewhere ==
  /\ WriteRow \/ WipeTable
  /\ UNCHANGED <<logState, shownAt, activeLoad, loads, noTasks, retryShown, reset,
                 history, fails, retries>>

(* list_operation_logs: the newest rows, newest first.                     *)
RowsAfterFault(cursor) == IF cursor = NULL THEN table ELSE {i \in table : i > cursor + 1}
RowsBeforeFault(cursor) == IF cursor = NULL THEN table ELSE {i \in table : i < cursor}
RowsAfter(cursor) == IF cursor = NULL THEN table ELSE {i \in table : i > cursor}

Newer(i, S)  == Cardinality({j \in S : j > i})
Newest(n, S) == {i \in S : Newer(i, S) < n}

NewestFirst(S) == [n \in 1..Cardinality(S) |-> CHOOSE i \in S : Newer(i, S) = n - 1]

RowLimit(cursor) == IF cursor = NULL THEN FirstLimit ELSE Limit

Answer(cursor) == NewestFirst(Newest(RowLimit(cursor), RowsAfter(cursor)))

ReadTasks(l) ==
  /\ loads[l].phase = "sent" /\ loads[l].tasksAt = 0
  /\ loads' = [loads EXCEPT ![l].tasksAt = nextId]
  /\ UNCHANGED <<server, logState, shownAt, activeLoad, noTasks, retryShown, reset,
                 history, fails, retries>>

ReadLogs(l) ==
  LET cursor == loads[l].after
      rows   == RowsAfter(cursor)
  IN  /\ loads[l].phase = "sent" /\ loads[l].logs = NULL
      /\ loads' = [loads EXCEPT ![l].logs = Answer(cursor)]
      /\ skipped' = skipped \cup (rows \ Newest(RowLimit(cursor), rows))
      /\ UNCHANGED <<server, logState, shownAt, activeLoad, noTasks, retryShown, reset,
                     forgotten, fails, retries>>

(* A failed ledger request is caught and ignored, as an empty answer is.   *)
LogsFail(l) ==
  /\ loads[l].phase = "sent" /\ loads[l].logs = NULL
  /\ fails < MaxFail /\ fails' = fails + 1
  /\ loads' = [loads EXCEPT ![l].logs = <<>>]
  /\ UNCHANGED <<server, logState, shownAt, activeLoad, noTasks, retryShown, reset,
                 history, retries>>

-----------------------------------------------------------------------------
(* loadTasks starts: without force only if no load is active; with force   *)
(* it waits for the active one.                                            *)

Asked(kind) == [Free EXCEPT !.kind = kind, !.since = nextId]

StartLoad(l, kind, cursor) ==
  /\ loads[l].phase = "free"
  /\ loads' = [loads EXCEPT ![l] = Sent(Asked(kind), cursor)]
  /\ activeLoad' = l

ForceLoadFault(l, kind, cursor) ==
  IF activeLoad = NULL THEN StartLoad(l, kind, cursor)
  ELSE /\ loads[l].phase = "free"
       /\ loads' = [loads EXCEPT ![activeLoad].kind = kind, ![activeLoad].since = nextId]
       /\ UNCHANGED activeLoad
ForceAtOnceFault(l, kind, cursor) == StartLoad(l, kind, cursor)
ForceLoad(l, kind, cursor) ==
  \/ activeLoad = NULL /\ StartLoad(l, kind, cursor)
  \/ /\ activeLoad # NULL
     /\ loads[l].phase = "free"
     /\ loads' = [loads EXCEPT ![l] = [Asked(kind) EXCEPT !.phase = "waiting", !.on = activeLoad]]
     /\ UNCHANGED activeLoad

(* The timer; and the refresh button, which is disabled during a load.     *)
Poll ==
  /\ activeLoad = NULL
  /\ \E l \in Slot : StartLoad(l, "poll", lastId)
  /\ UNCHANGED <<server, logState, shownAt, noTasks, retryShown, reset, history, fails, retries>>

(* The retry button is disabled by nothing.                                *)
Retry ==
  /\ retryShown
  /\ retries < MaxRetry /\ retries' = retries + 1
  /\ \E l \in Slot : ForceLoad(l, "retry", lastId)
  /\ UNCHANGED <<server, logState, shownAt, noTasks, retryShown, reset, history, fails>>

-----------------------------------------------------------------------------
(* runAction: one action at a time, and a forced load when it was answered. *)

Busy == reset # NULL \/ \E l \in Slot : loads[l].phase # "free" /\ loads[l].kind = "action"

ActionAnswered ==
  /\ ~Busy
  /\ \E l \in Slot : ForceLoad(l, "action", lastId)
  /\ UNCHANGED <<server, logState, shownAt, noTasks, retryShown, reset, history, fails, retries>>

ResetClick ==
  /\ ~Busy
  /\ reset' = 0
  /\ UNCHANGED <<server, logState, shownAt, activeLoad, loads, noTasks, retryShown,
                 history, fails, retries>>

ResetCommits ==
  /\ reset = 0
  /\ WipeTable
  /\ reset' = nextId
  /\ UNCHANGED <<logState, shownAt, activeLoad, loads, noTasks, retryShown,
                 history, fails, retries>>

ResetAnswered ==
  /\ reset \in Id
  /\ reset' = NULL
  /\ items' = <<>> /\ lastId' = NULL
  /\ forgotten' = reset
  /\ \E l \in Slot : ForceLoad(l, "action", NULL)
  /\ UNCHANGED <<server, shownAt, noTasks, retryShown, skipped, fails, retries>>

(* The request fails or is aborted after ten seconds, committed or not.    *)
ResetFails ==
  /\ reset # NULL
  /\ fails < MaxFail /\ fails' = fails + 1
  /\ reset' = NULL
  /\ UNCHANGED <<server, logState, shownAt, activeLoad, loads, noTasks, retryShown,
                 history, retries>>

-----------------------------------------------------------------------------
(* A load ends: activeLoad is set to null, whichever load it refers to,    *)
(* and before anything else happens every call that waited for this load   *)
(* starts its own; the last of them is the active one.                     *)

Ended(l, cursor) ==
  LET waiting == {q \in Slot : loads[q].phase = "waiting" /\ loads[q].on = l}
  IN  /\ loads' = [q \in Slot |-> IF q = l THEN Free
                                  ELSE IF q \in waiting THEN Sent(loads[q], cursor)
                                  ELSE loads[q]]
      /\ IF waiting = {} THEN activeLoad' = NULL ELSE activeLoad' \in waiting

(* ingestLogs.                                                             *)
Ingested(rows) ==
  IF lastId = NULL THEN rows
  ELSE IF rows = <<>> THEN items
  ELSE LET all == rows \o items
       IN  SubSeq(all, 1, IF Len(all) < MaxRows THEN Len(all) ELSE MaxRows)

Cursor(shown) == IF shown = <<>> THEN lastId ELSE Head(shown)

Finish(l) ==
  /\ loads[l].phase = "sent" /\ loads[l].tasksAt # 0 /\ loads[l].logs # NULL
  /\ items' = Ingested(loads[l].logs)
  /\ lastId' = Cursor(items')
  /\ shownAt' = loads[l].tasksAt
  /\ noTasks' \in BOOLEAN
  /\ retryShown' = FALSE
  /\ Ended(l, lastId')
  /\ UNCHANGED <<server, reset, history, fails, retries>>

(* The tasks request fails, or is aborted after ten seconds: nothing is    *)
(* ingested, and a tab without tasks shows the panel.                      *)
Fail(l) ==
  /\ loads[l].phase = "sent"
  /\ fails < MaxFail /\ fails' = fails + 1
  /\ retryShown' = (retryShown \/ noTasks)
  /\ Ended(l, lastId)
  /\ UNCHANGED <<server, logState, shownAt, noTasks, reset, history, retries>>

Init ==
  /\ table = {} /\ nextId = 1
  /\ items = <<>> /\ lastId = NULL
  /\ shownAt = 0
  /\ activeLoad = NULL
  /\ loads = [l \in Slot |-> Free]
  /\ noTasks = TRUE /\ retryShown = FALSE
  /\ reset = NULL
  /\ forgotten = 0 /\ skipped = {}
  /\ fails = 0 /\ retries = 0

Next ==
  \/ Elsewhere
  \/ Poll \/ Retry
  \/ ActionAnswered \/ ResetClick \/ ResetCommits \/ ResetAnswered \/ ResetFails
  \/ \E l \in Slot : ReadTasks(l) \/ ReadLogs(l) \/ LogsFail(l) \/ Finish(l) \/ Fail(l)

Spec == Init /\ [][Next]_vars

(* The timer of a tab in the foreground ticks, and requests are answered.  *)
FairSpec ==
  /\ Spec
  /\ WF_vars(Poll)
  /\ \A l \in Slot : WF_vars(ReadTasks(l)) /\ WF_vars(ReadLogs(l)) /\ WF_vars(Finish(l))

-----------------------------------------------------------------------------
TypeOK ==
  /\ table \subseteq Id /\ nextId \in 1..(MaxId + 1)
  /\ items \in Seq(Id) /\ Len(items) <= MaxRows
  /\ lastId \in Id \cup {NULL}
  /\ shownAt \in Nat
  /\ activeLoad \in Slot \cup {NULL}
  /\ loads \in [Slot -> LoadState]
  /\ noTasks \in BOOLEAN /\ retryShown \in BOOLEAN
  /\ reset \in {NULL, 0} \cup Id
  /\ forgotten \in 0..MaxId /\ skipped \subseteq Id
  /\ fails \in 0..MaxFail /\ retries \in 0..MaxRetry

InOrder == \A i, j \in DOMAIN items : i < j => items[i] > items[j]

(* The tab shows every row once, newest first, as long as nobody clicks    *)
(* retry: the polls, the actions and the resets of a tab load one after    *)
(* the other, whatever fails and whoever else writes and wipes.            *)
LogbookInOrder == retries = 0 => InOrder

(* Between the oldest and the newest row it shows the tab misses none that *)
(* the ledger still has, but for those that an answer had no room for.     *)
NoSilentGap ==
  \A i \in table :
    retries = 0 /\ items # <<>> /\ items[Len(items)] < i /\ i < Head(items) =>
      (\E n \in DOMAIN items : items[n] = i) \/ i \in skipped

(* The board shown after an action is not older than the action, although  *)
(* a load that began before may be under way when it is answered.          *)
ActionsShowTheirEffect ==
  [][\A l \in Slot :
       loads[l].phase = "sent" /\ loads[l].kind = "action" /\ loads'[l].phase = "free"
         /\ fails' = fails
       => shownAt' >= loads[l].since]_vars

(* The tab never goes back to an older board, again unless retry is clicked. *)
BoardNeverGoesBack == [][retries = 0 => shownAt' >= shownAt]_vars

(* Every row reaches the tab, or is wiped: the cursor gets past it.        *)
RowsReachTheTab ==
  \A i \in Id : i \in table ~> i \notin table \/ (lastId # NULL /\ lastId >= i)

-----------------------------------------------------------------------------
(* What the program says of itself and does not do.                        *)

(* "All ... ledger entries are deleted", the tab asks before its reset, and *)
(* "the board is cleared", it says after: rows of before are not shown.    *)
ClearedMeansCleared == \A i \in DOMAIN items : items[i] >= forgotten
=============================================================================
