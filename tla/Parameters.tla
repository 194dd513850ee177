------------------------------ MODULE Parameters ------------------------------
(***************************************************************************)
(* How the parameters of a task are resolved (src/app/services.py):        *)
(* resolve_parameter_chain, iteration by iteration, inside the transaction *)
(* of start_task that reads its inputs and stores its result.  A task that *)
(* was requeued is started, and all its steps are resolved, again; its     *)
(* group may have been edited in between.                                  *)
(*                                                                         *)
(* A parameter object maps each key to a value, or to Absent.  Nested      *)
(* objects are values: the code never looks into them.                     *)
(***************************************************************************)
EXTENDS Naturals, Sequences

CONSTANTS
  Keys,
  Values,     \* JSON values, Blank among them
  Blank,      \* the empty string
  Absent,     \* what an object has for a key it does not have
  Bases,      \* the base_parameters a task may have (L1)
  Groups,     \* the override_parameters its group may have (L2)
  Overrides,  \* the override_parameters a step may have (L3)
  NULL,
  MaxSteps,   \* bound: steps of the task
  MaxStart    \* bound: starts of the task

Object == [Keys -> Values \cup {Absent}]

ASSUME ParametersAssumption ==
  /\ Blank \in Values /\ Absent \notin Values
  /\ Bases \subseteq Object /\ Groups \subseteq Object /\ Overrides \subseteq Object
  /\ NULL \notin Object /\ NULL \notin Seq(Object)
  /\ MaxSteps \in Nat \ {0} /\ MaxStart \in Nat

VARIABLES
  base, overrides,  \* of the task and its steps; nothing writes them again
  group,            \* the override_parameters of its group, as they are now
  frozen,           \* tasks.group_parameters_snapshot
  resolved,         \* steps.resolved_parameters, of all steps, or NULL
  starts,           \* starts that were committed
  resolving,        \* whether a start is under way
  effective,        \* what the steps so far have made of the parameters
  snapshots,        \* the results so far
  todo              \* keys of the current override that are still to be applied

inputs == <<base, overrides>>
loop   == <<resolving, effective, snapshots, todo>>
vars   == <<inputs, group, frozen, resolved, starts, loop>>

(* dict.update: the second object wins, also with an empty string.         *)
Updated(o, p) == [k \in Keys |-> IF p[k] # Absent THEN p[k] ELSE o[k]]

KeysOf(o) == {k \in Keys : o[k] # Absent}

(* The first start takes the group as it is, later ones what it froze.     *)
GroupParametersFault == group
GroupParameters == IF frozen # NULL THEN frozen ELSE group

-----------------------------------------------------------------------------
(* BEGIN IMMEDIATE, the reads and the head of resolve_parameter_chain.     *)
BeginStart ==
  /\ ~resolving /\ starts < MaxStart
  /\ resolving' = TRUE
  /\ effective' = Updated(base, GroupParameters)
  /\ snapshots' = <<>>
  /\ todo' = KeysOf(overrides[1])
  /\ UNCHANGED <<inputs, group, frozen, resolved, starts>>

Current == overrides[Len(snapshots) + 1]

AppliedFault(k) == [effective EXCEPT ![k] = Current[k]]
Applied(k) == IF Current[k] = Blank THEN effective
              ELSE [effective EXCEPT ![k] = Current[k]]

ApplyKey ==
  /\ resolving
  /\ \E k \in todo : todo' = todo \ {k} /\ effective' = Applied(k)
  /\ UNCHANGED <<inputs, group, frozen, resolved, starts, resolving, snapshots>>

(* What the next step starts from: everything so far is sticky.            *)
Carried == effective

TakeSnapshot ==
  /\ resolving /\ todo = {} /\ Len(snapshots) < Len(overrides)
  /\ snapshots' = Append(snapshots, effective)
  /\ effective' = Carried
  /\ todo' = IF Len(snapshots) + 1 < Len(overrides)
             THEN KeysOf(overrides[Len(snapshots) + 2]) ELSE {}
  /\ UNCHANGED <<inputs, group, frozen, resolved, starts, resolving>>

EndStart == resolving' = FALSE /\ effective' = base /\ snapshots' = <<>> /\ todo' = {}

(* Every step's row is written, those of finished steps too.               *)
CommitStart ==
  /\ resolving /\ Len(snapshots) = Len(overrides)
  /\ EndStart
  /\ resolved' = snapshots
  /\ frozen' = GroupParameters
  /\ starts' = starts + 1
  /\ UNCHANGED <<inputs, group>>

(* The start is rolled back: its process is killed or an error is raised.  *)
RollBack ==
  /\ resolving
  /\ EndStart
  /\ UNCHANGED <<inputs, group, frozen, resolved, starts>>

(* update_group waits for the write lock that a start holds.               *)
UpdateGroup ==
  /\ ~resolving
  /\ group' \in Groups
  /\ UNCHANGED <<inputs, frozen, resolved, starts, loop>>

Init ==
  /\ base \in Bases
  /\ overrides \in UNION {[1..n -> Overrides] : n \in 1..MaxSteps}
  /\ group \in Groups
  /\ frozen = NULL /\ resolved = NULL /\ starts = 0
  /\ resolving = FALSE
  /\ effective = base /\ snapshots = <<>> /\ todo = {}

Next == BeginStart \/ ApplyKey \/ TakeSnapshot \/ CommitStart \/ RollBack \/ UpdateGroup

Spec == Init /\ [][Next]_vars

-----------------------------------------------------------------------------
TypeOK ==
  /\ base \in Object /\ overrides \in Seq(Object) /\ overrides # <<>>
  /\ group \in Object
  /\ frozen \in Object \cup {NULL}
  /\ resolved \in Seq(Object) \cup {NULL}
  /\ starts \in 0..MaxStart
  /\ resolving \in BOOLEAN
  /\ effective \in Object
  /\ snapshots \in Seq(Object) /\ Len(snapshots) <= Len(overrides)
  /\ todo \subseteq Keys

(* The rule as the documentation states it: the value of a key at step i   *)
(* is the last non-empty override up to that step, else what the group     *)
(* gave at the first start, else the base value.                           *)
Setters(k, i) == {j \in 1..i : overrides[j][k] \notin {Absent, Blank}}

Last(S) == CHOOSE j \in S : \A q \in S : q <= j

Expected(g, k, i) ==
  IF Setters(k, i) = {} THEN Updated(base, g)[k] ELSE overrides[Last(Setters(k, i))][k]

(* What start_task stores for every step is what the documentation says,   *)
(* in whatever order the keys of an override come.                         *)
ResolvedAsDocumented ==
  resolved # NULL =>
    /\ Len(resolved) = Len(overrides)
    /\ \A i \in DOMAIN overrides, k \in Keys : resolved[i][k] = Expected(frozen, k, i)

(* "Recomputing every snapshot is idempotent on resume": no later start    *)
(* changes the parameters of a step, of a finished one least of all.       *)
ResolvingIsIdempotent ==
  [][resolved # NULL => resolved' = resolved /\ frozen' = frozen]_vars
=============================================================================
