--------------------------- MODULE ParametersProofs ---------------------------
(***************************************************************************)
(* For every set of keys, values and inputs: start_task stores for every   *)
(* step the parameters that the documentation states, and stores the same  *)
(* ones again whenever the task is started again.                          *)
(*                                                                         *)
(* The invariant of the loop says what effective holds between any two of  *)
(* its iterations: for the keys of the current override that were applied  *)
(* and those it does not have the value at this step, for the others the   *)
(* value at the step before.                                               *)
(***************************************************************************)
EXTENDS Parameters, TLAPS

Here == Len(snapshots)

InOverride == Here < Len(overrides)

LoopInv ==
  resolving =>
    /\ starts < MaxStart
    /\ \A i \in 1..Here, k \in Keys : snapshots[i][k] = Expected(GroupParameters, k, i)
    /\ todo \subseteq IF InOverride THEN KeysOf(overrides[Here + 1]) ELSE {}
    /\ \A k \in Keys :
         effective[k] = Expected(GroupParameters, k,
                                 IF InOverride /\ k \notin todo THEN Here + 1 ELSE Here)

ParametersInv ==
  /\ TypeOK
  /\ LoopInv
  /\ frozen = NULL <=> resolved = NULL
  /\ ResolvedAsDocumented

-----------------------------------------------------------------------------
(* Before the first step a parameter has the value of the group or base.   *)
LEMMA ExpectedAtStart ==
  ASSUME NEW g \in Object, NEW k \in Keys
  PROVE  Expected(g, k, 0) = Updated(base, g)[k]
  <1>1. Setters(k, 0) = {}
    BY SMT DEF Setters
  <1>2. QED
    BY <1>1 DEF Expected

(* A step changes the keys that it overrides with something non-empty.     *)
LEMMA ExpectedAtStep ==
  ASSUME TypeOK, NEW g \in Object, NEW k \in Keys, NEW i \in Nat, i < Len(overrides)
  PROVE  Expected(g, k, i + 1) = IF overrides[i + 1][k] \in {Absent, Blank}
                                 THEN Expected(g, k, i) ELSE overrides[i + 1][k]
  <1>1. CASE overrides[i + 1][k] \in {Absent, Blank}
    <2>1. Setters(k, i + 1) = Setters(k, i)
      BY <1>1, SMT DEF Setters
    <2>2. QED
      BY <1>1, <2>1 DEF Expected
  <1>2. CASE overrides[i + 1][k] \notin {Absent, Blank}
    <2>1. i + 1 \in Setters(k, i + 1)
      BY <1>2, SMT DEF Setters
    <2>2. \A q \in Setters(k, i + 1) : q \in Nat /\ q <= i + 1
      BY SMT DEF Setters
    <2>3. \E j \in Setters(k, i + 1) : \A q \in Setters(k, i + 1) : q <= j
      BY <2>1, <2>2
    <2>4. /\ Last(Setters(k, i + 1)) \in Setters(k, i + 1)
          /\ \A q \in Setters(k, i + 1) : q <= Last(Setters(k, i + 1))
      BY <2>3 DEF Last
    <2>5. Last(Setters(k, i + 1)) = i + 1
      BY <2>1, <2>2, <2>4, SMT
    <2>6. Setters(k, i + 1) # {}
      BY <2>1
    <2>7. QED
      BY <1>2, <2>5, <2>6 DEF Expected
  <1>3. QED
    BY <1>1, <1>2

(* The rule reads nothing but the base and the overrides.                  *)
LEMMA ExpectedStable ==
  ASSUME UNCHANGED inputs, NEW CONSTANT g, NEW CONSTANT k, NEW CONSTANT i
  PROVE  Expected(g, k, i)' = Expected(g, k, i)
  <1>1. Setters(k, i)' = Setters(k, i)
    BY DEF inputs, Setters
  <1>2. Updated(base, g)' = Updated(base, g)
    BY DEF inputs, Updated
  <1>3. QED
    BY <1>1, <1>2 DEF inputs, Expected

(* Applying or copying an object gives an object.                          *)
LEMMA UpdatedType ==
  ASSUME NEW o \in Object, NEW p \in Object
  PROVE  Updated(o, p) \in Object
  BY DEF Updated, Object

LEMMA GroupParametersType ==
  ASSUME TypeOK
  PROVE  GroupParameters \in Object
  BY DEF TypeOK, GroupParameters

LEMMA EmptySnapshots == <<>> \in Seq(Object) /\ Len(<<>>) = 0
  OBVIOUS

-----------------------------------------------------------------------------
LEMMA InitInvariant == Init => ParametersInv
  <1> SUFFICES ASSUME Init PROVE ParametersInv
    OBVIOUS
  <1> USE ParametersAssumption
  <1>1. overrides \in Seq(Object) /\ overrides # <<>>
    <2>1. PICK n \in 1..MaxSteps : overrides \in [1..n -> Overrides]
      BY DEF Init
    <2>2. overrides \in [1..n -> Object]
      BY <2>1
    <2>3. overrides \in Seq(Object)
      BY <2>2
    <2>4. Len(overrides) = n /\ n > 0
      BY <2>1
    <2>5. QED
      BY <2>3, <2>4
  <1>2. TypeOK
    <2>1. base \in Object /\ group \in Object /\ effective \in Object
      BY DEF Init
    <2>2. snapshots \in Seq(Object) /\ Len(snapshots) <= Len(overrides)
      BY <1>1, EmptySnapshots DEF Init
    <2>3. frozen \in Object \cup {NULL} /\ resolved \in Seq(Object) \cup {NULL}
      BY DEF Init
    <2>4. starts \in 0..MaxStart
      BY SMT DEF Init
    <2>5. resolving \in BOOLEAN /\ todo \subseteq Keys
      BY Zenon DEF Init
    <2>6. QED
      BY <1>1, <2>1, <2>2, <2>3, <2>4, <2>5 DEF TypeOK
  <1>3. QED
    BY <1>2 DEF Init, ParametersInv, LoopInv, ResolvedAsDocumented

(* Each action, the invariant before it and the parts it may disturb.      *)
LEMMA BeginStartInvariant == ParametersInv /\ BeginStart => ParametersInv'
  <1> SUFFICES ASSUME ParametersInv, BeginStart PROVE ParametersInv'
    OBVIOUS
  <1> USE ParametersAssumption DEF ParametersInv
  <1>1. GroupParameters \in Object /\ GroupParameters' = GroupParameters
    BY GroupParametersType DEF BeginStart, GroupParameters
  <1>2. UNCHANGED inputs
    BY DEF BeginStart
  <1>3. overrides[1] \in Object /\ 1 <= Len(overrides)
    BY DEF TypeOK
  <1>4. TypeOK'
    <2>1. effective' \in Object
      BY <1>1, UpdatedType DEF BeginStart, TypeOK
    <2>2. todo' \subseteq Keys
      BY DEF BeginStart, KeysOf
    <2>3. QED
      BY <2>1, <2>2 DEF BeginStart, TypeOK, inputs
  <1>5. LoopInv'
    <2>1. snapshots' = <<>> /\ Here' = 0 /\ InOverride' /\ todo' = KeysOf(overrides[1])
      BY <1>2, <1>3 DEF BeginStart, Here, InOverride, inputs
    <2>2. ASSUME NEW k \in Keys
          PROVE  effective'[k] = Expected(GroupParameters, k, IF k \notin todo' THEN 1 ELSE 0)
      <3>1. effective'[k] = Expected(GroupParameters, k, 0)
        BY <1>1, ExpectedAtStart DEF BeginStart
      <3>2. k \notin todo' => overrides[1][k] = Absent
        BY <2>1 DEF KeysOf
      <3>3. k \notin todo' => Expected(GroupParameters, k, 0 + 1) = Expected(GroupParameters, k, 0)
        BY <1>1, <1>3, <3>2, ExpectedAtStep
      <3>4. QED
        BY <3>1, <3>3
    <2>3. QED
      <3>1. starts' < MaxStart
        BY DEF BeginStart
      <3>2. QED
        BY <1>1, <1>2, <2>1, <2>2, <3>1, ExpectedStable DEF LoopInv, inputs
  <1>6. QED
    BY <1>2, <1>4, <1>5, ExpectedStable DEF BeginStart, ResolvedAsDocumented, inputs

LEMMA ApplyKeyInvariant == ParametersInv /\ ApplyKey => ParametersInv'
  <1> SUFFICES ASSUME ParametersInv, ApplyKey PROVE ParametersInv'
    OBVIOUS
  <1> USE DEF ParametersInv
  <1>1. PICK x \in todo : todo' = todo \ {x} /\ effective' = Applied(x)
    BY DEF ApplyKey
  <1>2. UNCHANGED <<inputs, group, frozen, resolved, starts, resolving, snapshots>> /\ resolving
    BY DEF ApplyKey
  <1>3. x \in Keys
    BY <1>1 DEF TypeOK
  <1>4. GroupParameters' = GroupParameters /\ GroupParameters \in Object
    BY <1>2, GroupParametersType DEF GroupParameters
  <1>5. InOverride /\ Current[x] \in Values
    <2>1. CASE InOverride
      BY <1>1, <1>2, <1>3, <2>1 DEF LoopInv, KeysOf, TypeOK, InOverride, Here, Current, Object
    <2>2. CASE ~InOverride
      BY <1>1, <1>2, <2>2 DEF LoopInv
    <2>3. QED
      BY <2>1, <2>2
  <1>6. TypeOK'
    <2>1. effective' \in Object
      BY <1>1, <1>3, <1>5 DEF Applied, TypeOK, Object
    <2>2. QED
      BY <1>1, <1>2, <2>1 DEF TypeOK, inputs
  <1>7. LoopInv'
    <2>1. Here' = Here /\ InOverride' /\ Here \in Nat
      BY <1>2, <1>5 DEF Here, InOverride, inputs, TypeOK
    <2>2. ASSUME NEW k \in Keys
          PROVE  effective'[k] = Expected(GroupParameters, k, IF k \notin todo' THEN Here + 1 ELSE Here)
      <3>1. CASE k = x
        <4>1. Expected(GroupParameters, x, Here + 1) =
                IF overrides[Here + 1][x] \in {Absent, Blank}
                THEN Expected(GroupParameters, x, Here) ELSE overrides[Here + 1][x]
          BY <1>3, <1>4, <1>5, <2>1, ExpectedAtStep DEF InOverride
        <4>2. effective[x] = Expected(GroupParameters, x, Here)
          BY <1>1, <1>2, <1>3 DEF LoopInv
        <4>3. effective'[x] = IF Current[x] = Blank THEN effective[x] ELSE Current[x]
          BY <1>1, <1>3 DEF Applied, TypeOK, Object
        <4>4. Current = overrides[Here + 1] /\ Current[x] # Absent
          BY <1>5, ParametersAssumption DEF Current, Here
        <4>5. QED
          BY <1>1, <3>1, <4>1, <4>2, <4>3, <4>4
      <3>2. CASE k # x
        <4>1. effective'[k] = effective[k]
          BY <1>1, <3>2 DEF Applied, TypeOK, Object
        <4>2. k \notin todo' <=> k \notin todo
          BY <1>1, <3>2
        <4>3. effective[k] = Expected(GroupParameters, k, IF k \notin todo THEN Here + 1 ELSE Here)
          BY <1>2, <1>5 DEF LoopInv
        <4>4. QED
          BY <4>1, <4>2, <4>3
      <3>3. QED
        BY <3>1, <3>2
    <2>3. \A i \in 1..Here, k \in Keys : snapshots[i][k] = Expected(GroupParameters, k, i)
      BY <1>2 DEF LoopInv
    <2>4. todo' \subseteq KeysOf(overrides[Here + 1])
      BY <1>1, <1>2, <1>5 DEF LoopInv
    <2>5. QED
      BY <1>2, <1>4, <2>1, <2>2, <2>3, <2>4, ExpectedStable DEF LoopInv, inputs, KeysOf
  <1>8. QED
    BY <1>2, <1>6, <1>7, ExpectedStable DEF ResolvedAsDocumented, inputs

LEMMA TakeSnapshotInvariant == ParametersInv /\ TakeSnapshot => ParametersInv'
  <1> SUFFICES ASSUME ParametersInv, TakeSnapshot PROVE ParametersInv'
    OBVIOUS
  <1> USE DEF ParametersInv
  <1>1. UNCHANGED <<inputs, group, frozen, resolved, starts, resolving>> /\ resolving
    BY DEF TakeSnapshot
  <1>2. GroupParameters' = GroupParameters /\ GroupParameters \in Object
    BY <1>1, GroupParametersType DEF GroupParameters
  <1>3. /\ todo = {} /\ InOverride /\ Here \in Nat
        /\ snapshots' = Append(snapshots, effective) /\ effective' = effective
        /\ snapshots \in Seq(Object) /\ effective \in Object
    BY DEF TakeSnapshot, Carried, InOverride, Here, TypeOK
  <1>4. /\ Here' = Here + 1
        /\ todo' = IF InOverride' THEN KeysOf(overrides[Here + 2]) ELSE {}
    BY <1>1, <1>3 DEF TakeSnapshot, InOverride, Here, inputs
  <1>5. TypeOK'
    <2>1. todo' \subseteq Keys
      BY <1>4 DEF KeysOf
    <2>2. snapshots' \in Seq(Object) /\ Len(snapshots') <= Len(overrides)
      BY <1>3 DEF InOverride, Here, TypeOK
    <2>3. QED
      BY <1>1, <1>3, <2>1, <2>2 DEF TypeOK, inputs
  <1>6. LoopInv'
    <2>1. \A k \in Keys : effective[k] = Expected(GroupParameters, k, Here + 1)
      BY <1>1, <1>3 DEF LoopInv
    <2>2. ASSUME NEW i \in 1..(Here + 1), NEW k \in Keys
          PROVE  snapshots'[i][k] = Expected(GroupParameters, k, i)
      <3>1. CASE i = Here + 1
        BY <1>3, <2>1, <3>1 DEF Here
      <3>2. CASE i # Here + 1
        <4>1. i \in 1..Here
          BY <1>3, <3>2
        <4>2. snapshots'[i] = snapshots[i]
          BY <1>3, <4>1 DEF Here
        <4>3. QED
          BY <1>1, <4>1, <4>2 DEF LoopInv
      <3>3. QED
        BY <3>1, <3>2
    <2>3. ASSUME NEW k \in Keys
          PROVE  effective'[k] = Expected(GroupParameters, k,
                                   IF InOverride' /\ k \notin todo' THEN Here + 2 ELSE Here + 1)
      <3>1. CASE InOverride' /\ k \notin todo'
        <4>1. overrides[Here + 2][k] = Absent
          BY <1>4, <3>1 DEF KeysOf
        <4>2. Here + 1 < Len(overrides)
          BY <1>1, <1>4, <3>1 DEF InOverride, inputs
        <4>3. Expected(GroupParameters, k, (Here + 1) + 1) = Expected(GroupParameters, k, Here + 1)
          <5>1. (Here + 1) + 1 = Here + 2 /\ Here + 1 \in Nat
            BY <1>3
          <5>2. QED
            BY <1>2, <4>1, <4>2, <5>1, ExpectedAtStep
        <4>4. (Here + 1) + 1 = Here + 2
          BY <1>3
        <4>5. QED
          BY <1>3, <2>1, <3>1, <4>3, <4>4
      <3>2. CASE ~(InOverride' /\ k \notin todo')
        BY <1>3, <2>1, <3>2
      <3>3. QED
        BY <3>1, <3>2
    <2>4. todo' \subseteq IF InOverride' THEN KeysOf(overrides'[Here' + 1]) ELSE {}
      <3>1. Here' + 1 = Here + 2 /\ overrides' = overrides
        BY <1>1, <1>3, <1>4 DEF inputs
      <3>2. QED
        BY <1>4, <3>1
    <2>5. Here' + 1 = Here + 2
      BY <1>3, <1>4
    <2>6. \A i \in 1..Here', k \in Keys : snapshots'[i][k] = Expected(GroupParameters, k, i)'
      BY <1>1, <1>2, <1>4, <2>2, ExpectedStable
    <2>7. \A k \in Keys :
            effective'[k] = Expected(GroupParameters, k,
                                     IF InOverride /\ k \notin todo THEN Here + 1 ELSE Here)'
      BY <1>1, <1>2, <1>4, <2>3, <2>5, ExpectedStable
    <2>8. starts' < MaxStart
      BY <1>1 DEF LoopInv
    <2>9. QED
      BY <2>4, <2>6, <2>7, <2>8 DEF LoopInv, KeysOf
  <1>7. QED
    BY <1>1, <1>5, <1>6, ExpectedStable DEF ResolvedAsDocumented, inputs
(* What is stored is what the loop found; a second time, what was stored.  *)
LEMMA CommitStartInvariant ==
  ParametersInv /\ CommitStart =>
    ParametersInv' /\ (resolved # NULL => resolved' = resolved /\ frozen' = frozen)
  <1> SUFFICES ASSUME ParametersInv, CommitStart
               PROVE  ParametersInv' /\ (resolved # NULL => resolved' = resolved /\ frozen' = frozen)
    OBVIOUS
  <1> USE ParametersAssumption DEF ParametersInv
  <1>1. UNCHANGED inputs /\ UNCHANGED group /\ resolving /\ ~resolving'
    BY DEF CommitStart, EndStart
  <1>2. GroupParameters \in Object
    BY GroupParametersType
  <1>3. /\ resolved' = snapshots /\ frozen' = GroupParameters /\ snapshots \in Seq(Object)
        /\ Len(snapshots) = Len(overrides) /\ overrides \in Seq(Object)
    BY DEF CommitStart, TypeOK
  <1>4. \A i \in DOMAIN overrides, k \in Keys :
          snapshots[i][k] = Expected(GroupParameters, k, i)
    BY <1>1, <1>3 DEF LoopInv, Here
  <1>5. TypeOK'
    <2>1. starts' \in 0..MaxStart
      BY <1>1 DEF CommitStart, LoopInv, TypeOK
    <2>2. resolving' \in BOOLEAN /\ todo' \subseteq Keys /\ effective' \in Object
      BY DEF CommitStart, EndStart, TypeOK
    <2>3. snapshots' \in Seq(Object) /\ Len(snapshots') <= Len(overrides)
      BY <1>3, EmptySnapshots DEF CommitStart, EndStart
    <2>4. QED
      BY <1>1, <1>2, <1>3, <2>1, <2>2, <2>3 DEF TypeOK, inputs
  <1>6. ResolvedAsDocumented'
    BY <1>1, <1>3, <1>4, ExpectedStable DEF ResolvedAsDocumented, inputs
  <1>7. ASSUME resolved # NULL
        PROVE  resolved' = resolved /\ frozen' = frozen
    <2>1. GroupParameters = frozen
      BY <1>7 DEF GroupParameters
    <2>2. resolved \in Seq(Object) /\ Len(resolved) = Len(overrides)
      BY <1>7 DEF TypeOK, ResolvedAsDocumented
    <2>3. ASSUME NEW i \in 1..Len(overrides)
          PROVE  snapshots[i] = resolved[i]
      <3>1. i \in DOMAIN overrides /\ snapshots[i] \in Object /\ resolved[i] \in Object
        BY <1>3, <2>2
      <3>2. \A k \in Keys : snapshots[i][k] = resolved[i][k]
        BY <1>4, <1>7, <2>1, <3>1 DEF ResolvedAsDocumented
      <3>3. QED
        BY <3>1, <3>2 DEF Object
    <2>4. QED
      BY <1>3, <2>1, <2>2, <2>3
  <1>8. frozen' # NULL /\ resolved' # NULL
    BY <1>2, <1>3
  <1>9. QED
    BY <1>1, <1>5, <1>6, <1>7, <1>8 DEF LoopInv

LEMMA OutsideLoopInvariant ==
  ParametersInv /\ (RollBack \/ UpdateGroup \/ UNCHANGED vars) =>
    ParametersInv' /\ UNCHANGED <<resolved, frozen>>
  <1> SUFFICES ASSUME ParametersInv, RollBack \/ UpdateGroup \/ UNCHANGED vars
               PROVE  ParametersInv' /\ UNCHANGED <<resolved, frozen>>
    OBVIOUS
  <1> USE ParametersAssumption DEF ParametersInv
  <1>1. UNCHANGED <<inputs, frozen, resolved>>
    BY DEF RollBack, UpdateGroup, vars
  <1>2. ResolvedAsDocumented'
    BY <1>1, ExpectedStable DEF ResolvedAsDocumented, inputs
  <1>3. CASE RollBack
    <2>1. ~resolving' /\ todo' \subseteq Keys /\ effective' \in Object /\ resolving' \in BOOLEAN
      BY <1>3 DEF RollBack, EndStart, TypeOK
    <2>2. snapshots' \in Seq(Object) /\ Len(snapshots') <= Len(overrides)
      BY <1>3, EmptySnapshots DEF RollBack, EndStart, TypeOK
    <2>3. TypeOK'
      BY <1>1, <1>3, <2>1, <2>2 DEF RollBack, TypeOK, inputs
    <2>4. QED
      BY <1>1, <1>2, <2>1, <2>3 DEF LoopInv
  <1>4. CASE UpdateGroup
    BY <1>1, <1>2, <1>4 DEF UpdateGroup, TypeOK, LoopInv, inputs, loop
  <1>5. CASE UNCHANGED vars
    <2>1. TypeOK'
      BY <1>5 DEF TypeOK, vars, inputs, loop
    <2>2. GroupParameters' = GroupParameters /\ Here' = Here /\ InOverride' = InOverride
      BY <1>5 DEF vars, inputs, loop, GroupParameters, Here, InOverride
    <2>3. LoopInv'
      BY <1>5, <2>2, ExpectedStable DEF vars, inputs, loop, LoopInv, KeysOf
    <2>4. QED
      BY <1>1, <1>2, <2>1, <2>3
  <1>6. QED
    BY <1>3, <1>4, <1>5

LEMMA StepInvariant ==
  ParametersInv /\ [Next]_vars =>
    ParametersInv' /\ (resolved # NULL => resolved' = resolved /\ frozen' = frozen)
  <1> SUFFICES ASSUME ParametersInv, [Next]_vars
               PROVE  ParametersInv' /\ (resolved # NULL => resolved' = resolved /\ frozen' = frozen)
    OBVIOUS
  <1>1. CASE BeginStart
    BY <1>1, BeginStartInvariant DEF BeginStart
  <1>2. CASE ApplyKey
    BY <1>2, ApplyKeyInvariant DEF ApplyKey
  <1>3. CASE TakeSnapshot
    BY <1>3, TakeSnapshotInvariant DEF TakeSnapshot
  <1>4. CASE CommitStart
    BY <1>4, CommitStartInvariant
  <1>5. CASE RollBack \/ UpdateGroup \/ UNCHANGED vars
    BY <1>5, OutsideLoopInvariant
  <1>6. QED
    BY <1>1, <1>2, <1>3, <1>4, <1>5 DEF Next

-----------------------------------------------------------------------------
(* resolve_parameter_chain computes the documented rule: whatever the      *)
(* number of steps, the keys, the order they come in and the edits of the  *)
(* group, every stored value is the last non-empty override, else what the *)
(* group gave at the first start, else the base value.                     *)
THEOREM ParametersAreResolved == Spec => []ResolvedAsDocumented
  <1>1. ParametersInv => ResolvedAsDocumented
    BY DEF ParametersInv
  <1>2. QED
    BY <1>1, InitInvariant, StepInvariant, PTL DEF Spec

(* "Recomputing every snapshot is idempotent on resume": a later start     *)
(* stores what the first one stored.                                       *)
THEOREM ResumeIsIdempotent == Spec => ResolvingIsIdempotent
  <1>1. ParametersInv /\ [Next]_vars =>
          [resolved # NULL => resolved' = resolved /\ frozen' = frozen]_vars
    BY StepInvariant
  <1>2. QED
    BY <1>1, InitInvariant, StepInvariant, PTL DEF Spec, ResolvingIsIdempotent
=============================================================================
