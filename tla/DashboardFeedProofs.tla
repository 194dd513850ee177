------------------------- MODULE DashboardFeedProofs -------------------------
(***************************************************************************)
(* The order and the completeness of the ledger panel, and the age of the  *)
(* board, proved for any number of loads, ledger rows, limits of answers   *)
(* and of the panel, failures and clicks.                                  *)
(***************************************************************************)
EXTENDS DashboardFeed, FiniteSetTheorems, SequenceTheorems, TLAPS

Sorted(s) == \A m, n \in 1..Len(s) : m < n => s[m] > s[n]
Has(s, i) == \E n \in 1..Len(s) : s[n] = i

(* The cursor is the newest row shown.                                     *)
CursorShown ==
  /\ lastId = NULL <=> items = <<>>
  /\ items # <<>> => lastId = items[1]

(* An answer has the rows of the table after the cursor, up to its newest, *)
(* but for those it had no room for.                                       *)
AnswerTells(load) ==
  load.logs # <<>> =>
    \A i \in table : i < load.logs[1] /\ (load.after # NULL => i > load.after)
                     => Has(load.logs, i) \/ i \in skipped

LoadSound(load) ==
  /\ load.since <= nextId /\ load.tasksAt <= nextId
  /\ load.phase # "sent" => load.tasksAt = 0 /\ load.logs = NULL
  /\ load.tasksAt # 0 => load.tasksAt >= load.since
  /\ load.logs # NULL =>
       /\ Len(load.logs) <= MaxRows /\ Sorted(load.logs)
       /\ \A n \in 1..Len(load.logs) : /\ load.logs[n] < nextId
                                       /\ load.after # NULL => load.logs[n] > load.after
       /\ AnswerTells(load)

Acts(l) == loads[l].phase # "free" /\ loads[l].kind = "action"

(* Without clicks on retry one load is under way at a time; an action's    *)
(* may wait for it.                                                        *)
OneAtATime ==
  /\ activeLoad = NULL => \A l \in Slot : loads[l].phase = "free"
  /\ activeLoad # NULL => loads[activeLoad].phase = "sent"
  /\ \A l \in Slot : loads[l].phase = "sent" => l = activeLoad
  /\ \A l \in Slot : loads[l].phase = "waiting" => loads[l].on = activeLoad /\ loads[l].kind = "action"
  /\ \A l, m \in Slot : Acts(l) /\ Acts(m) => l = m
  /\ reset # NULL => \A l \in Slot : ~Acts(l)

(* It asked for the rows after those shown, unless they were cleared since; *)
(* and no newer board was shown in between.                                *)
UpToDate(load) ==
  load.phase = "sent" => /\ load.after = lastId \/ lastId = NULL
                         /\ load.tasksAt # 0 => load.tasksAt >= shownAt

NoGap ==
  items # <<>> =>
    \A i \in table : items[Len(items)] < i /\ i < items[1] => Has(items, i) \/ i \in skipped

Serial ==
  /\ OneAtATime /\ Sorted(items) /\ NoGap
  /\ \A l \in Slot : UpToDate(loads[l])

FeedInv ==
  /\ TypeOK /\ CursorShown /\ shownAt <= nextId
  /\ \A i \in table : i < nextId
  /\ \A n \in 1..Len(items) : items[n] < nextId
  /\ \A l \in Slot : LoadSound(loads[l])
  /\ retries = 0 => Serial

-----------------------------------------------------------------------------
(* Rows sorted by how many are newer.                                      *)

LEMMA IdFacts == /\ Id \subseteq Nat \ {0} /\ IsFiniteSet(Id) /\ NULL \notin Slot
                 /\ NULL \notin Nat /\ NULL \notin Id /\ NULL \notin Seq(Id)
                 /\ FirstLimit \in Nat /\ Limit \in Nat /\ MaxRows \in Nat \ {0}
                 /\ FirstLimit <= MaxRows /\ Limit <= MaxRows
                 /\ MaxId \in Nat /\ MaxFail \in Nat /\ MaxRetry \in Nat
  <1>1. /\ FirstLimit \in Nat /\ Limit \in Nat /\ MaxRows \in Nat \ {0}
        /\ MaxId \in Nat /\ MaxFail \in Nat /\ MaxRetry \in Nat
    BY FeedAssumption
  <1>2. IsFiniteSet(Id)
    BY <1>1, FS_Interval DEF Id
  <1>3. Id \subseteq Nat \ {0} /\ NULL \notin Nat /\ NULL \notin Id
    BY FeedAssumption DEF Id
  <1>4. NULL \notin Seq(Id)
    <2>1. ASSUME NEW s \in Seq(Id) PROVE s \in Seq(Nat)
      <3>1. Len(s) \in Nat /\ s \in [1..Len(s) -> Id]
        BY LenProperties
      <3>2. s \in [1..Len(s) -> Nat]
        BY <1>3, <3>1
      <3>3. QED
        BY <3>1, <3>2, SeqDef
    <2>2. QED
      BY <2>1, FeedAssumption
  <1>5. QED
    BY <1>1, <1>2, <1>3, <1>4, FeedAssumption

LEMMA NewerIsOrder ==
  ASSUME NEW S \in SUBSET Id
  PROVE  /\ IsFiniteSet(S) /\ Cardinality(S) \in Nat
         /\ \A i \in S : Newer(i, S) \in 0..(Cardinality(S) - 1)
         /\ \A i, j \in S : i < j => Newer(j, S) < Newer(i, S)
         /\ \A i, j \in S : Newer(i, S) = Newer(j, S) => i = j
  <1>1. IsFiniteSet(S) /\ Cardinality(S) \in Nat /\ S \subseteq Nat
    BY IdFacts, FS_Subset, FS_CardinalityType
  <1>2. ASSUME NEW i \in S PROVE Newer(i, S) \in 0..(Cardinality(S) - 1)
    <2> DEFINE T == {j \in S : j > i}
    <2>1. T \in SUBSET S /\ i \notin T /\ i \in Nat
      BY <1>1
    <2>2. T # S
      BY <2>1
    <2>3. Cardinality(T) <= Cardinality(S) /\ Cardinality(T) # Cardinality(S)
          /\ Cardinality(T) \in Nat
      BY <1>1, <2>1, <2>2, FS_Subset, FS_CardinalityType
    <2>4. QED
      BY <1>1, <2>3 DEF Newer
  <1>3. ASSUME NEW i \in S, NEW j \in S, i < j PROVE Newer(j, S) < Newer(i, S)
    <2> DEFINE T == {k \in S : k > j}
               U == {k \in S : k > i}
    <2>1. T \in SUBSET U /\ j \in U /\ j \notin T /\ U \in SUBSET S
      <3>1. i \in Nat /\ j \in Nat /\ \A k \in S : k \in Nat
        BY <1>1
      <3>2. \A k \in S : k > j => k > i
        BY <3>1, <1>3
      <3>3. j > i /\ ~(j > j)
        BY <3>1, <1>3
      <3>4. T \subseteq U
        BY <3>2
      <3>5. QED
        BY <3>3, <3>4
    <2>2. IsFiniteSet(U) /\ T # U
      BY <1>1, <2>1, FS_Subset
    <2> HIDE DEF T, U
    <2>3. /\ Cardinality(T) <= Cardinality(U) /\ Cardinality(T) # Cardinality(U)
          /\ Cardinality(T) \in Nat /\ Cardinality(U) \in Nat
      <3>1. IsFiniteSet(T)
        BY <2>1, <2>2, FS_Subset
      <3>2. QED
        BY <2>1, <2>2, <3>1, FS_Subset, FS_CardinalityType
    <2>4. QED
      BY <2>3 DEF Newer, T, U
  <1>4. ASSUME NEW i \in S, NEW j \in S, Newer(i, S) = Newer(j, S) PROVE i = j
    <2>1. i \in Nat /\ j \in Nat /\ Newer(i, S) \in Nat
      BY <1>1, <1>2
    <2>2. ~(i < j) /\ ~(j < i)
      BY <1>3, <1>4, <2>1
    <2>3. QED
      BY <2>1, <2>2
  <1>5. QED
    BY <1>1, <1>2, <1>3, <1>4

(* Every rank is taken: the ranks are as many as the rows.                 *)
LEMMA EveryRank ==
  ASSUME NEW S \in SUBSET Id, NEW n \in 1..Cardinality(S)
  PROVE  \E i \in S : Newer(i, S) = n - 1
  <1> DEFINE R == 0..(Cardinality(S) - 1)
             f == [i \in S |-> Newer(i, S)]
  <1>1. Cardinality(S) \in Nat /\ IsFiniteSet(S)
    BY NewerIsOrder
  <1>2. f \in [S -> R] /\ \A i, j \in S : f[i] = f[j] => i = j
    BY NewerIsOrder
  <1>3. f \in Injection(S, R)
    BY <1>2 DEF Injection, IsInjective
  <1>4. IsFiniteSet(R) /\ Cardinality(R) = Cardinality(S)
    <2> DEFINE b == Cardinality(S) - 1
    <2>1. b \in Int /\ 0 \in Int /\ b + 1 = Cardinality(S) /\ (0 > b => b + 1 = 0)
      BY <1>1
    <2> HIDE DEF b
    <2>2. IsFiniteSet(0..b) /\ Cardinality(0..b) = IF 0 > b THEN 0 ELSE b - 0 + 1
      BY <2>1, FS_Interval
    <2>3. IsFiniteSet(0..b) /\ Cardinality(0..b) = b + 1
      BY <2>1, <2>2
    <2>4. QED
      BY <2>1, <2>3 DEF b
  <1>5. f \in Surjection(S, R)
    BY <1>3, <1>4, FS_Injection
  <1>6. n - 1 \in R
    BY <1>1
  <1>7. PICK i \in S : f[i] = n - 1
    BY <1>5, <1>6 DEF Surjection
  <1>8. QED
    BY <1>7

LEMMA NewestFirstSorts ==
  ASSUME NEW S \in SUBSET Id
  PROVE  LET s == NewestFirst(S)
         IN  /\ s \in Seq(Id) /\ Len(s) = Cardinality(S) /\ Sorted(s)
             /\ \A n \in 1..Len(s) : s[n] \in S
             /\ \A i \in S : Has(s, i)
  <1> DEFINE s == NewestFirst(S)
             c == Cardinality(S)
  <1>1. c \in Nat /\ S \subseteq Nat
    BY NewerIsOrder, IdFacts
  <1>2. \A n \in 1..c : s[n] \in S /\ Newer(s[n], S) = n - 1
    BY EveryRank DEF NewestFirst
  <1>3. s = [n \in 1..c |-> s[n]]
    BY DEF NewestFirst
  <1>4. s \in [1..c -> Id]
    BY <1>2, <1>3
  <1> HIDE DEF s
  <1>5. s \in Seq(Id) /\ Len(s) = c
    <2>1. s \in Seq(Id)
      BY <1>1, <1>4, SeqDef
    <2>2. DOMAIN s = 1..Len(s) /\ DOMAIN s = 1..c /\ Len(s) \in Nat
      BY <1>4, <2>1, LenProperties
    <2>3. QED
      BY <1>1, <2>1, <2>2
  <1>6. Sorted(s)
    <2> SUFFICES ASSUME NEW m \in 1..Len(s), NEW n \in 1..Len(s), m < n PROVE s[m] > s[n]
      BY DEF Sorted
    <2>1. /\ s[m] \in S /\ s[n] \in S /\ s[m] \in Nat /\ s[n] \in Nat
          /\ Newer(s[m], S) = m - 1 /\ Newer(s[n], S) = n - 1
      BY <1>1, <1>2, <1>5
    <2>2. ~(m - 1 = n - 1) /\ ~(n - 1 < m - 1)
      BY <1>1, <1>5
    <2>3. s[m] < s[n] => Newer(s[n], S) < Newer(s[m], S)
      BY <2>1, NewerIsOrder
    <2>4. s[m] # s[n]
      BY <2>1, <2>2
    <2>5. QED
      BY <2>1, <2>2, <2>3, <2>4
  <1>7. ASSUME NEW i \in S PROVE Has(s, i)
    <2>1. Newer(i, S) \in 0..(c - 1)
      BY NewerIsOrder
    <2>2. PICK n \in 1..c : n - 1 = Newer(i, S)
      <3>1. Newer(i, S) + 1 \in 1..c
        BY <1>1, <2>1
      <3>2. QED
        BY <2>1, <3>1
    <2>3. s[n] \in S /\ Newer(s[n], S) = Newer(i, S)
      BY <1>2, <2>2
    <2>4. s[n] = i
      BY <2>3, NewerIsOrder
    <2>5. QED
      BY <1>5, <2>4 DEF Has
  <1>8. QED
    BY <1>2, <1>5, <1>6, <1>7 DEF s

LEMMA NewestFits ==
  ASSUME NEW S \in SUBSET Id, NEW k \in Nat
  PROVE  Newest(k, S) \in SUBSET S /\ Cardinality(Newest(k, S)) <= k
  <1> DEFINE N == Newest(k, S)
             R == 0..(k - 1)
             f == [i \in N |-> Newer(i, S)]
  <1>1. N \in SUBSET S
    BY DEF Newest
  <1>2. f \in [N -> R] /\ \A i, j \in N : f[i] = f[j] => i = j
    <2>1. \A i \in N : Newer(i, S) \in 0..(Cardinality(S) - 1) /\ Newer(i, S) < k
      BY NewerIsOrder DEF Newest
    <2>2. \A i \in N : Newer(i, S) \in R
      BY <2>1, NewerIsOrder
    <2>3. QED
      BY <1>1, <2>2, NewerIsOrder
  <1>3. f \in Injection(N, R)
    BY <1>2 DEF Injection, IsInjective
  <1>4. IsFiniteSet(R) /\ Cardinality(R) = k
    BY FS_Interval
  <1>5. Cardinality(N) <= k
    BY <1>3, <1>4, FS_Injection
  <1>6. QED
    BY <1>1, <1>5

(* What list_operation_logs answers, whatever its limit.                   *)
LEMMA AnswerTellsAll ==
  ASSUME TypeOK, NEW cursor \in Id \cup {NULL}
  PROVE  LET s == Answer(cursor)
         IN  /\ s \in Seq(Id) /\ Len(s) <= MaxRows /\ Sorted(s)
             /\ \A n \in 1..Len(s) : s[n] \in RowsAfter(cursor)
             /\ \A i \in RowsAfter(cursor) :
                  Has(s, i) \/ i \notin Newest(RowLimit(cursor), RowsAfter(cursor))
  <1> DEFINE S == RowsAfter(cursor)
             k == RowLimit(cursor)
             N == Newest(k, S)
             s == NewestFirst(N)
  <1>1. S \in SUBSET Id
    BY DEF RowsAfter, TypeOK
  <1>2. k \in Nat /\ k <= MaxRows
    BY IdFacts DEF RowLimit
  <1> HIDE DEF S, k
  <1>3. N \in SUBSET S /\ Cardinality(N) <= k
    BY <1>1, <1>2, NewestFits
  <1>4. N \in SUBSET Id
    BY <1>1, <1>3
  <1> HIDE DEF N
  <1>5. /\ s \in Seq(Id) /\ Len(s) = Cardinality(N) /\ Sorted(s)
        /\ \A n \in 1..Len(s) : s[n] \in N
        /\ \A i \in N : Has(s, i)
    BY <1>4, NewestFirstSorts
  <1> HIDE DEF s
  <1>6. Len(s) <= MaxRows
    <2>1. Cardinality(N) \in Nat
      BY <1>4, NewerIsOrder
    <2>2. QED
      BY <1>2, <1>3, <1>5, <2>1, IdFacts
  <1>7. \A n \in 1..Len(s) : s[n] \in S
    BY <1>3, <1>5
  <1>8. \A i \in S : Has(s, i) \/ i \notin N
    BY <1>5
  <1>9. Answer(cursor) = s
    BY DEF Answer, s, N, S, k
  <1>10. QED
    BY <1>5, <1>6, <1>7, <1>8, <1>9 DEF N, S, k

(* The first k rows of the new ones and the ones the tab has.              *)
LEMMA Merged ==
  ASSUME NEW rows \in Seq(Id), NEW old \in Seq(Id), Len(rows) > 0, Len(old) > 0,
         NEW k \in 1..(Len(rows) + Len(old))
  PROVE  LET s == SubSeq(rows \o old, 1, k)
         IN  /\ s \in Seq(Id) /\ Len(s) = k /\ s[1] = rows[1]
             /\ \A n \in 1..k : IF n <= Len(rows) THEN s[n] = rows[n]
                                ELSE s[n] = old[n - Len(rows)] /\ n - Len(rows) \in 1..Len(old)
  <1> DEFINE all == rows \o old
             s == SubSeq(all, 1, k)
  <1>1. Len(rows) \in Nat /\ Len(old) \in Nat
    BY LenProperties
  <1>2. /\ all \in Seq(Id) /\ Len(all) = Len(rows) + Len(old)
        /\ \A n \in 1..(Len(rows) + Len(old)) :
             all[n] = IF n <= Len(rows) THEN rows[n] ELSE old[n - Len(rows)]
    BY ConcatProperties
  <1> HIDE DEF all
  <1>3. k \in Int /\ 1 \in Int /\ k >= 1 /\ k <= Len(all)
    BY <1>1, <1>2
  <1>4. \A n \in 1..k : n \in 1..Len(all)
    BY <1>1, <1>2, <1>3
  <1>5. \A n \in 1..k : all[n] \in Id
    BY <1>2, <1>4, ElementOfSeq
  <1>6. /\ s \in Seq(Id) /\ Len(s) = IF 1 <= k THEN k - 1 + 1 ELSE 0
        /\ \A n \in 1..(k - 1 + 1) : s[n] = all[1 + n - 1]
    BY <1>3, <1>5, SubSeqProperties
  <1> HIDE DEF s
  <1>7. Len(s) = k /\ \A n \in 1..k : s[n] = all[n]
    <2>1. k - 1 + 1 = k /\ 1 <= k
      BY <1>3
    <2>2. \A n \in 1..k : 1 + n - 1 = n
      BY <1>3
    <2>3. QED
      BY <1>6, <2>1, <2>2
  <1>8. s[1] = rows[1]
    BY <1>1, <1>2, <1>3, <1>7
  <1>9. ASSUME NEW n \in 1..k
        PROVE  IF n <= Len(rows) THEN s[n] = rows[n]
               ELSE s[n] = old[n - Len(rows)] /\ n - Len(rows) \in 1..Len(old)
    <2>1. s[n] = IF n <= Len(rows) THEN rows[n] ELSE old[n - Len(rows)]
      BY <1>2, <1>4, <1>7
    <2>2. ~(n <= Len(rows)) => n - Len(rows) \in 1..Len(old)
      BY <1>1, <1>2, <1>3
    <2>3. QED
      BY <2>1, <2>2
  <1>10. QED
    BY <1>6, <1>7, <1>8, <1>9 DEF s, all

LEMMA MergedIsSorted ==
  ASSUME NEW rows \in Seq(Id), NEW old \in Seq(Id), Len(rows) > 0, Len(old) > 0,
         Sorted(rows), Sorted(old), \A n \in 1..Len(rows) : rows[n] > old[1],
         NEW k \in 1..(Len(rows) + Len(old))
  PROVE  Sorted(SubSeq(rows \o old, 1, k))
  <1> DEFINE s == SubSeq(rows \o old, 1, k)
  <1>1. /\ s \in Seq(Id) /\ Len(s) = k
        /\ \A n \in 1..k : IF n <= Len(rows) THEN s[n] = rows[n]
                           ELSE s[n] = old[n - Len(rows)] /\ n - Len(rows) \in 1..Len(old)
    BY Merged
  <1> HIDE DEF s
  <1>2. Len(rows) \in Nat /\ Len(old) \in Nat /\ k \in Nat
    BY LenProperties
  <1>3. /\ \A n \in 1..Len(rows) : rows[n] \in Nat
        /\ \A n \in 1..Len(old) : old[n] \in Nat
    BY ElementOfSeq, IdFacts
  <1> SUFFICES ASSUME NEW m \in 1..k, NEW n \in 1..k, m < n PROVE s[m] > s[n]
    BY <1>1 DEF Sorted, s
  <1>4. CASE n <= Len(rows)
    <2>1. m \in 1..Len(rows) /\ n \in 1..Len(rows)
      BY <1>2, <1>4
    <2>2. s[m] = rows[m] /\ s[n] = rows[n]
      BY <1>1, <2>1
    <2>3. QED
      BY <2>1, <2>2 DEF Sorted
  <1>5. CASE m <= Len(rows) /\ ~(n <= Len(rows))
    <2>1. m \in 1..Len(rows) /\ 1 \in 1..Len(old)
      BY <1>2, <1>5
    <2> DEFINE b == n - Len(rows)
    <2>2. s[m] = rows[m] /\ s[n] = old[b] /\ b \in 1..Len(old)
      BY <1>1, <1>5
    <2> HIDE DEF b
    <2>3. b = 1 \/ 1 < b
      BY <2>2
    <2>4. 1 < b => old[1] > old[b]
      BY <2>1, <2>2 DEF Sorted
    <2>5. rows[m] > old[1] /\ rows[m] \in Nat /\ old[1] \in Nat /\ old[b] \in Nat
      BY <1>3, <2>1, <2>2
    <2>6. QED
      BY <2>2, <2>3, <2>4, <2>5
  <1>6. CASE ~(m <= Len(rows))
    <2> DEFINE a == m - Len(rows)
               b == n - Len(rows)
    <2>1. ~(n <= Len(rows))
      BY <1>2, <1>6
    <2>2. s[m] = old[a] /\ a \in 1..Len(old) /\ s[n] = old[b] /\ b \in 1..Len(old)
      BY <1>1, <1>6, <2>1
    <2>3. a < b
      BY <1>2
    <2> HIDE DEF a, b
    <2>4. QED
      BY <2>2, <2>3 DEF Sorted
  <1>7. QED
    BY <1>2, <1>4, <1>5, <1>6

(* Nothing is left out of them but what is older than all of them.         *)
LEMMA MergedHas ==
  ASSUME NEW rows \in Seq(Id), NEW old \in Seq(Id), Len(rows) > 0, Len(old) > 0,
         Sorted(rows), Sorted(old), \A n \in 1..Len(rows) : rows[n] > old[1],
         NEW k \in 1..(Len(rows) + Len(old)),
         NEW i \in Nat, SubSeq(rows \o old, 1, k)[k] < i
  PROVE  /\ Has(rows, i) \/ Has(old, i) => Has(SubSeq(rows \o old, 1, k), i)
         /\ old[Len(old)] < i
  <1> DEFINE s == SubSeq(rows \o old, 1, k)
             j == Len(rows) + Len(old)
             all == SubSeq(rows \o old, 1, j)
  <1>1. Len(rows) \in Nat /\ Len(old) \in Nat /\ k \in Nat /\ j \in 1..j
        /\ k \in 1..k /\ k <= j /\ k \in 1..j
    BY LenProperties
  <1>2. /\ s \in Seq(Id) /\ Len(s) = k
        /\ \A n \in 1..k : IF n <= Len(rows) THEN s[n] = rows[n]
                           ELSE s[n] = old[n - Len(rows)] /\ n - Len(rows) \in 1..Len(old)
    BY Merged
  <1>3. /\ all \in Seq(Id) /\ Len(all) = j
        /\ \A n \in 1..j : IF n <= Len(rows) THEN all[n] = rows[n]
                           ELSE all[n] = old[n - Len(rows)] /\ n - Len(rows) \in 1..Len(old)
    BY <1>1, Merged
  <1>4. Sorted(all)
    BY <1>1, MergedIsSorted
  <1>5. s[k] < i
    OBVIOUS
  <1> HIDE DEF s, all
  <1>6. ASSUME NEW n \in 1..k PROVE n \in 1..j /\ s[n] = all[n]
    <2>1. n \in 1..j
      BY <1>1
    <2>2. IF n <= Len(rows) THEN s[n] = rows[n] ELSE s[n] = old[n - Len(rows)]
      BY <1>2
    <2>3. IF n <= Len(rows) THEN all[n] = rows[n] ELSE all[n] = old[n - Len(rows)]
      BY <1>3, <2>1
    <2>4. QED
      BY <2>1, <2>2, <2>3
  <1>7. \A n \in 1..j : all[n] \in Nat
    BY <1>3, ElementOfSeq, IdFacts
  <1>8. ASSUME NEW n \in 1..j, all[n] = i PROVE Has(s, i)
    <2>1. all[k] = s[k] /\ all[k] \in Nat
      BY <1>1, <1>6, <1>7
    <2>2. k < n => all[k] > all[n]
      BY <1>1, <1>3, <1>4 DEF Sorted
    <2>3. ~(k < n)
      BY <1>5, <1>8, <2>1, <2>2
    <2>4. n \in 1..k
      BY <1>1, <2>3
    <2>5. QED
      BY <1>2, <1>6, <1>8, <2>4 DEF Has
  <1>9. ASSUME Has(rows, i) PROVE Has(s, i)
    <2>1. PICK n \in 1..Len(rows) : rows[n] = i
      BY <1>9 DEF Has
    <2>2. n \in 1..j /\ n <= Len(rows)
      BY <1>1
    <2>3. all[n] = i
      BY <1>3, <2>1, <2>2
    <2>4. QED
      BY <1>8, <2>2, <2>3
  <1>10. ASSUME NEW n \in 1..Len(old) PROVE Len(rows) + n \in 1..j /\ all[Len(rows) + n] = old[n]
    <2> DEFINE m == Len(rows) + n
    <2>1. m \in 1..j /\ ~(m <= Len(rows)) /\ m - Len(rows) = n
      BY <1>1
    <2> HIDE DEF m
    <2>2. all[m] = old[n]
      BY <1>3, <2>1
    <2>3. QED
      BY <2>1, <2>2 DEF m
  <1>11. ASSUME Has(old, i) PROVE Has(s, i)
    <2>1. PICK n \in 1..Len(old) : old[n] = i
      BY <1>11 DEF Has
    <2>2. QED
      BY <1>8, <1>10, <2>1
  <1>12. old[Len(old)] < i
    <2>1. Len(old) \in 1..Len(old)
      BY <1>1
    <2>2. all[j] = old[Len(old)]
      BY <1>10, <2>1
    <2>3. k = j \/ k < j
      BY <1>1
    <2>4. k < j => all[k] > all[j]
      BY <1>1, <1>3, <1>4 DEF Sorted
    <2>5. all[k] = s[k] /\ all[k] \in Nat /\ all[j] \in Nat
      BY <1>1, <1>6, <1>7
    <2>6. QED
      BY <1>5, <2>2, <2>3, <2>4, <2>5
  <1>13. QED
    BY <1>9, <1>11, <1>12 DEF s

-----------------------------------------------------------------------------
(* The records of the loads.                                               *)

LEMMA SentFields ==
  ASSUME NEW load \in LoadState, NEW cursor \in Id \cup {NULL}
  PROVE  LET p == Sent(load, cursor)
         IN  /\ p \in LoadState /\ p.phase = "sent" /\ p.on = NULL /\ p.after = cursor
             /\ p.kind = load.kind /\ p.since = load.since
             /\ p.tasksAt = load.tasksAt /\ p.logs = load.logs
  <1> DEFINE f1 == [load EXCEPT !.phase = "sent"]
             f2 == [f1 EXCEPT !.on = NULL]
             f3 == [f2 EXCEPT !.after = cursor]
  <1>1. Sent(load, cursor) = f3
    BY DEF Sent
  <1>2. /\ f1 \in LoadState /\ f1.phase = "sent" /\ f1.kind = load.kind /\ f1.since = load.since
        /\ f1.tasksAt = load.tasksAt /\ f1.logs = load.logs
    BY DEF LoadState
  <1> HIDE DEF f1
  <1>3. /\ f2 \in LoadState /\ f2.phase = "sent" /\ f2.kind = load.kind /\ f2.since = load.since
        /\ f2.tasksAt = load.tasksAt /\ f2.logs = load.logs /\ f2.on = NULL
    BY <1>2 DEF LoadState
  <1> HIDE DEF f2
  <1>4. /\ f3 \in LoadState /\ f3.phase = "sent" /\ f3.kind = load.kind /\ f3.since = load.since
        /\ f3.tasksAt = load.tasksAt /\ f3.logs = load.logs /\ f3.on = NULL
        /\ f3.after = cursor
    BY <1>3 DEF LoadState
  <1> HIDE DEF f3
  <1>5. QED
    BY <1>1, <1>4

LEMMA FreeFields ==
  /\ Free \in LoadState /\ Free.phase = "free" /\ Free.kind = "poll" /\ Free.since = 0
  /\ Free.tasksAt = 0 /\ Free.logs = NULL
  BY DEF Free, LoadState

LEMMA AskedFields ==
  ASSUME nextId \in Nat, NEW kind \in {"poll", "action", "retry"}
  PROVE  LET p == Asked(kind)
         IN  /\ p \in LoadState /\ p.kind = kind /\ p.since = nextId
             /\ p.tasksAt = 0 /\ p.logs = NULL
  <1> DEFINE f0 == Free
             f1 == [f0 EXCEPT !.kind = kind]
             f2 == [f1 EXCEPT !.since = nextId]
  <1>1. Asked(kind) = f2
    BY DEF Asked
  <1>2. f0 \in LoadState /\ f0.tasksAt = 0 /\ f0.logs = NULL
    BY FreeFields
  <1> HIDE DEF f0
  <1>3. f1 \in LoadState /\ f1.tasksAt = 0 /\ f1.logs = NULL /\ f1.kind = kind
    BY <1>2 DEF LoadState
  <1> HIDE DEF f1
  <1>4. f2 \in LoadState /\ f2.tasksAt = 0 /\ f2.logs = NULL /\ f2.kind = kind /\ f2.since = nextId
    BY <1>3 DEF LoadState
  <1> HIDE DEF f2
  <1>5. QED
    BY <1>1, <1>4

LEMMA WaitingFields ==
  ASSUME nextId \in Nat, NEW kind \in {"poll", "action", "retry"}, activeLoad \in Slot
  PROVE  LET p == [Asked(kind) EXCEPT !.phase = "waiting", !.on = activeLoad]
         IN  /\ p \in LoadState /\ p.phase = "waiting" /\ p.on = activeLoad
             /\ p.kind = kind /\ p.since = nextId /\ p.tasksAt = 0 /\ p.logs = NULL
  <1> DEFINE f0 == Asked(kind)
             f1 == [f0 EXCEPT !.phase = "waiting"]
             f2 == [f1 EXCEPT !.on = activeLoad]
  <1>1. [Asked(kind) EXCEPT !.phase = "waiting", !.on = activeLoad] = f2
    OBVIOUS
  <1>2. /\ f0 \in LoadState /\ f0.kind = kind /\ f0.since = nextId
        /\ f0.tasksAt = 0 /\ f0.logs = NULL
    BY AskedFields
  <1> HIDE DEF f0
  <1>3. /\ f1 \in LoadState /\ f1.kind = kind /\ f1.since = nextId
        /\ f1.tasksAt = 0 /\ f1.logs = NULL /\ f1.phase = "waiting"
    BY <1>2 DEF LoadState
  <1> HIDE DEF f1
  <1>4. /\ f2 \in LoadState /\ f2.kind = kind /\ f2.since = nextId
        /\ f2.tasksAt = 0 /\ f2.logs = NULL /\ f2.phase = "waiting" /\ f2.on = activeLoad
    BY <1>3 DEF LoadState
  <1> HIDE DEF f2
  <1>5. QED
    BY <1>1, <1>4

(* A load that has read nothing is sound.                                  *)
LEMMA UnreadSound ==
  ASSUME nextId \in Nat, NEW load \in LoadState,
         load.since <= nextId, load.tasksAt = 0, load.logs = NULL
  PROVE  LoadSound(load)
  BY DEF LoadSound

-----------------------------------------------------------------------------
(* What the server does to what was read.                                  *)

(* Rows get ids that are higher than all before.                           *)
Grows ==
  /\ nextId' \in Nat /\ nextId <= nextId'
  /\ table' \subseteq table \cup {nextId}
  /\ \A i \in table' : i < nextId'
  /\ skipped \subseteq skipped'

LEMMA Unchanging ==
  ASSUME FeedInv, UNCHANGED server, skipped \subseteq skipped'
  PROVE  Grows
  BY IdFacts DEF FeedInv, TypeOK, Grows, server

LEMMA SoundStays ==
  ASSUME FeedInv, Grows, NEW load \in LoadState, LoadSound(load)
  PROVE  LoadSound(load)'
  <1>1. nextId \in Nat /\ nextId' \in Nat /\ nextId <= nextId'
    BY IdFacts DEF FeedInv, TypeOK, Grows
  <1>2. load.since <= nextId' /\ load.tasksAt <= nextId'
    BY <1>1 DEF LoadSound, LoadState
  <1>3. CASE load.logs = NULL
    BY <1>2, <1>3 DEF LoadSound
  <1>4. CASE load.logs # NULL
    <2>1. load.logs \in Seq(Id)
      BY <1>4 DEF LoadState
    <2>2. Len(load.logs) \in Nat /\ \A n \in 1..Len(load.logs) : load.logs[n] \in Nat
      BY <2>1, LenProperties, ElementOfSeq, IdFacts
    <2>3. \A n \in 1..Len(load.logs) : load.logs[n] < nextId'
      BY <1>1, <1>4, <2>2 DEF LoadSound
    <2>4. AnswerTells(load)'
      <3> SUFFICES ASSUME load.logs # <<>>, NEW i \in table', i < load.logs[1],
                          load.after # NULL => i > load.after
                   PROVE  Has(load.logs, i) \/ i \in skipped'
        BY DEF AnswerTells
      <3>1. Len(load.logs) \in Nat \ {0}
        BY <2>1, EmptySeq
      <3>2. 1 \in 1..Len(load.logs)
        BY <3>1
      <3>3. load.logs[1] < nextId /\ load.logs[1] \in Nat
        BY <1>4, <2>2, <3>2 DEF LoadSound
      <3>4. i \in table
        <4>1. i \in table \/ i = nextId
          BY DEF Grows
        <4>2. i # nextId
          BY <1>1, <3>3
        <4>3. QED
          BY <4>1, <4>2
      <3>5. Has(load.logs, i) \/ i \in skipped
        BY <1>4, <3>4 DEF LoadSound, AnswerTells
      <3>6. QED
        BY <3>5 DEF Grows
    <2>5. QED
      BY <1>2, <1>4, <2>3, <2>4 DEF LoadSound
  <1>5. QED
    BY <1>3, <1>4

LEMMA NoGapStays ==
  ASSUME FeedInv, NoGap, Grows, items' = items
  PROVE  NoGap'
  <1> SUFFICES ASSUME items # <<>>, NEW i \in table', items[Len(items)] < i, i < items[1]
               PROVE  Has(items, i) \/ i \in skipped'
    BY DEF NoGap
  <1>1. items \in Seq(Id) /\ nextId \in Nat
    BY IdFacts DEF FeedInv, TypeOK
  <1>2. Len(items) \in Nat \ {0}
    BY <1>1, EmptySeq
  <1>3. 1 \in 1..Len(items)
    BY <1>2
  <1>4. items[1] < nextId /\ items[1] \in Nat
    BY <1>1, <1>3, ElementOfSeq, IdFacts DEF FeedInv
  <1>5. i \in table \/ i = nextId
    BY DEF Grows
  <1>6. i \in table
    BY <1>1, <1>4, <1>5
  <1>7. Has(items, i) \/ i \in skipped
    BY <1>6 DEF NoGap
  <1>8. QED
    BY <1>7 DEF Grows

-----------------------------------------------------------------------------
(* The steps that start no load and end none.                              *)

LEMMA OneAtATimeStays ==
  ASSUME OneAtATime, activeLoad' = activeLoad,
         \A m \in Slot : /\ loads'[m].phase = loads[m].phase /\ loads'[m].on = loads[m].on
                         /\ loads'[m].kind = loads[m].kind,
         activeLoad \in Slot \cup {NULL},
         reset' # NULL => \A m \in Slot : ~Acts(m)
  PROVE  OneAtATime'
  <1>1. \A m \in Slot : Acts(m)' <=> Acts(m)
    BY DEF Acts
  <1>2. \A l, m \in Slot : Acts(l)' /\ Acts(m)' => l = m
    BY <1>1 DEF OneAtATime
  <1>3. reset' # NULL => \A m \in Slot : ~Acts(m)'
    BY <1>1
  <1>4. /\ activeLoad' = NULL => \A l \in Slot : loads'[l].phase = "free"
        /\ \A l \in Slot : loads'[l].phase = "sent" => l = activeLoad'
        /\ \A l \in Slot : loads'[l].phase = "waiting" =>
                             loads'[l].on = activeLoad' /\ loads'[l].kind = "action"
    BY DEF OneAtATime
  <1>5. activeLoad' # NULL => loads'[activeLoad'].phase = "sent"
    BY DEF OneAtATime
  <1>6. QED
    BY <1>2, <1>3, <1>4, <1>5 DEF OneAtATime

(* The server and the tab's reset.                                         *)
LEMMA ServerStep ==
  ASSUME FeedInv, Grows, nextId' \in 1..(MaxId + 1), table' \subseteq Id,
         reset' \in {NULL, 0} \cup Id, fails' \in 0..MaxFail,
         reset' # NULL => reset # NULL \/ \A m \in Slot : ~Acts(m),
         UNCHANGED <<logState, shownAt, activeLoad, loads, noTasks, retryShown, history, retries>>
  PROVE  FeedInv'
  <1> USE DEF logState, history
  <1>1. TypeOK'
    BY DEF FeedInv, TypeOK
  <1>2. CursorShown'
    BY DEF FeedInv, CursorShown
  <1>3. shownAt \in Nat /\ nextId \in Nat /\ nextId' \in Nat /\ nextId <= nextId' /\ shownAt <= nextId
    BY IdFacts DEF FeedInv, TypeOK, Grows
  <1>4. shownAt' <= nextId'
    BY <1>3
  <1>5. \A n \in 1..Len(items) : items[n] \in Nat
    BY ElementOfSeq, IdFacts DEF FeedInv, TypeOK
  <1>6. \A n \in 1..Len(items) : items[n] < nextId'
    BY <1>3, <1>5 DEF FeedInv
  <1>7. ASSUME NEW m \in Slot PROVE LoadSound(loads[m])'
    <2>1. PICK load : load = loads[m]
      OBVIOUS
    <2>2. load \in LoadState /\ LoadSound(load)
      BY <2>1 DEF FeedInv, TypeOK
    <2>3. LoadSound(load)'
      BY <2>2, SoundStays
    <2>4. load = loads'[m]
      BY <2>1
    <2>5. QED
      BY <2>3, <2>4
  <1>8. ASSUME retries' = 0 PROVE Serial'
    <2>1. Serial
      BY <1>8 DEF FeedInv
    <2>2. reset' # NULL => \A m \in Slot : ~Acts(m)
      BY <2>1 DEF Serial, OneAtATime
    <2>3. OneAtATime'
      BY <2>1, <2>2, OneAtATimeStays DEF Serial, FeedInv, TypeOK
    <2>4. NoGap'
      BY <2>1, NoGapStays DEF Serial
    <2>5. Sorted(items)'
      BY <2>1 DEF Serial
    <2>6. \A m \in Slot : UpToDate(loads[m])'
      BY <2>1 DEF Serial, UpToDate
    <2>7. QED
      BY <2>3, <2>4, <2>5, <2>6 DEF Serial
  <1>9. QED
    BY <1>1, <1>2, <1>4, <1>6, <1>7, <1>8 DEF FeedInv, Grows

(* An answer, or no answer, to one of the two requests of a load.          *)
LEMMA ReadStep ==
  ASSUME FeedInv, NEW l \in Slot, NEW load \in LoadState,
         loads[l].phase = "sent", load.phase = "sent",
         load.on = loads[l].on, load.kind = loads[l].kind, load.after = loads[l].after,
         load.tasksAt # 0 => load.tasksAt = loads[l].tasksAt \/ load.tasksAt = nextId,
         loads' = [loads EXCEPT ![l] = load], LoadSound(load)',
         skipped \subseteq skipped', skipped' \subseteq Id, fails' \in 0..MaxFail,
         UNCHANGED <<server, logState, shownAt, activeLoad, noTasks, retryShown, reset,
                     forgotten, retries>>
  PROVE  FeedInv'
  <1> USE DEF server, logState
  <1>1. loads \in [Slot -> LoadState]
    BY DEF FeedInv, TypeOK
  <1>2. loads'[l] = load /\ \A m \in Slot : m # l => loads'[m] = loads[m]
    BY <1>1
  <1>3. TypeOK'
    <2>1. loads' \in [Slot -> LoadState]
      BY <1>1
    <2>2. QED
      BY <2>1 DEF FeedInv, TypeOK
  <1>4. Grows
    BY Unchanging
  <1>5. ASSUME NEW m \in Slot PROVE LoadSound(loads[m])'
    <2>1. CASE m = l
      BY <1>2, <2>1
    <2>2. CASE m # l
      <3>1. PICK q : q = loads[m]
        OBVIOUS
      <3>2. q \in LoadState /\ LoadSound(q)
        BY <3>1 DEF FeedInv, TypeOK
      <3>3. LoadSound(q)'
        BY <1>4, <3>2, SoundStays
      <3>4. q = loads'[m]
        BY <1>2, <2>2, <3>1
      <3>5. QED
        BY <3>3, <3>4
    <2>3. QED
      BY <2>1, <2>2
  <1>6. ASSUME retries' = 0 PROVE Serial'
    <2>1. Serial
      BY <1>6 DEF FeedInv
    <2>2. \A m \in Slot : /\ loads'[m].phase = loads[m].phase /\ loads'[m].on = loads[m].on
                          /\ loads'[m].kind = loads[m].kind
      BY <1>2
    <2>3. OneAtATime'
      <3>1. reset' # NULL => \A m \in Slot : ~Acts(m)
        BY <2>1 DEF Serial, OneAtATime
      <3>2. QED
        BY <2>1, <2>2, <3>1, OneAtATimeStays DEF Serial, FeedInv, TypeOK
    <2>4. NoGap'
      BY <1>4, <2>1, NoGapStays DEF Serial
    <2>5. Sorted(items)'
      BY <2>1 DEF Serial
    <2>6. ASSUME NEW m \in Slot PROVE UpToDate(loads[m])'
      <3>1. CASE m # l
        BY <1>2, <2>1, <3>1 DEF Serial, UpToDate
      <3>2. CASE m = l
        <4>1. UpToDate(loads[l])
          BY <2>1 DEF Serial
        <4>2. shownAt <= nextId /\ shownAt \in Nat /\ nextId \in Nat
          BY IdFacts DEF FeedInv, TypeOK
        <4>3. load.tasksAt # 0 => load.tasksAt >= shownAt
          BY <4>1, <4>2 DEF UpToDate
        <4>4. load.after = lastId \/ lastId = NULL
          BY <4>1 DEF UpToDate
        <4>5. QED
          BY <1>2, <3>2, <4>3, <4>4 DEF UpToDate
      <3>3. QED
        BY <3>1, <3>2
    <2>7. QED
      BY <2>3, <2>4, <2>5, <2>6 DEF Serial
  <1>7. QED
    BY <1>3, <1>5, <1>6 DEF FeedInv, CursorShown

LEMMA ElsewhereSafe ==
  ASSUME FeedInv, Elsewhere PROVE FeedInv'
  <1>1. nextId \in Nat \ {0} /\ nextId <= MaxId /\ nextId' = nextId + 1 /\ nextId \in Id
    BY IdFacts DEF Elsewhere, WriteRow, WipeTable, FeedInv, TypeOK, Id
  <1>2. table' = table \cup {nextId} \/ table' = {nextId}
    BY DEF Elsewhere, WriteRow, WipeTable
  <1>3. \A i \in table : i < nextId /\ i \in Id /\ i \in Nat
    BY IdFacts DEF FeedInv, TypeOK
  <1>4. nextId' \in 1..(MaxId + 1) /\ table' \subseteq Id
    BY <1>1, <1>2, <1>3, IdFacts
  <1>5. \A i \in table' : i < nextId'
    BY <1>1, <1>2, <1>3
  <1>6. Grows
    BY <1>1, <1>2, <1>5 DEF Grows, Elsewhere, history
  <1>7. reset' \in {NULL, 0} \cup Id /\ fails' \in 0..MaxFail
    BY DEF Elsewhere, FeedInv, TypeOK
  <1>8. QED
    BY <1>4, <1>6, <1>7, ServerStep DEF Elsewhere

LEMMA ResetStepsSafe ==
  ASSUME FeedInv, ResetClick \/ ResetCommits \/ ResetFails PROVE FeedInv'
  <1>1. reset \in {NULL, 0} \cup Id /\ fails \in 0..MaxFail /\ MaxFail \in Nat
        /\ table \subseteq Id /\ nextId \in 1..(MaxId + 1)
    BY IdFacts DEF FeedInv, TypeOK
  <1>2. CASE ResetClick
    <2>1. Grows
      BY <1>2, Unchanging DEF ResetClick, history
    <2>2. reset' \in {NULL, 0} \cup Id /\ \A m \in Slot : ~Acts(m)
      BY <1>2 DEF ResetClick, Busy, Acts
    <2>3. QED
      BY <1>1, <1>2, <2>1, <2>2, ServerStep DEF ResetClick, server
  <1>3. CASE ResetFails
    <2>1. Grows
      BY <1>3, Unchanging DEF ResetFails, history
    <2>2. reset' = NULL /\ fails' \in 0..MaxFail
      BY <1>1, <1>3 DEF ResetFails
    <2>3. QED
      BY <1>1, <1>3, <2>1, <2>2, ServerStep DEF ResetFails, server
  <1>4. CASE ResetCommits
    <2>1. nextId \in Nat \ {0} /\ nextId <= MaxId /\ nextId' = nextId + 1 /\ nextId \in Id
      BY <1>4, IdFacts DEF ResetCommits, WipeTable, FeedInv, TypeOK, Id
    <2>2. table' = {nextId} /\ reset' = nextId /\ reset = 0
      BY <1>4 DEF ResetCommits, WipeTable
    <2>3. nextId' \in 1..(MaxId + 1) /\ table' \subseteq Id /\ reset' \in {NULL, 0} \cup Id
      BY <2>1, <2>2, IdFacts
    <2>4. Grows
      BY <1>4, <2>1, <2>2 DEF Grows, ResetCommits, history
    <2>5. reset # NULL
      BY <2>2, IdFacts
    <2>6. QED
      BY <1>1, <1>4, <2>3, <2>4, <2>5, ServerStep DEF ResetCommits
  <1>5. QED
    BY <1>2, <1>3, <1>4

LEMMA ReadTasksSafe ==
  ASSUME FeedInv, NEW l \in Slot, ReadTasks(l) PROVE FeedInv'
  <1>1. PICK load : load = [loads[l] EXCEPT !.tasksAt = nextId]
    OBVIOUS
  <1>2. /\ loads[l] \in LoadState /\ LoadSound(loads[l]) /\ nextId \in Nat
        /\ fails \in 0..MaxFail /\ skipped \subseteq Id
    BY IdFacts DEF FeedInv, TypeOK
  <1>3. /\ load \in LoadState /\ load.phase = loads[l].phase /\ load.on = loads[l].on
        /\ load.kind = loads[l].kind /\ load.since = loads[l].since
        /\ load.after = loads[l].after /\ load.tasksAt = nextId /\ load.logs = loads[l].logs
    BY <1>1, <1>2 DEF LoadState
  <1>4. loads' = [loads EXCEPT ![l] = load] /\ loads[l].phase = "sent"
    BY <1>1 DEF ReadTasks
  <1>5. LoadSound(load)
    <2>1. load.since <= nextId /\ load.since \in Nat
      BY <1>2, <1>3 DEF LoadSound, LoadState
    <2>2. AnswerTells(load) <=> AnswerTells(loads[l])
      BY <1>3 DEF AnswerTells
    <2>3. QED
      BY <1>2, <1>3, <1>4, <2>1, <2>2 DEF LoadSound
  <1>6. LoadSound(load)'
    <2>1. Grows
      BY Unchanging DEF ReadTasks, history
    <2>2. QED
      BY <1>3, <1>5, <2>1, SoundStays
  <1>7. QED
    BY <1>2, <1>3, <1>4, <1>6, ReadStep DEF ReadTasks, history

LEMMA LogsFailSafe ==
  ASSUME FeedInv, NEW l \in Slot, LogsFail(l) PROVE FeedInv'
  <1>1. PICK load : load = [loads[l] EXCEPT !.logs = <<>>]
    OBVIOUS
  <1>2. /\ loads[l] \in LoadState /\ LoadSound(loads[l]) /\ skipped \subseteq Id
    BY DEF FeedInv, TypeOK
  <1>3. /\ load \in LoadState /\ load.phase = loads[l].phase /\ load.on = loads[l].on
        /\ load.kind = loads[l].kind /\ load.since = loads[l].since
        /\ load.after = loads[l].after /\ load.tasksAt = loads[l].tasksAt /\ load.logs = <<>>
    <2>1. <<>> \in Seq(Id)
      BY EmptySeq
    <2>2. QED
      BY <1>1, <1>2, <2>1 DEF LoadState
  <1>4. loads' = [loads EXCEPT ![l] = load] /\ loads[l].phase = "sent"
    BY <1>1 DEF LogsFail
  <1>5. LoadSound(load)
    <2>1. Len(<<>>) = 0 /\ 1..0 = {} /\ 0 <= MaxRows
      BY IdFacts
    <2>2. AnswerTells(load)
      BY <1>3 DEF AnswerTells
    <2>3. Sorted(<<>>)
      BY <2>1 DEF Sorted
    <2>4. QED
      BY <1>2, <1>3, <1>4, <2>1, <2>2, <2>3 DEF LoadSound
  <1>6. LoadSound(load)'
    <2>1. Grows
      BY Unchanging DEF LogsFail, history
    <2>2. QED
      BY <1>3, <1>5, <2>1, SoundStays
  <1>7. fails' \in 0..MaxFail
    BY IdFacts DEF LogsFail, FeedInv, TypeOK
  <1>8. QED
    BY <1>2, <1>3, <1>4, <1>6, <1>7, ReadStep DEF LogsFail, history

LEMMA ReadLogsSafe ==
  ASSUME FeedInv, NEW l \in Slot, ReadLogs(l) PROVE FeedInv'
  <1>1. PICK load, cursor, s :
             cursor = loads[l].after /\ s = Answer(cursor)
             /\ load = [loads[l] EXCEPT !.logs = s]
    OBVIOUS
  <1>2. /\ loads[l] \in LoadState /\ LoadSound(loads[l]) /\ TypeOK /\ fails \in 0..MaxFail
        /\ cursor \in Id \cup {NULL} /\ skipped \subseteq Id
    BY <1>1 DEF FeedInv, TypeOK, LoadState
  <1>3. /\ s \in Seq(Id) /\ Len(s) <= MaxRows /\ Sorted(s)
        /\ \A n \in 1..Len(s) : s[n] \in RowsAfter(cursor)
        /\ \A i \in RowsAfter(cursor) :
             Has(s, i) \/ i \notin Newest(RowLimit(cursor), RowsAfter(cursor))
    BY <1>1, <1>2, AnswerTellsAll
  <1>4. /\ load \in LoadState /\ load.phase = loads[l].phase /\ load.on = loads[l].on
        /\ load.kind = loads[l].kind /\ load.since = loads[l].since
        /\ load.after = cursor /\ load.tasksAt = loads[l].tasksAt /\ load.logs = s
    BY <1>1, <1>2, <1>3 DEF LoadState
  <1>5. /\ loads' = [loads EXCEPT ![l] = load] /\ loads[l].phase = "sent"
        /\ skipped' = skipped \cup (RowsAfter(cursor) \ Newest(RowLimit(cursor), RowsAfter(cursor)))
        /\ UNCHANGED <<server, logState, shownAt, activeLoad, noTasks, retryShown, reset,
                       forgotten, fails, retries>>
    BY <1>1 DEF ReadLogs
  <1>6. RowsAfter(cursor) \subseteq table /\ table \subseteq Id
    BY <1>2 DEF RowsAfter, TypeOK
  <1>7. skipped \subseteq skipped' /\ skipped' \subseteq Id
    BY <1>2, <1>5, <1>6
  <1>8. LoadSound(load)'
    <2>1. nextId' = nextId /\ table' = table /\ nextId \in Nat
      BY <1>2, <1>5, IdFacts DEF server, TypeOK
    <2>2. load.since <= nextId' /\ load.tasksAt <= nextId'
      BY <1>2, <1>4, <2>1 DEF LoadSound
    <2>3. load.tasksAt # 0 => load.tasksAt >= load.since
      BY <1>2, <1>4 DEF LoadSound
    <2>4. ASSUME NEW n \in 1..Len(s)
          PROVE  s[n] < nextId' /\ (cursor # NULL => s[n] > cursor)
      <3>1. s[n] \in table /\ (cursor # NULL => s[n] > cursor)
        BY <1>3 DEF RowsAfter
      <3>2. s[n] < nextId
        BY <3>1 DEF FeedInv
      <3>3. QED
        BY <2>1, <3>1, <3>2
    <2>5. AnswerTells(load)'
      <3> SUFFICES ASSUME NEW i \in table', load.after # NULL => i > load.after
                   PROVE  Has(load.logs, i) \/ i \in skipped'
        BY DEF AnswerTells
      <3>1. i \in RowsAfter(cursor)
        BY <1>4, <2>1 DEF RowsAfter
      <3>2. QED
        BY <1>3, <1>4, <1>5, <3>1
    <2>6. QED
      BY <1>3, <1>4, <1>5, <2>2, <2>3, <2>4, <2>5 DEF LoadSound
  <1>9. QED
    BY <1>1, <1>2, <1>4, <1>5, <1>7, <1>8, ReadStep

-----------------------------------------------------------------------------
(* A load starts, or waits for the one under way.                          *)

LEMMA ForceLoadSound ==
  ASSUME FeedInv, NEW l \in Slot, NEW kind \in {"poll", "action", "retry"},
         NEW cursor \in Id \cup {NULL}, ForceLoad(l, kind, cursor),
         UNCHANGED <<server, skipped>>
  PROVE  /\ loads' \in [Slot -> LoadState] /\ activeLoad' \in Slot \cup {NULL}
         /\ \A m \in Slot : LoadSound(loads[m])'
         /\ loads'[l].kind = kind /\ \A m \in Slot : m # l => loads'[m] = loads[m]
         /\ \/ /\ activeLoad = NULL /\ activeLoad' = l
               /\ loads'[l].phase = "sent" /\ loads'[l].after = cursor /\ loads'[l].tasksAt = 0
            \/ /\ activeLoad # NULL /\ activeLoad' = activeLoad
               /\ loads[l].phase = "free"
               /\ loads'[l].phase = "waiting" /\ loads'[l].on = activeLoad
  <1>1. /\ loads \in [Slot -> LoadState] /\ activeLoad \in Slot \cup {NULL} /\ nextId \in Nat
        /\ nextId' = nextId
    BY IdFacts DEF FeedInv, TypeOK, server
  <1>2. \E load \in LoadState :
          /\ loads' = [loads EXCEPT ![l] = load]
          /\ load.kind = kind /\ load.since = nextId /\ load.tasksAt = 0 /\ load.logs = NULL
          /\ \/ activeLoad = NULL /\ activeLoad' = l /\ load.phase = "sent" /\ load.after = cursor
             \/ /\ activeLoad # NULL /\ activeLoad' = activeLoad
                /\ loads[l].phase = "free" /\ load.phase = "waiting" /\ load.on = activeLoad
    <2>1. CASE activeLoad = NULL /\ StartLoad(l, kind, cursor)
      <3> DEFINE p == Asked(kind)
                 load == Sent(p, cursor)
      <3>1. /\ p \in LoadState /\ p.kind = kind /\ p.since = nextId
            /\ p.tasksAt = 0 /\ p.logs = NULL
        BY <1>1, AskedFields
      <3>2. loads' = [loads EXCEPT ![l] = load] /\ activeLoad' = l
        BY <2>1 DEF StartLoad
      <3> HIDE DEF p
      <3>3. /\ load \in LoadState /\ load.phase = "sent" /\ load.after = cursor
            /\ load.kind = kind /\ load.since = nextId
            /\ load.tasksAt = 0 /\ load.logs = NULL
        BY <3>1, SentFields
      <3> HIDE DEF load
      <3>4. QED
        BY <2>1, <3>2, <3>3
    <2>2. CASE ~(activeLoad = NULL /\ StartLoad(l, kind, cursor))
      <3> DEFINE load == [Asked(kind) EXCEPT !.phase = "waiting", !.on = activeLoad]
      <3>1. /\ loads' = [loads EXCEPT ![l] = load] /\ activeLoad' = activeLoad
            /\ activeLoad # NULL /\ loads[l].phase = "free"
        BY <2>2 DEF ForceLoad
      <3>2. /\ load \in LoadState /\ load.phase = "waiting" /\ load.on = activeLoad
            /\ load.kind = kind /\ load.since = nextId
            /\ load.tasksAt = 0 /\ load.logs = NULL
        BY <1>1, <3>1, WaitingFields
      <3> HIDE DEF load
      <3>3. QED
        BY <3>1, <3>2
    <2>3. QED
      BY <2>1, <2>2
  <1>3. PICK load \in LoadState :
          /\ loads' = [loads EXCEPT ![l] = load]
          /\ load.kind = kind /\ load.since = nextId /\ load.tasksAt = 0 /\ load.logs = NULL
          /\ \/ activeLoad = NULL /\ activeLoad' = l /\ load.phase = "sent" /\ load.after = cursor
             \/ /\ activeLoad # NULL /\ activeLoad' = activeLoad
                /\ loads[l].phase = "free" /\ load.phase = "waiting" /\ load.on = activeLoad
    BY <1>2
  <1>4. loads'[l] = load /\ \A m \in Slot : m # l => loads'[m] = loads[m]
    BY <1>1, <1>3
  <1>5. loads' \in [Slot -> LoadState] /\ activeLoad' \in Slot \cup {NULL}
    BY <1>1, <1>3
  <1>6. ASSUME NEW m \in Slot PROVE LoadSound(loads[m])'
    <2>1. Grows
      BY Unchanging
    <2>2. PICK q : q = loads'[m]
      OBVIOUS
    <2>3. q \in LoadState /\ LoadSound(q)
      <3>1. CASE m = l
        <4>1. load.since <= nextId
          BY <1>1, <1>3
        <4>2. LoadSound(load)
          BY <1>1, <1>3, <4>1, UnreadSound
        <4>3. QED
          BY <1>4, <2>2, <3>1, <4>2
      <3>2. CASE m # l
        BY <1>4, <2>2, <3>2 DEF FeedInv, TypeOK
      <3>3. QED
        BY <3>1, <3>2
    <2>4. LoadSound(q)'
      BY <2>1, <2>3, SoundStays
    <2>5. QED
      BY <2>2, <2>4
  <1>7. QED
    BY <1>3, <1>4, <1>5, <1>6

LEMMA ForceLoadSerial ==
  ASSUME FeedInv, Serial, NEW l \in Slot, NEW kind \in {"poll", "action", "retry"},
         NEW cursor \in Id \cup {NULL}, ForceLoad(l, kind, cursor),
         UNCHANGED <<server, skipped>>,
         kind = "action" \/ activeLoad = NULL,
         \A m \in Slot : ~Acts(m),
         reset' = NULL \/ kind # "action",
         lastId' \in {lastId, NULL}, cursor = lastId', shownAt' = shownAt
  PROVE  OneAtATime' /\ \A m \in Slot : UpToDate(loads[m])'
  <1>1. /\ loads'[l].kind = kind /\ \A m \in Slot : m # l => loads'[m] = loads[m]
        /\ activeLoad' \in Slot \cup {NULL}
        /\ \/ /\ activeLoad = NULL /\ activeLoad' = l
              /\ loads'[l].phase = "sent" /\ loads'[l].after = cursor /\ loads'[l].tasksAt = 0
           \/ /\ activeLoad # NULL /\ activeLoad' = activeLoad
              /\ loads[l].phase = "free"
              /\ loads'[l].phase = "waiting" /\ loads'[l].on = activeLoad
    BY ForceLoadSound
  <1>2. OneAtATime
    BY DEF Serial
  <1>3. activeLoad \in Slot \cup {NULL} /\ l # NULL /\ NULL \notin Slot
    BY IdFacts DEF FeedInv, TypeOK
  <1>4. \A m \in Slot : Acts(m)' => m = l /\ kind = "action"
    BY <1>1 DEF Acts
  <1>5. \A m, n \in Slot : Acts(m)' /\ Acts(n)' => m = n
    BY <1>4
  <1>6. reset' # NULL => \A m \in Slot : ~Acts(m)'
    BY <1>4
  <1>7. CASE activeLoad = NULL
    <2>1. /\ activeLoad' = l /\ loads'[l].phase = "sent" /\ loads'[l].after = cursor
          /\ loads'[l].tasksAt = 0
      BY <1>1, <1>7
    <2>2. \A m \in Slot : m # l => loads'[m].phase = "free"
      BY <1>1, <1>2, <1>7 DEF OneAtATime
    <2>3. OneAtATime'
      BY <1>3, <1>5, <1>6, <2>1, <2>2 DEF OneAtATime
    <2>4. \A m \in Slot : UpToDate(loads[m])'
      BY <2>1, <2>2 DEF UpToDate
    <2>5. QED
      BY <2>3, <2>4
  <1>8. CASE activeLoad # NULL
    <2>1. /\ activeLoad' = activeLoad /\ loads[l].phase = "free"
          /\ loads'[l].phase = "waiting" /\ loads'[l].on = activeLoad /\ kind = "action"
      BY <1>1, <1>8
    <2>2. loads[activeLoad].phase = "sent" /\ activeLoad # l /\ activeLoad \in Slot
      BY <1>2, <1>3, <1>8, <2>1 DEF OneAtATime
    <2>3. loads'[activeLoad'].phase = "sent"
      BY <1>1, <2>1, <2>2
    <2>4. /\ \A m \in Slot : loads'[m].phase = "sent" => m = activeLoad'
          /\ \A m \in Slot : loads'[m].phase = "waiting" =>
                               loads'[m].on = activeLoad' /\ loads'[m].kind = "action"
      BY <1>1, <1>2, <2>1 DEF OneAtATime
    <2>5. OneAtATime'
      BY <1>5, <1>6, <1>8, <2>1, <2>3, <2>4 DEF OneAtATime
    <2>6. ASSUME NEW m \in Slot PROVE UpToDate(loads[m])'
      <3>1. CASE m = l
        BY <2>1, <3>1 DEF UpToDate
      <3>2. CASE m # l
        <4>1. UpToDate(loads[m]) /\ loads'[m] = loads[m]
          BY <1>1, <3>2 DEF Serial
        <4>2. QED
          BY <4>1 DEF UpToDate
      <3>3. QED
        BY <3>1, <3>2
    <2>7. QED
      BY <2>5, <2>6
  <1>9. QED
    BY <1>7, <1>8

LEMMA PollSafe ==
  ASSUME FeedInv, Poll PROVE FeedInv'
  <1>1. PICK l \in Slot : StartLoad(l, "poll", lastId)
    BY DEF Poll
  <1>2. activeLoad = NULL /\ ForceLoad(l, "poll", lastId)
    BY <1>1 DEF Poll, ForceLoad
  <1>3. PICK cursor : cursor = lastId
    OBVIOUS
  <1>4. /\ cursor \in Id \cup {NULL} /\ ForceLoad(l, "poll", cursor) /\ "poll" \in {"poll", "action", "retry"}
    BY <1>2, <1>3 DEF FeedInv, TypeOK
  <1>5. /\ UNCHANGED <<server, logState, shownAt, noTasks, retryShown, reset, history, fails, retries>>
        /\ UNCHANGED <<server, skipped>>
    BY DEF Poll, history
  <1>6. /\ loads' \in [Slot -> LoadState] /\ activeLoad' \in Slot \cup {NULL}
        /\ \A m \in Slot : LoadSound(loads[m])'
    BY <1>4, <1>5, ForceLoadSound
  <1>7. ASSUME retries' = 0 PROVE Serial'
    <2>1. Serial
      BY <1>5, <1>7 DEF FeedInv
    <2>2. \A m \in Slot : ~Acts(m)
      BY <1>2, <2>1 DEF Serial, OneAtATime, Acts
    <2>3. OneAtATime' /\ \A m \in Slot : UpToDate(loads[m])'
      BY <1>2, <1>3, <1>4, <1>5, <2>1, <2>2, ForceLoadSerial DEF logState
    <2>4. NoGap'
      BY <1>5, <2>1, Unchanging, NoGapStays DEF logState, Serial
    <2>5. Sorted(items)'
      BY <1>5, <2>1 DEF logState, Serial
    <2>6. QED
      BY <2>3, <2>4, <2>5 DEF Serial
  <1>8. TypeOK'
    BY <1>5, <1>6 DEF FeedInv, TypeOK, server, logState, history
  <1>9. QED
    BY <1>5, <1>6, <1>7, <1>8 DEF FeedInv, CursorShown, server, logState

LEMMA RetrySafe ==
  ASSUME FeedInv, Retry PROVE FeedInv'
  <1>1. PICK l \in Slot : ForceLoad(l, "retry", lastId)
    BY DEF Retry
  <1>2. PICK cursor : cursor = lastId
    OBVIOUS
  <1>3. cursor \in Id \cup {NULL} /\ ForceLoad(l, "retry", cursor) /\ "retry" \in {"poll", "action", "retry"}
    BY <1>1, <1>2 DEF FeedInv, TypeOK
  <1>4. /\ UNCHANGED <<server, logState, shownAt, noTasks, retryShown, reset, history, fails>>
        /\ UNCHANGED <<server, skipped>>
    BY DEF Retry, history
  <1>5. /\ loads' \in [Slot -> LoadState] /\ activeLoad' \in Slot \cup {NULL}
        /\ \A m \in Slot : LoadSound(loads[m])'
    BY <1>3, <1>4, ForceLoadSound
  <1>6. retries' \in 0..MaxRetry /\ retries' # 0
    BY IdFacts DEF Retry, FeedInv, TypeOK
  <1>7. TypeOK'
    BY <1>4, <1>5, <1>6 DEF FeedInv, TypeOK, server, logState, history
  <1>8. QED
    BY <1>4, <1>5, <1>6, <1>7 DEF FeedInv, CursorShown, server, logState

LEMMA ActionAnsweredSafe ==
  ASSUME FeedInv, ActionAnswered PROVE FeedInv'
  <1>1. PICK l \in Slot : ForceLoad(l, "action", lastId)
    BY DEF ActionAnswered
  <1>2. PICK cursor : cursor = lastId
    OBVIOUS
  <1>3. cursor \in Id \cup {NULL} /\ ForceLoad(l, "action", cursor) /\ "action" \in {"poll", "action", "retry"}
    BY <1>1, <1>2 DEF FeedInv, TypeOK
  <1>4. /\ UNCHANGED <<server, logState, shownAt, noTasks, retryShown, reset, history, fails, retries>>
        /\ UNCHANGED <<server, skipped>>
        /\ reset = NULL /\ \A m \in Slot : ~Acts(m)
    BY DEF ActionAnswered, history, Busy, Acts
  <1>5. /\ loads' \in [Slot -> LoadState] /\ activeLoad' \in Slot \cup {NULL}
        /\ \A m \in Slot : LoadSound(loads[m])'
    BY <1>3, <1>4, ForceLoadSound
  <1>6. ASSUME retries' = 0 PROVE Serial'
    <2>1. Serial
      BY <1>4, <1>6 DEF FeedInv
    <2>2. OneAtATime' /\ \A m \in Slot : UpToDate(loads[m])'
      BY <1>2, <1>3, <1>4, <2>1, ForceLoadSerial DEF logState
    <2>3. NoGap'
      BY <1>4, <2>1, Unchanging, NoGapStays DEF logState, Serial
    <2>4. Sorted(items)'
      BY <1>4, <2>1 DEF logState, Serial
    <2>5. QED
      BY <2>2, <2>3, <2>4 DEF Serial
  <1>7. TypeOK'
    BY <1>4, <1>5 DEF FeedInv, TypeOK, server, logState, history
  <1>8. QED
    BY <1>4, <1>5, <1>6, <1>7 DEF FeedInv, CursorShown, server, logState

LEMMA ResetAnsweredSafe ==
  ASSUME FeedInv, ResetAnswered PROVE FeedInv'
  <1>1. PICK l \in Slot : ForceLoad(l, "action", NULL)
    BY DEF ResetAnswered
  <1>2. /\ UNCHANGED <<server, shownAt, noTasks, retryShown, skipped, fails, retries>>
        /\ UNCHANGED <<server, skipped>>
        /\ items' = <<>> /\ lastId' = NULL /\ reset' = NULL /\ reset \in Id /\ forgotten' = reset
        /\ NULL \in Id \cup {NULL} /\ "action" \in {"poll", "action", "retry"}
    BY DEF ResetAnswered
  <1>3. /\ loads' \in [Slot -> LoadState] /\ activeLoad' \in Slot \cup {NULL}
        /\ \A m \in Slot : LoadSound(loads[m])'
    BY <1>1, <1>2, ForceLoadSound
  <1>4. Len(<<>>) = 0 /\ 1..0 = {} /\ <<>> \in Seq(Id) /\ 0 <= MaxRows
    BY IdFacts, EmptySeq
  <1>5. ASSUME retries' = 0 PROVE Serial'
    <2>1. Serial
      BY <1>2, <1>5 DEF FeedInv
    <2>2. \A m \in Slot : ~Acts(m)
      <3>1. reset # NULL
        BY <1>2, IdFacts
      <3>2. QED
        BY <2>1, <3>1 DEF Serial, OneAtATime
    <2>3. OneAtATime' /\ \A m \in Slot : UpToDate(loads[m])'
      BY <1>1, <1>2, <2>1, <2>2, ForceLoadSerial
    <2>4. NoGap'
      BY <1>2 DEF NoGap
    <2>5. Sorted(items)'
      BY <1>2, <1>4 DEF Sorted
    <2>6. QED
      BY <2>3, <2>4, <2>5 DEF Serial
  <1>6. forgotten' \in 0..MaxId
    BY <1>2, IdFacts DEF Id
  <1>7. TypeOK'
    BY <1>2, <1>3, <1>4, <1>6 DEF FeedInv, TypeOK, server
  <1>8. CursorShown'
    BY <1>2 DEF CursorShown
  <1>9. \A n \in 1..Len(items') : items'[n] < nextId'
    BY <1>2, <1>4
  <1>10. QED
    BY <1>2, <1>3, <1>5, <1>7, <1>8, <1>9 DEF FeedInv, server

-----------------------------------------------------------------------------
(* A load ends, and those that waited for it start.                        *)

LEMMA EndedSound ==
  ASSUME FeedInv, NEW l \in Slot, NEW cursor \in Id \cup {NULL}, Ended(l, cursor),
         UNCHANGED <<server, skipped>>
  PROVE  /\ loads' \in [Slot -> LoadState] /\ activeLoad' \in Slot \cup {NULL}
         /\ \A m \in Slot : LoadSound(loads[m])'
  <1>1. loads \in [Slot -> LoadState] /\ nextId \in Nat
    BY IdFacts DEF FeedInv, TypeOK
  <1>2. ASSUME NEW m \in Slot
        PROVE  \/ loads'[m] = Free \/ loads'[m] = loads[m]
               \/ loads[m].phase = "waiting" /\ loads'[m] = Sent(loads[m], cursor)
    BY DEF Ended
  <1>3. ASSUME NEW m \in Slot PROVE loads'[m] \in LoadState /\ LoadSound(loads[m])'
    <2>1. Grows
      BY Unchanging
    <2>2. PICK q : q = loads'[m]
      OBVIOUS
    <2>3. q \in LoadState /\ LoadSound(q)
      <3>1. CASE q = Free
        <4>1. Free.since <= nextId
          BY <1>1, FreeFields
        <4>2. QED
          BY <1>1, <3>1, <4>1, FreeFields, UnreadSound
      <3>2. CASE q = loads[m]
        BY <3>2 DEF FeedInv, TypeOK
      <3>3. CASE loads[m].phase = "waiting" /\ q = Sent(loads[m], cursor)
        <4>1. loads[m] \in LoadState /\ LoadSound(loads[m])
          BY DEF FeedInv, TypeOK
        <4>2. /\ q \in LoadState /\ q.since = loads[m].since
              /\ q.tasksAt = loads[m].tasksAt /\ q.logs = loads[m].logs
          BY <3>3, <4>1, SentFields
        <4>3. q.since <= nextId /\ q.tasksAt = 0 /\ q.logs = NULL
          BY <3>3, <4>1, <4>2 DEF LoadSound
        <4>4. QED
          BY <1>1, <4>2, <4>3, UnreadSound
      <3>4. QED
        BY <1>2, <2>2, <3>1, <3>2, <3>3
    <2>4. LoadSound(q)'
      BY <2>1, <2>3, SoundStays
    <2>5. QED
      BY <2>2, <2>3, <2>4
  <1>4. loads' \in [Slot -> LoadState]
    <2> DEFINE f(q) == IF q = l THEN Free
                       ELSE IF loads[q].phase = "waiting" /\ loads[q].on = l THEN Sent(loads[q], cursor)
                       ELSE loads[q]
    <2>1. loads' = [q \in Slot |-> f(q)]
      BY DEF Ended
    <2>2. \A q \in Slot : loads'[q] = f(q)
      BY <2>1
    <2> HIDE DEF f
    <2>3. \A q \in Slot : f(q) \in LoadState
      BY <1>3, <2>2
    <2>4. QED
      BY <2>1, <2>3
  <1>5. activeLoad' \in Slot \cup {NULL}
    BY DEF Ended
  <1>6. QED
    BY <1>3, <1>4, <1>5

LEMMA EndedSerial ==
  ASSUME FeedInv, Serial, NEW l \in Slot, loads[l].phase = "sent",
         NEW cursor \in Id \cup {NULL}, Ended(l, cursor),
         lastId' = cursor, reset' = reset
  PROVE  OneAtATime' /\ \A m \in Slot : UpToDate(loads[m])'
  <1> DEFINE W == {q \in Slot : loads[q].phase = "waiting" /\ loads[q].on = l}
  <1>1. OneAtATime /\ l = activeLoad
    BY DEF Serial, OneAtATime
  <1>2. NULL \notin Slot
    BY IdFacts
  <1>3. \A q \in Slot : q # l => loads[q].phase = "free" \/ q \in W
    <2>1. \A q \in Slot : loads[q].phase \in {"free", "waiting", "sent"}
      BY DEF FeedInv, TypeOK, LoadState
    <2>2. QED
      BY <1>1, <2>1 DEF OneAtATime
  <1>4. \A p, q \in W : p = q
    BY <1>1 DEF OneAtATime, Acts
  <1>5. ASSUME NEW q \in W
        PROVE  /\ loads'[q].phase = "sent" /\ loads'[q].after = cursor /\ loads'[q].tasksAt = 0
               /\ loads'[q].kind = "action" /\ Acts(q)
    <2>1. loads[q] \in LoadState /\ LoadSound(loads[q]) /\ q # l /\ loads[q].phase = "waiting"
      BY DEF FeedInv, TypeOK
    <2>2. loads'[q] = Sent(loads[q], cursor)
      BY <2>1 DEF Ended
    <2>3. /\ loads'[q].phase = "sent" /\ loads'[q].after = cursor /\ loads'[q].kind = loads[q].kind
          /\ loads'[q].tasksAt = loads[q].tasksAt
      BY <2>1, <2>2, SentFields
    <2>4. loads[q].kind = "action"
      BY <1>1, <2>1 DEF OneAtATime
    <2>5. loads[q].tasksAt = 0
      BY <2>1 DEF LoadSound
    <2>6. QED
      BY <2>1, <2>3, <2>4, <2>5 DEF Acts
  <1>6. \A q \in Slot : q \notin W => loads'[q].phase = "free"
    <2>1. loads'[l].phase = "free"
      BY FreeFields DEF Ended
    <2>2. ASSUME NEW q \in Slot, q \notin W, q # l PROVE loads'[q].phase = "free"
      <3>1. loads'[q] = loads[q]
        BY <2>2 DEF Ended
      <3>2. QED
        BY <1>3, <2>2, <3>1
    <2>3. QED
      BY <2>1, <2>2
  <1>7. IF W = {} THEN activeLoad' = NULL ELSE activeLoad' \in W
    BY DEF Ended
  <1> HIDE DEF W
  <1>8. \A q \in Slot : loads'[q].phase # "free" => q \in W
    BY <1>6
  <1>9. \A m, n \in Slot : Acts(m)' /\ Acts(n)' => m = n
    BY <1>4, <1>8 DEF Acts
  <1>10. reset' # NULL => \A m \in Slot : ~Acts(m)'
    BY <1>1, <1>5, <1>8 DEF OneAtATime, Acts
  <1>11. OneAtATime'
    <2>1. activeLoad' = NULL => \A m \in Slot : loads'[m].phase = "free"
      <3>1. activeLoad' = NULL => W = {}
        BY <1>2, <1>7 DEF W
      <3>2. QED
        BY <1>6, <3>1
    <2>2. activeLoad' # NULL => loads'[activeLoad'].phase = "sent"
      BY <1>5, <1>7
    <2>3. \A m \in Slot : loads'[m].phase = "sent" => m = activeLoad'
      BY <1>4, <1>7, <1>8
    <2>4. \A m \in Slot : loads'[m].phase # "waiting"
      BY <1>5, <1>6
    <2>5. QED
      BY <1>9, <1>10, <2>1, <2>2, <2>3, <2>4 DEF OneAtATime
  <1>12. \A m \in Slot : UpToDate(loads[m])'
    <2>1. ASSUME NEW m \in Slot PROVE UpToDate(loads[m])'
      <3>1. CASE m \in W
        BY <1>5, <3>1 DEF UpToDate
      <3>2. CASE m \notin W
        BY <1>6, <3>2 DEF UpToDate
      <3>3. QED
        BY <3>1, <3>2
    <2>2. QED
      BY <2>1
  <1>13. QED
    BY <1>11, <1>12

LEMMA FailSafe ==
  ASSUME FeedInv, NEW l \in Slot, Fail(l) PROVE FeedInv'
  <1>1. PICK cursor : cursor = lastId
    OBVIOUS
  <1>2. /\ UNCHANGED <<server, logState, shownAt, noTasks, reset, history, retries>>
        /\ UNCHANGED <<server, skipped>>
        /\ cursor \in Id \cup {NULL} /\ Ended(l, cursor) /\ loads[l].phase = "sent"
    BY <1>1 DEF Fail, FeedInv, TypeOK, history
  <1>3. /\ loads' \in [Slot -> LoadState] /\ activeLoad' \in Slot \cup {NULL}
        /\ \A m \in Slot : LoadSound(loads[m])'
    BY <1>2, EndedSound
  <1>4. fails' \in 0..MaxFail
    BY IdFacts DEF Fail, FeedInv, TypeOK
  <1>5. retryShown' \in BOOLEAN
    BY DEF Fail, FeedInv, TypeOK
  <1>6. ASSUME retries' = 0 PROVE Serial'
    <2>1. Serial
      BY <1>2, <1>6 DEF FeedInv
    <2>2. lastId' = cursor /\ reset' = reset
      BY <1>1, <1>2 DEF logState
    <2>3. OneAtATime' /\ \A m \in Slot : UpToDate(loads[m])'
      BY <1>2, <2>1, <2>2, EndedSerial
    <2>4. NoGap'
      BY <1>2, <2>1, Unchanging, NoGapStays DEF logState, Serial
    <2>5. Sorted(items)'
      BY <1>2, <2>1 DEF logState, Serial
    <2>6. QED
      BY <2>3, <2>4, <2>5 DEF Serial
  <1>7. TypeOK'
    BY <1>2, <1>3, <1>4, <1>5 DEF FeedInv, TypeOK, server, logState, history
  <1>8. QED
    BY <1>2, <1>3, <1>6, <1>7 DEF FeedInv, CursorShown, server, logState

(* What is shown after an answer was ingested.                             *)
LEMMA IngestedType ==
  ASSUME FeedInv, NEW l \in Slot, Finish(l)
  PROVE  /\ items' \in Seq(Id) /\ Len(items') <= MaxRows /\ CursorShown'
         /\ \A n \in 1..Len(items') : items'[n] < nextId
         /\ lastId' \in Id \cup {NULL}
  <1>1. PICK rows : rows = loads[l].logs
    OBVIOUS
  <1>2. /\ rows \in Seq(Id) /\ Len(rows) <= MaxRows
        /\ \A n \in 1..Len(rows) : rows[n] < nextId
    BY <1>1 DEF Finish, FeedInv, TypeOK, LoadState, LoadSound
  <1>3. /\ items \in Seq(Id) /\ Len(items) <= MaxRows /\ CursorShown
        /\ \A n \in 1..Len(items) : items[n] < nextId
        /\ lastId \in Id \cup {NULL}
    BY DEF FeedInv, TypeOK
  <1>4. items' = Ingested(rows) /\ lastId' = Cursor(items')
    BY <1>1 DEF Finish
  <1>5. /\ items' \in Seq(Id) /\ Len(items') <= MaxRows
        /\ \A n \in 1..Len(items') : items'[n] < nextId
        /\ items' = <<>> => lastId = NULL
    <2>1. CASE lastId = NULL
      BY <1>2, <1>4, <2>1 DEF Ingested
    <2>2. CASE lastId # NULL /\ rows = <<>>
      BY <1>3, <1>4, <2>2 DEF Ingested, CursorShown
    <2>3. CASE lastId # NULL /\ rows # <<>>
      <3> DEFINE all == rows \o items
                 k == IF Len(all) < MaxRows THEN Len(all) ELSE MaxRows
      <3>1. Len(rows) \in Nat \ {0} /\ Len(items) \in Nat \ {0} /\ MaxRows \in Nat \ {0}
        BY <1>2, <1>3, <2>3, EmptySeq, IdFacts DEF CursorShown
      <3>2. Len(all) = Len(rows) + Len(items)
        BY <1>2, <1>3, ConcatProperties
      <3>3. k \in 1..(Len(rows) + Len(items)) /\ k <= MaxRows
        BY <3>1, <3>2
      <3>4. items' = SubSeq(all, 1, k)
        BY <1>4, <2>3 DEF Ingested
      <3> HIDE DEF k
      <3>5. /\ items' \in Seq(Id) /\ Len(items') = k
            /\ \A n \in 1..k : IF n <= Len(rows) THEN items'[n] = rows[n]
                 ELSE items'[n] = items[n - Len(rows)] /\ n - Len(rows) \in 1..Len(items)
        BY <1>2, <1>3, <3>1, <3>3, <3>4, Merged
      <3>6. ASSUME NEW n \in 1..k PROVE items'[n] < nextId
        <4>1. CASE n <= Len(rows)
          <5>1. n \in 1..Len(rows)
            BY <3>1, <3>3, <4>1
          <5>2. QED
            BY <1>2, <3>5, <4>1, <5>1
        <4>2. CASE ~(n <= Len(rows))
          BY <1>3, <3>5, <4>2
        <4>3. QED
          BY <4>1, <4>2
      <3>7. items' # <<>>
        <4>1. Len(<<>>) = 0 /\ k # 0
          BY <3>1, <3>3
        <4>2. QED
          BY <3>5, <4>1
      <3>8. QED
        BY <3>3, <3>5, <3>6, <3>7
    <2>4. QED
      BY <2>1, <2>2, <2>3
  <1>6. CASE items' = <<>>
    BY <1>4, <1>5, <1>6 DEF Cursor, CursorShown
  <1>7. CASE items' # <<>>
    <2>1. lastId' = items'[1]
      BY <1>4, <1>7 DEF Cursor
    <2>2. Len(items') \in Nat \ {0}
      BY <1>5, <1>7, EmptySeq
    <2>3. 1 \in 1..Len(items')
      BY <2>2
    <2>4. items'[1] \in Id /\ items'[1] # NULL
      BY <1>5, <2>3, ElementOfSeq, IdFacts
    <2>5. QED
      BY <1>5, <1>7, <2>1, <2>4 DEF CursorShown
  <1>8. QED
    BY <1>5, <1>6, <1>7

LEMMA IngestedInOrder ==
  ASSUME FeedInv, Serial, NEW l \in Slot, Finish(l)
  PROVE  Sorted(items)' /\ NoGap'
  <1>1. PICK rows, cursor : rows = loads[l].logs /\ cursor = loads[l].after
    OBVIOUS
  <1>2. /\ rows \in Seq(Id) /\ Sorted(rows)
        /\ cursor # NULL => \A n \in 1..Len(rows) : rows[n] > cursor
    BY <1>1 DEF Finish, FeedInv, TypeOK, LoadState, LoadSound
  <1>3. rows # <<>> =>
          \A i \in table : i < rows[1] /\ (cursor # NULL => i > cursor)
                           => Has(rows, i) \/ i \in skipped
    BY <1>1 DEF Finish, FeedInv, LoadSound, AnswerTells
  <1>4. /\ items \in Seq(Id) /\ CursorShown /\ lastId \in Id \cup {NULL}
        /\ Sorted(items) /\ NoGap /\ table \subseteq Id
    BY DEF FeedInv, TypeOK, Serial
  <1>5. cursor = lastId \/ lastId = NULL
    BY <1>1 DEF Finish, Serial, UpToDate
  <1>6. /\ items' = Ingested(rows) /\ table' = table /\ skipped' = skipped
    BY <1>1 DEF Finish, server, history
  <1>7. CASE lastId = NULL
    <2>1. items' = rows
      BY <1>6, <1>7 DEF Ingested
    <2>2. Sorted(items)'
      BY <1>2, <2>1
    <2>3. NoGap'
      <3> SUFFICES ASSUME rows # <<>>, NEW i \in table, rows[Len(rows)] < i, i < rows[1]
                   PROVE  Has(rows, i) \/ i \in skipped
        BY <1>6, <2>1 DEF NoGap
      <3>1. cursor # NULL => i > cursor
        <4>1. Len(rows) \in Nat \ {0}
          BY <1>2, EmptySeq
        <4>2. Len(rows) \in 1..Len(rows)
          BY <4>1
        <4>3. rows[Len(rows)] \in Nat /\ i \in Nat
          BY <1>2, <1>4, <4>2, ElementOfSeq, IdFacts
        <4>4. cursor # NULL => cursor \in Nat
          BY <1>1, IdFacts DEF FeedInv, TypeOK, LoadState
        <4>5. cursor # NULL => rows[Len(rows)] > cursor
          BY <1>2, <4>2
        <4>6. QED
          BY <4>3, <4>4, <4>5
      <3>2. QED
        BY <1>3, <3>1
    <2>4. QED
      BY <2>2, <2>3
  <1>8. CASE lastId # NULL /\ rows = <<>>
    <2>1. items' = items
      BY <1>6, <1>8 DEF Ingested
    <2>2. Sorted(items)' /\ NoGap'
      BY <1>4, <1>6, <2>1 DEF NoGap
    <2>3. QED
      BY <2>2
  <1>9. CASE lastId # NULL /\ rows # <<>>
    <2> DEFINE all == rows \o items
               k == IF Len(all) < MaxRows THEN Len(all) ELSE MaxRows
               s == SubSeq(all, 1, k)
    <2>1. Len(rows) \in Nat \ {0} /\ Len(items) \in Nat \ {0} /\ MaxRows \in Nat \ {0}
      BY <1>2, <1>4, <1>9, EmptySeq, IdFacts DEF CursorShown
    <2>2. Len(rows) > 0 /\ Len(items) > 0 /\ 1 \in 1..Len(items) /\ 1 \in 1..Len(rows)
          /\ Len(items) \in 1..Len(items)
      BY <2>1
    <2>3. Len(all) = Len(rows) + Len(items)
      BY <1>2, <1>4, ConcatProperties
    <2>4. k \in 1..(Len(rows) + Len(items))
      BY <2>1, <2>3
    <2>5. items' = s
      BY <1>6, <1>9 DEF Ingested
    <2>6. cursor = items[1] /\ cursor # NULL
      BY <1>4, <1>5, <1>9 DEF CursorShown
    <2>7. \A n \in 1..Len(rows) : rows[n] > items[1]
      BY <1>2, <2>6
    <2> HIDE DEF k
    <2>8. Sorted(s) /\ Len(s) = k /\ s[1] = rows[1]
      BY <1>2, <1>4, <2>2, <2>4, <2>7, Merged, MergedIsSorted
    <2>9. NoGap'
      <3> SUFFICES ASSUME NEW i \in table, s[k] < i, i < rows[1]
                   PROVE  Has(s, i) \/ i \in skipped
        <4> HIDE DEF s
        <4> QED
          BY <1>6, <2>5, <2>8 DEF NoGap
      <3>1. i \in Nat /\ items[1] \in Nat /\ items[Len(items)] \in Nat
        BY <1>4, <2>2, ElementOfSeq, IdFacts
      <3>2. (Has(rows, i) \/ Has(items, i) => Has(s, i)) /\ items[Len(items)] < i
        BY <1>2, <1>4, <2>2, <2>4, <2>7, <3>1, MergedHas
      <3> HIDE DEF s
      <3>3. CASE i > items[1]
        <4>1. Has(rows, i) \/ i \in skipped
          BY <1>3, <1>9, <2>6, <3>3
        <4>2. QED
          BY <3>2, <4>1
      <3>4. CASE i = items[1]
        <4>1. Has(items, i)
          BY <2>2, <3>4 DEF Has
        <4>2. QED
          BY <3>2, <4>1
      <3>5. CASE i < items[1]
        <4>1. items # <<>>
          BY <1>4, <1>9 DEF CursorShown
        <4>2. Has(items, i) \/ i \in skipped
          BY <1>4, <3>2, <3>5, <4>1 DEF NoGap
        <4>3. QED
          BY <3>2, <4>2
      <3>6. QED
        BY <3>1, <3>3, <3>4, <3>5
    <2>10. Sorted(items)'
      BY <2>5, <2>8
    <2>11. QED
      BY <2>9, <2>10
  <1>10. QED
    BY <1>7, <1>8, <1>9

LEMMA FinishSafe ==
  ASSUME FeedInv, NEW l \in Slot, Finish(l) PROVE FeedInv'
  <1>1. PICK cursor : cursor = lastId'
    OBVIOUS
  <1>2. /\ UNCHANGED <<server, reset, history, fails, retries>> /\ UNCHANGED <<server, skipped>>
        /\ Ended(l, cursor) /\ loads[l].phase = "sent"
        /\ shownAt' = loads[l].tasksAt /\ noTasks' \in BOOLEAN /\ retryShown' = FALSE
    BY <1>1 DEF Finish, history
  <1>3. /\ items' \in Seq(Id) /\ Len(items') <= MaxRows /\ CursorShown'
        /\ \A n \in 1..Len(items') : items'[n] < nextId
        /\ lastId' \in Id \cup {NULL} /\ cursor \in Id \cup {NULL}
    BY <1>1, IngestedType
  <1>4. /\ loads' \in [Slot -> LoadState] /\ activeLoad' \in Slot \cup {NULL}
        /\ \A m \in Slot : LoadSound(loads[m])'
    BY <1>2, <1>3, EndedSound
  <1>5. shownAt' \in Nat /\ shownAt' <= nextId
    BY <1>2 DEF FeedInv, TypeOK, LoadState, LoadSound
  <1>6. ASSUME retries' = 0 PROVE Serial'
    <2>1. Serial
      BY <1>2, <1>6 DEF FeedInv
    <2>2. OneAtATime' /\ \A m \in Slot : UpToDate(loads[m])'
      BY <1>1, <1>2, <1>3, <2>1, EndedSerial
    <2>3. Sorted(items)' /\ NoGap'
      BY <2>1, IngestedInOrder
    <2>4. QED
      BY <2>2, <2>3 DEF Serial
  <1>7. TypeOK'
    BY <1>2, <1>3, <1>4, <1>5 DEF FeedInv, TypeOK, server, history
  <1>8. QED
    BY <1>2, <1>3, <1>4, <1>5, <1>6, <1>7 DEF FeedInv, server

-----------------------------------------------------------------------------
(* The invariant, and what follows from it.                                *)

LEMMA FeedInit == Init => FeedInv
  <1> SUFFICES ASSUME Init PROVE FeedInv
    OBVIOUS
  <1>1. Len(<<>>) = 0 /\ 1..0 = {} /\ <<>> \in Seq(Id)
    BY EmptySeq
  <1>2. TypeOK
    <2>1. /\ table \subseteq Id /\ nextId \in 1..(MaxId + 1) /\ shownAt \in Nat
          /\ forgotten \in 0..MaxId /\ skipped \subseteq Id
          /\ fails \in 0..MaxFail /\ retries \in 0..MaxRetry
      BY IdFacts DEF Init
    <2>2. items \in Seq(Id) /\ Len(items) <= MaxRows
      BY <1>1, IdFacts DEF Init
    <2>3. noTasks \in BOOLEAN /\ retryShown \in BOOLEAN
      BY DEF Init
    <2>4. /\ loads \in [Slot -> LoadState] /\ lastId \in Id \cup {NULL}
          /\ activeLoad \in Slot \cup {NULL} /\ reset \in {NULL, 0} \cup Id
      BY FreeFields DEF Init
    <2>5. QED
      BY <2>1, <2>2, <2>3, <2>4 DEF TypeOK
  <1>3. nextId = 1 /\ table = {} /\ items = <<>> /\ lastId = NULL /\ shownAt = 0
        /\ loads = [m \in Slot |-> Free] /\ activeLoad = NULL /\ reset = NULL
    BY DEF Init
  <1>4. \A m \in Slot : LoadSound(loads[m])
    <2>1. Free.since <= nextId
      BY <1>3, FreeFields
    <2>2. LoadSound(Free)
      BY <1>3, <2>1, FreeFields, UnreadSound
    <2>3. QED
      BY <1>3, <2>2
  <1>5. \A m \in Slot : loads[m].phase = "free"
    BY <1>3, FreeFields
  <1>6. OneAtATime
    BY <1>3, <1>5 DEF OneAtATime, Acts
  <1>7. Sorted(items) /\ NoGap
    BY <1>1, <1>3 DEF Sorted, NoGap
  <1>8. \A m \in Slot : UpToDate(loads[m])
    BY <1>5 DEF UpToDate
  <1>9. QED
    BY <1>1, <1>2, <1>3, <1>4, <1>6, <1>7, <1>8 DEF FeedInv, CursorShown, Serial

LEMMA FeedInvStays == FeedInv /\ [Next]_vars => FeedInv'
  <1> SUFFICES ASSUME FeedInv, [Next]_vars PROVE FeedInv'
    OBVIOUS
  <1>1. CASE UNCHANGED vars
    BY <1>1 DEF vars, server, logState, history, FeedInv, TypeOK, CursorShown, LoadSound,
                AnswerTells, Serial, OneAtATime, Acts, UpToDate, NoGap
  <1>2. CASE Elsewhere
    BY <1>2, ElsewhereSafe
  <1>3. CASE Poll
    BY <1>3, PollSafe
  <1>4. CASE Retry
    BY <1>4, RetrySafe
  <1>5. CASE ActionAnswered
    BY <1>5, ActionAnsweredSafe
  <1>6. CASE ResetClick \/ ResetCommits \/ ResetFails
    BY <1>6, ResetStepsSafe
  <1>7. CASE ResetAnswered
    BY <1>7, ResetAnsweredSafe
  <1>8. ASSUME NEW l \in Slot,
               ReadTasks(l) \/ ReadLogs(l) \/ LogsFail(l) \/ Finish(l) \/ Fail(l)
        PROVE  FeedInv'
    BY <1>8, ReadTasksSafe, ReadLogsSafe, LogsFailSafe, FinishSafe, FailSafe
  <1>9. QED
    BY <1>1, <1>2, <1>3, <1>4, <1>5, <1>6, <1>7, <1>8 DEF Next

(* The strengthening that the three facts above make inductive: what each  *)
(* answer on its way has, and, while retry was not clicked, that one load  *)
(* is under way at a time and asked for the rows after those shown.        *)
THEOREM FeedInvHolds == Spec => []FeedInv
  BY FeedInit, FeedInvStays, PTL DEF Spec

(* The variables keep their types, and the panel never has more rows than  *)
(* MAX_LOG_ROWS, clicks on retry or not.                                   *)
THEOREM FeedTypeCorrect == Spec => []TypeOK
  <1>1. FeedInv => TypeOK
    BY DEF FeedInv
  <1>2. QED
    BY <1>1, FeedInvHolds, PTL

(* While nobody clicks retry, ingestLogs shows every row once and newest   *)
(* first, whatever was answered late, failed, or was wiped in between.     *)
THEOREM LogbookStaysInOrder == Spec => []LogbookInOrder
  <1>1. FeedInv => LogbookInOrder
    <2> SUFFICES ASSUME FeedInv, retries = 0 PROVE InOrder
      BY DEF LogbookInOrder
    <2>1. Sorted(items) /\ items \in Seq(Id)
      BY DEF FeedInv, TypeOK, Serial
    <2>2. DOMAIN items = 1..Len(items)
      BY <2>1, LenProperties
    <2>3. QED
      BY <2>1, <2>2 DEF Sorted, InOrder
  <1>2. QED
    BY <1>1, FeedInvHolds, PTL

(* Between the rows it shows the tab misses none that the ledger has, but  *)
(* for those that list_operation_logs left out because the answer was full. *)
THEOREM GapsAreAnnounced == Spec => []NoSilentGap
  <1>1. FeedInv => NoSilentGap
    <2> SUFFICES ASSUME FeedInv, NEW i \in table, retries = 0, items # <<>>,
                        items[Len(items)] < i, i < Head(items)
                 PROVE  (\E n \in DOMAIN items : items[n] = i) \/ i \in skipped
      BY DEF NoSilentGap
    <2>1. NoGap /\ items \in Seq(Id)
      BY DEF FeedInv, TypeOK, Serial
    <2>2. DOMAIN items = 1..Len(items) /\ Head(items) = items[1]
      BY <2>1, LenProperties
    <2>3. Has(items, i) \/ i \in skipped
      BY <2>1, <2>2 DEF NoGap
    <2>4. QED
      BY <2>2, <2>3 DEF Has
  <1>2. QED
    BY <1>1, FeedInvHolds, PTL

(* loadTasks never puts an older board in the place of a newer one, unless *)
(* retry was clicked: of the loads that overlap one waits for the other.   *)
THEOREM BoardIsMonotonic == Spec => BoardNeverGoesBack
  <1>1. FeedInv /\ [Next]_vars => [retries = 0 => shownAt' >= shownAt]_vars
    <2> SUFFICES ASSUME FeedInv, Next, retries = 0 PROVE shownAt' >= shownAt
      OBVIOUS
    <2>1. shownAt \in Nat
      BY DEF FeedInv, TypeOK
    <2>2. ASSUME NEW l \in Slot, Finish(l) PROVE shownAt' >= shownAt
      <3>1. UpToDate(loads[l])
        BY DEF FeedInv, Serial
      <3>2. QED
        BY <2>2, <3>1 DEF Finish, UpToDate
    <2>3. CASE \E l \in Slot : ReadTasks(l) \/ ReadLogs(l) \/ LogsFail(l) \/ Fail(l)
      <3>1. shownAt' = shownAt
        BY <2>3 DEF ReadTasks, ReadLogs, LogsFail, Fail
      <3>2. QED
        BY <2>1, <3>1
    <2>4. CASE Elsewhere \/ Poll \/ Retry \/ ActionAnswered
               \/ ResetClick \/ ResetCommits \/ ResetAnswered \/ ResetFails
      <3>1. shownAt' = shownAt
        BY <2>4 DEF Elsewhere, Poll, Retry, ActionAnswered, ResetClick, ResetCommits,
                    ResetAnswered, ResetFails
      <3>2. QED
        BY <2>1, <3>1
    <2>5. QED
      BY <2>2, <2>3, <2>4 DEF Next
  <1>2. QED
    BY <1>1, FeedInvHolds, PTL DEF Spec, BoardNeverGoesBack

(* The load that an action asked for shows a board of after the action,    *)
(* with retries too: only its own tasks answer ends it without a failure.  *)
THEOREM ActionsAreShown == Spec => ActionsShowTheirEffect
  <1> DEFINE Shown == \A l \in Slot :
                        loads[l].phase = "sent" /\ loads[l].kind = "action"
                          /\ loads'[l].phase = "free" /\ fails' = fails
                        => shownAt' >= loads[l].since
  <1>1. FeedInv /\ [Next]_vars => [Shown]_vars
    <2> SUFFICES ASSUME FeedInv, Next, NEW l \in Slot, loads[l].phase = "sent",
                        loads'[l].phase = "free", fails' = fails
                 PROVE  shownAt' >= loads[l].since
      OBVIOUS
    <2>1. loads \in [Slot -> LoadState] /\ fails \in Nat /\ nextId \in Nat
      BY IdFacts DEF FeedInv, TypeOK
    <2>2. CASE Elsewhere \/ ResetClick \/ ResetCommits \/ ResetFails
      <3>1. loads' = loads
        BY <2>2 DEF Elsewhere, ResetClick, ResetCommits, ResetFails
      <3>2. QED
        BY <3>1
    <2>3. ASSUME NEW m \in Slot, NEW kind \in {"poll", "action", "retry"},
                 NEW cursor \in Id \cup {NULL}, ForceLoad(m, kind, cursor),
                 UNCHANGED <<server, skipped>>
          PROVE  FALSE
      <3>1. loads'[m].phase # "free" /\ \A q \in Slot : q # m => loads'[q] = loads[q]
        BY <2>3, ForceLoadSound
      <3>2. QED
        BY <3>1
    <2>4. ~Poll
      <3> SUFFICES ASSUME Poll PROVE FALSE
        OBVIOUS
      <3>1. PICK m \in Slot : ForceLoad(m, "poll", lastId)
        BY DEF Poll, ForceLoad
      <3>2. lastId \in Id \cup {NULL} /\ UNCHANGED <<server, skipped>>
        BY DEF FeedInv, TypeOK, Poll, history
      <3>3. QED
        BY <2>3, <3>1, <3>2
    <2>5. ~Retry
      <3> SUFFICES ASSUME Retry PROVE FALSE
        OBVIOUS
      <3>1. PICK m \in Slot : ForceLoad(m, "retry", lastId)
        BY DEF Retry
      <3>2. lastId \in Id \cup {NULL} /\ UNCHANGED <<server, skipped>>
        BY DEF FeedInv, TypeOK, Retry, history
      <3>3. QED
        BY <2>3, <3>1, <3>2
    <2>6. ~ActionAnswered
      <3> SUFFICES ASSUME ActionAnswered PROVE FALSE
        OBVIOUS
      <3>1. PICK m \in Slot : ForceLoad(m, "action", lastId)
        BY DEF ActionAnswered
      <3>2. lastId \in Id \cup {NULL} /\ UNCHANGED <<server, skipped>>
        BY DEF FeedInv, TypeOK, ActionAnswered, history
      <3>3. QED
        BY <2>3, <3>1, <3>2
    <2>7. ~ResetAnswered
      <3> SUFFICES ASSUME ResetAnswered PROVE FALSE
        OBVIOUS
      <3>1. PICK m \in Slot : ForceLoad(m, "action", NULL)
        BY DEF ResetAnswered
      <3>2. UNCHANGED <<server, skipped>>
        BY DEF ResetAnswered
      <3>3. QED
        BY <2>3, <3>1, <3>2
    <2>8. ASSUME NEW m \in Slot, ReadTasks(m) \/ ReadLogs(m) \/ LogsFail(m) PROVE FALSE
      <3>1. loads'[l].phase = loads[l].phase
        BY <2>1, <2>8 DEF ReadTasks, ReadLogs, LogsFail, LoadState
      <3>2. QED
        BY <3>1
    <2>9. ASSUME NEW m \in Slot, Fail(m) PROVE FALSE
      BY <2>1, <2>9 DEF Fail
    <2>10. ASSUME NEW m \in Slot, Finish(m) PROVE shownAt' >= loads[l].since
      <3>1. CASE m = l
        <4>1. LoadSound(loads[l]) /\ loads[l].tasksAt # 0 /\ shownAt' = loads[l].tasksAt
          BY <2>10, <3>1 DEF FeedInv, Finish
        <4>2. QED
          BY <4>1 DEF LoadSound
      <3>2. CASE m # l
        <4>1. loads'[l] = loads[l]
          BY <2>10, <3>2 DEF Finish, Ended
        <4>2. QED
          BY <4>1
      <3>3. QED
        BY <3>1, <3>2
    <2>11. QED
      BY <2>2, <2>4, <2>5, <2>6, <2>7, <2>8, <2>9, <2>10 DEF Next
  <1>2. QED
    BY <1>1, FeedInvHolds, PTL DEF Spec, ActionsShowTheirEffect
=============================================================================
