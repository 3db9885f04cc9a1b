------------------------- MODULE SheetsLedger_proofs -------------------------
(* What holds of SheetsLedger for every history of rewards and claims, every *)
(* number of runs in flight and every bound on faults and backfills.         *)
EXTENDS SheetsLedger, Prefixes, FunctionTheorems, FiniteSetTheorems, TLAPS

USE DEF chain

\* Estimated day boundaries are blocks of the chain.
LEMMA EndBlockType ==
  ASSUME NEW day \in 0..MaxDay, NEW lost \in 0..MaxMissed
  PROVE  EndBlock(day, lost) \in Blocks
<1>1. /\ SlotsPerDay \in Nat \ {0} /\ MaxDay \in Nat /\ lost \in Nat
      /\ FirstSlot \in Nat
  BY LedgerAssumption
<1> DEFINE x == SlotsPerDay * day
           y == SlotsPerDay * MaxDay
           u == SlotsPerDay * (MaxDay - day)
<1>2. x + u = y /\ u \in Nat /\ x \in Nat /\ y \in Nat
  BY <1>1
<1>3. EndBlock(day, lost) = IF day = 0 \/ x - FirstSlot - lost < 0 THEN 0 ELSE x - FirstSlot - lost
  BY DEF EndBlock
<1>4. EndBlock(day, lost) \in 0..y
  <2> HIDE DEF x, y, u
  <2> QED BY <1>1, <1>2, <1>3
<1> QED BY <1>4 DEF Blocks

\* The boundaries one run estimates do not fall back: a day without slots enough
\* for the missed ones ends where the day before it does.
LEMMA EndBlocksAscend ==
  ASSUME NEW day \in 1..MaxDay, NEW lost \in 0..MaxMissed
  PROVE  EndBlock(day - 1, lost) <= EndBlock(day, lost)
<1>1. SlotsPerDay \in Nat /\ MaxDay \in Nat /\ lost \in Nat /\ FirstSlot \in Nat
  BY LedgerAssumption
<1> DEFINE x == SlotsPerDay * day
           w == SlotsPerDay * (day - 1)
<1>2. x = w + SlotsPerDay /\ x \in Nat /\ w \in Nat
  BY <1>1
<1>3. /\ EndBlock(day, lost) = IF x - FirstSlot - lost < 0 THEN 0 ELSE x - FirstSlot - lost
      /\ EndBlock(day - 1, lost) \in {0, w - FirstSlot - lost}
  BY <1>1 DEF EndBlock
<1> HIDE DEF x, w
<1> QED BY <1>1, <1>2, <1>3

\* Boundaries and the rows between two of them are well formed.
LEMMA BoundaryType ==
  ASSUME NEW day \in 0..MaxDay, NEW lost \in 0..MaxMissed, NEW ok \in BOOLEAN
  PROVE  BoundaryOf(day, lost, ok) \in Boundary /\ BoundaryOf(day, lost, ok).day = day
<1>1. EndBlock(day, lost) \in Blocks
  BY EndBlockType
<1>2. BalanceAt(EndBlock(day, lost), ok) \in Int
  BY <1>1, LedgerAssumption DEF BalanceAt
<1> QED BY <1>1, <1>2 DEF BoundaryOf, Boundary

\* The claims of a period: what the period adds to all claims, unless it ends
\* before it begins.
LEMMA ClaimsBetween ==
  ASSUME NEW from \in Blocks, NEW to \in Blocks
  PROVE  /\ Claims(from, to) \in Int
         /\ from <= to => Claims(from, to) = ClaimedBy[to] - ClaimedBy[from]
<1>1. from \in Int /\ to \in Int /\ ClaimedBy[from] \in Int /\ ClaimedBy[to] \in Int
  BY LedgerAssumption DEF Blocks
<1> QED BY <1>1 DEF Claims

LEMMA RowType ==
  ASSUME NEW open \in Boundary, NEW close \in Boundary, close.day \in Days
  PROVE  Row(open, close) \in RowT
<1>1. Accrued(open, close) \in Int
  BY ClaimsBetween DEF Accrued, Boundary
<1> QED BY <1>1 DEF Row, RowT

LEMMA GenesisType == Genesis \in Boundary /\ Genesis.day = 0
BY LedgerAssumption DEF Genesis, Boundary, Blocks

LEMMA WriteType ==
  ASSUME NEW mode \in {"append", "splice", "overwrite"}, NEW rows \in Seq(RowT),
         NEW from \in 0..MaxDay, NEW then \in {"compute", "commit"}
  PROVE  Write(mode, rows, from, then) \in WriteT
BY DEF Write, WriteT

LEMMA NothingToWrite ==
  ASSUME NEW mode \in {"append", "splice", "overwrite"}, NEW then \in {"compute", "commit"}
  PROVE  Write(mode, <<>>, NoDay, then) \in WriteT
<1>1. <<>> \in Seq(RowT)
  OBVIOUS
<1>2. NoDay \in 0..MaxDay
  BY LedgerAssumption DEF NoDay
<1> QED BY <1>1, <1>2, WriteType

LEMMA IdleType == Idle \in Run /\ Idle.kind = "none"
<1>1. Write("append", <<>>, NoDay, "commit") \in WriteT
  BY NothingToWrite
<1>2. 0 \in 0..MaxDay /\ 0 \in 0..MaxMissed
  BY LedgerAssumption
<1> QED BY <1>1, <1>2, GenesisType DEF Idle, Run, Tabs, NoDay

-----------------------------------------------------------------------------
\* Sorted rows, splices and sums.

\* The rows that ByDay puts before row i.
Earlier(rows, places, i) ==
  {j \in places : rows[j].day < rows[i].day \/ (rows[j].day = rows[i].day /\ j < i)}

\* The row that ByDay makes the k-th.
Nth(rows, places, k) ==
  CHOOSE i \in places : Cardinality(Earlier(rows, places, i)) = k - 1

\* No two rows are preceded by equally many.
LEMMA RankedApart ==
  ASSUME NEW rows \in Seq(RowT), NEW places \in SUBSET (DOMAIN rows),
         NEW i \in places, NEW j \in places,
         Cardinality(Earlier(rows, places, i)) = Cardinality(Earlier(rows, places, j))
  PROVE  i = j
<1> DEFINE Before(a) == Earlier(rows, places, a)
<1>1. /\ \A a \in places : a \in 1..Len(rows) /\ rows[a].day \in Int
      /\ IsFiniteSet(places)
  <2>1. \A a \in places : a \in 1..Len(rows) /\ rows[a] \in RowT
    OBVIOUS
  <2>2. \A a \in places : rows[a].day \in Int
    BY <2>1, LedgerAssumption DEF RowT, Days
  <2>3. Len(rows) \in Nat /\ places \subseteq 1..Len(rows)
    OBVIOUS
  <2>4. IsFiniteSet(1..Len(rows))
    BY <2>3, FS_Interval
  <2>5. IsFiniteSet(places)
    BY <2>3, <2>4, FS_Subset
  <2> QED BY <2>1, <2>2, <2>5
<1>2. ASSUME NEW a \in places, NEW b \in places, a \in Before(b)
      PROVE  Cardinality(Before(a)) < Cardinality(Before(b))
  <2>1. Before(a) \subseteq Before(b) \ {a}
    BY <1>1, <1>2 DEF Earlier
  <2>2. IsFiniteSet(Before(b))
    <3>1. Before(b) \in SUBSET places
      BY DEF Earlier
    <3> QED BY <1>1, <3>1, FS_Subset
  <2> HIDE DEF Before
  <2>3. IsFiniteSet(Before(b) \ {a}) /\ Cardinality(Before(b) \ {a}) = Cardinality(Before(b)) - 1
    BY <1>2, <2>2, FS_RemoveElement
  <2>4. Cardinality(Before(a)) <= Cardinality(Before(b) \ {a})
    BY <2>1, <2>3, FS_Subset
  <2>5. Cardinality(Before(b)) \in Nat /\ IsFiniteSet(Before(a))
    BY <2>1, <2>2, <2>3, FS_CardinalityType, FS_Subset
  <2>6. Cardinality(Before(a)) \in Nat
    BY <2>5, FS_CardinalityType
  <2> QED BY <2>3, <2>4, <2>5, <2>6
<1>3. i = j \/ i \in Before(j) \/ j \in Before(i)
  BY <1>1 DEF Earlier
<1>4. Cardinality(Before(i)) \in Nat
  <2>1. Before(i) \in SUBSET places
    BY DEF Earlier
  <2>2. IsFiniteSet(Before(i))
    BY <1>1, <2>1, FS_Subset
  <2> QED BY <2>2, FS_CardinalityType
<1> QED BY <1>2, <1>3, <1>4

LEMMA ByDayIs ==
  ASSUME NEW rows, NEW places
  PROVE  ByDay(rows, places) =
           [k \in 1..Cardinality(places) |-> rows[Nth(rows, places, k)]]
BY DEF ByDay, Earlier, Nth

\* Sorting loses no row and invents none.
LEMMA ByDayType ==
  ASSUME NEW rows \in Seq(RowT), NEW places \in SUBSET (DOMAIN rows)
  PROVE  /\ ByDay(rows, places) \in [1..Cardinality(places) -> RowT]
         /\ Cardinality(places) \in Nat
<1> DEFINE N == Cardinality(places)
           rank == [i \in places |-> Cardinality(Earlier(rows, places, i))]
<1>1. IsFiniteSet(places) /\ N \in Nat
  <2>1. Len(rows) \in Nat /\ places \in SUBSET (1..Len(rows))
    OBVIOUS
  <2>2. IsFiniteSet(1..Len(rows))
    BY <2>1, FS_Interval
  <2>3. IsFiniteSet(places)
    BY <2>1, <2>2, FS_Subset
  <2> QED BY <2>3, FS_CardinalityType
<1>2. rank \in [places -> 0..(N - 1)]
  <2>1. ASSUME NEW i \in places PROVE Cardinality(Earlier(rows, places, i)) \in 0..(N-1)
    <3>1. /\ IsFiniteSet(places \ {i}) /\ Cardinality(places \ {i}) = N - 1
      BY <1>1, FS_RemoveElement
    <3>2. Earlier(rows, places, i) \in SUBSET (places \ {i})
      <4>1. rows[i].day \in Int /\ i \in Int
        <5>1. i \in 1..Len(rows) /\ rows[i] \in RowT
          OBVIOUS
        <5> QED BY <5>1, LedgerAssumption DEF RowT, Days
      <4> QED BY <4>1 DEF Earlier
    <3>3. /\ IsFiniteSet(Earlier(rows, places, i))
          /\ Cardinality(Earlier(rows, places, i)) <= N - 1
      BY <3>1, <3>2, FS_Subset
    <3>4. Cardinality(Earlier(rows, places, i)) \in Nat
      BY <3>3, FS_CardinalityType
    <3> QED BY <1>1, <3>3, <3>4
  <2> QED BY <2>1
<1>3. rank \in Injection(places, 0..(N - 1))
  <2>1. ASSUME NEW i \in places, NEW j \in places, rank[i] = rank[j] PROVE i = j
    BY <2>1, RankedApart
  <2> HIDE DEF rank
  <2> QED BY <1>2, <2>1 DEF Injection, IsInjective
<1>4. rank \in Surjection(places, 0..(N - 1))
  <2> HIDE DEF rank, N
  <2>1. IsFiniteSet(0..(N-1)) /\ Cardinality(0..(N-1)) = N
    <3>1. 0 \in Int /\ N - 1 \in Int /\ N \in Nat
      BY <1>1
    <3>2. /\ IsFiniteSet(0..(N-1))
          /\ Cardinality(0..(N-1)) = IF 0 > N - 1 THEN 0 ELSE (N - 1) - 0 + 1
      BY <3>1, FS_Interval
    <3> QED BY <3>1, <3>2
  <2>2. Cardinality(places) = Cardinality(0..(N-1))
    BY <2>1 DEF N
  <2> QED BY <1>3, <2>1, <2>2, FS_Injection
<1>5. ASSUME NEW k \in 1..N
      PROVE  rows[Nth(rows, places, k)] \in RowT
  <2>1. \E i \in places : rank[i] = k - 1
    <3>1. k - 1 \in 0..(N-1)
      BY <1>1
    <3> HIDE DEF rank
    <3> QED BY <1>4, <3>1 DEF Surjection
  <2>2. \E i \in places : Cardinality(Earlier(rows, places, i)) = k - 1
    BY <2>1
  <2>3. Nth(rows, places, k) \in places
    BY <2>2 DEF Nth
  <2> QED BY <2>3
<1> QED BY <1>1, <1>5, ByDayIs

\* pos takes the places in the order of their days, 1, .., N.
InOrder(rows, places, N, pos) ==
  /\ rows \in Seq(RowT) /\ places \in SUBSET (DOMAIN rows) /\ N \in Nat
  /\ pos \in [1..N -> places]
  /\ \A p \in places : \E k \in 1..N : pos[k] = p
  /\ \A k \in 1..N : rows[pos[k]].day = k

\* Places taken in the order of their days are where ByDay puts them.
LEMMA ByDayPlaced ==
  ASSUME NEW rows, NEW places, NEW N, NEW pos, InOrder(rows, places, N, pos)
  PROVE  ByDay(rows, places) = [k \in 1..N |-> rows[pos[k]]]
<1> USE DEF InOrder
<1>1. ASSUME NEW m \in 0..N
      PROVE Cardinality({p \in places : rows[p].day \in 1..m}) = m
  <2> DEFINE P == {p \in places : rows[p].day \in 1..m}
             f == [k \in 1..m |-> pos[k]]
  <2>1. \A k \in 1..m : k \in 1..N /\ pos[k] \in P
    OBVIOUS
  <2>2. f \in Bijection(1..m, P)
    <3>1. f \in [1..m -> P]
      BY <2>1
    <3>2. \A j, k \in 1..m : f[j] = f[k] => j = k
      <4> SUFFICES ASSUME NEW j \in 1..m, NEW k \in 1..m, f[j] = f[k] PROVE j = k
        OBVIOUS
      <4>1. rows[pos[j]].day = j /\ rows[pos[k]].day = k
        BY <2>1
      <4> QED BY <4>1
    <3>3. \A p \in P : \E k \in 1..m : f[k] = p
      <4> SUFFICES ASSUME NEW p \in P PROVE \E k \in 1..m : f[k] = p
        OBVIOUS
      <4>1. PICK k \in 1..N : pos[k] = p
        OBVIOUS
      <4>2. k \in 1..m
        BY <4>1
      <4> QED BY <4>1, <4>2
    <3> HIDE DEF f, P
    <3> QED BY <3>1, <3>2, <3>3 DEF Bijection, Injection, Surjection, IsInjective
  <2> HIDE DEF P, f
  <2>3. IsFiniteSet(1..m) /\ Cardinality(1..m) = m
    BY FS_Interval
  <2>4. ExistsBijection(1..m, P)
    BY <2>2 DEF ExistsBijection
  <2>5. Cardinality(P) = m
    BY <2>3, <2>4, FS_Bijection
  <2> QED BY <2>5 DEF P
<1>2. ASSUME NEW k \in 1..N PROVE Cardinality(Earlier(rows, places, pos[k])) = k - 1
  <2>1. Earlier(rows, places, pos[k]) = {p \in places : rows[p].day \in 1..(k-1)}
    <3>1. ASSUME NEW p \in places
          PROVE p \in Earlier(rows, places, pos[k]) <=> rows[p].day \in 1..(k-1)
      <4>1. PICK j \in 1..N : pos[j] = p
        OBVIOUS
      <4>2. rows[p].day = j /\ rows[pos[k]].day = k
        BY <4>1
      <4>3. p = pos[k] \/ j # k
        BY <4>1
      <4>4. p \in Int
        OBVIOUS
      <4> QED BY <4>2, <4>3, <4>4 DEF Earlier
    <3> QED BY <3>1 DEF Earlier
  <2> QED BY <1>1, <2>1
<1>3. Cardinality(places) = N
  <2>1. ASSUME NEW p \in places PROVE rows[p].day \in 1..N
    <3>1. PICK k \in 1..N : pos[k] = p
      OBVIOUS
    <3> QED BY <3>1
  <2>2. places = {p \in places : rows[p].day \in 1..N}
    BY <2>1
  <2>3. N \in 0..N
    OBVIOUS
  <2>4. Cardinality({p \in places : rows[p].day \in 1..N}) = N
    BY <1>1, <2>3
  <2> QED BY <2>2, <2>4
<1>4. ASSUME NEW k \in 1..N
      PROVE Nth(rows, places, k) = pos[k]
  <2> DEFINE c == Nth(rows, places, k)
  <2>1. c \in places /\ Cardinality(Earlier(rows, places, c)) = k - 1
    BY <1>2 DEF Nth
  <2> HIDE DEF c
  <2>2. PICK j \in 1..N : pos[j] = c
    BY <2>1
  <2>3. j - 1 = k - 1
    BY <1>2, <2>1, <2>2
  <2> QED BY <2>2, <2>3 DEF c
<1> QED BY <1>3, <1>4, ByDayIs

\* A tab that holds day 1, .., day n, once each and in order.
HasDays(tab, n) ==
  n \in 0..MaxDay /\ tab \in [1..n -> RowT] /\ \A i \in 1..n : tab[i].day = i

LEMMA Concatenated ==
  ASSUME NEW S, NEW s \in Seq(S), NEW t \in Seq(S)
  PROVE  /\ s \o t \in Seq(S) /\ DOMAIN (s \o t) = 1..(Len(s) + Len(t))
         /\ \A i \in 1..Len(s) : (s \o t)[i] = s[i]
         /\ \A i \in (Len(s) + 1)..(Len(s) + Len(t)) : (s \o t)[i] = t[i - Len(s)]
OBVIOUS

\* A splice writes well-formed rows.
LEMMA SpliceType ==
  ASSUME NEW old \in Seq(RowT), NEW new \in Seq(RowT), NEW from, NEW to
  PROVE  SpliceRows(old, new, from, to) \in Seq(RowT)
<1> DEFINE all == old \o new
           places == {i \in DOMAIN all : i > Len(old) \/ all[i].day \notin from..to}
<1>1. all \in Seq(RowT) /\ places \in SUBSET (DOMAIN all)
  OBVIOUS
<1> HIDE DEF all, places
<1>2. /\ ByDay(all, places) \in [1..Cardinality(places) -> RowT]
      /\ Cardinality(places) \in Nat
  BY <1>1, ByDayType
<1>3. ByDay(all, places) \in Seq(RowT)
  BY <1>2
<1> QED BY <1>3 DEF SpliceRows, all, places

\* The rows of the days of a window.
IsWindow(rows, from, to) ==
  /\ rows \in [1..(to - from + 1) -> RowT]
  /\ \A i \in 1..(to - from + 1) : rows[i].day = from + i - 1

\* A splice over a window that the tab's days reach puts the new rows in the
\* window's places and leaves the days before it alone.
LEMMA SpliceCorrects ==
  ASSUME NEW n, NEW old, HasDays(old, n), NEW to \in 0..MaxDay, NEW from \in 1..to,
         from - 1 <= n, n <= to, NEW new, IsWindow(new, from, to)
  PROVE  SpliceRows(old, new, from, to) =
           [k \in 1..to |-> IF k < from THEN old[k] ELSE new[k - from + 1]]
<1> USE DEF IsWindow
<1> DEFINE m == to - from + 1
           all == old \o new
           places == {i \in DOMAIN all : i > Len(old) \/ all[i].day \notin from..to}
           At(k) == IF k < from THEN k ELSE n + (k - from + 1)
           pos == [k \in 1..to |-> At(k)]
<1>1. /\ MaxDay \in Nat /\ n \in Nat /\ to \in Nat /\ from \in Nat /\ m \in Nat
      /\ old \in Seq(RowT) /\ Len(old) = n /\ \A i \in 1..n : old[i].day = i
      /\ new \in Seq(RowT) /\ Len(new) = m
  <2>1. MaxDay \in Nat
    BY LedgerAssumption
  <2>2. n \in Nat /\ to \in Nat /\ from \in Nat /\ m \in Nat
    BY <2>1 DEF HasDays
  <2>3. old \in Seq(RowT) /\ Len(old) = n
    BY <2>2 DEF HasDays
  <2>4. new \in Seq(RowT) /\ Len(new) = m
    <3>1. new \in [1..m -> RowT]
      OBVIOUS
    <3> HIDE DEF m
    <3> QED BY <2>2, <3>1
  <2> QED BY <2>1, <2>2, <2>3, <2>4 DEF HasDays
<1>2. /\ all \in Seq(RowT) /\ DOMAIN all = 1..(n + m)
      /\ \A i \in 1..n : all[i] = old[i]
      /\ \A i \in (n + 1)..(n + m) : all[i] = new[i - n]
  <2> HIDE DEF m
  <2>1. /\ all \in Seq(RowT) /\ DOMAIN all = 1..(Len(old) + Len(new))
        /\ \A i \in 1..Len(old) : all[i] = old[i]
        /\ \A i \in (Len(old) + 1)..(Len(old) + Len(new)) : all[i] = new[i - Len(old)]
    BY <1>1, Concatenated
  <2> QED BY <1>1, <2>1
<1>3. ASSUME NEW i \in 1..(n + m)
      PROVE  i \in places <=> i > n \/ i < from
  <2>1. CASE i > n
    BY <2>1, <1>1, <1>2
  <2>2. CASE i <= n
    <3>1. all[i].day = i
      BY <2>2, <1>1, <1>2
    <3> HIDE DEF all, m
    <3> QED BY <3>1, <2>2, <1>1, <1>2
  <2> HIDE DEF places, m, all
  <2> QED BY <2>1, <2>2, <1>1
<1>4. places \in SUBSET (DOMAIN all)
  OBVIOUS
<1>5. ASSUME NEW k \in 1..to PROVE At(k) \in places
  <2>1. At(k) \in 1..(n + m) /\ (At(k) > n \/ At(k) < from)
    BY <1>1
  <2> HIDE DEF At, places, m
  <2> QED BY <2>1, <1>3
<1>6. ASSUME NEW p \in places PROVE \E k \in 1..to : At(k) = p
  <2>1. p \in 1..(n + m) /\ (p > n \/ p < from)
    BY <1>2, <1>3, <1>4
  <2>2. CASE p < from
    <3>1. p \in 1..to /\ At(p) = p
      BY <2>1, <2>2, <1>1
    <3> HIDE DEF At
    <3> QED BY <3>1
  <2>3. CASE p > n /\ ~(p < from)
    <3>1. p - n + from - 1 \in 1..to /\ ~(p - n + from - 1 < from)
      BY <2>1, <2>3, <1>1
    <3>2. At(p - n + from - 1) = p
      BY <3>1, <2>1, <1>1
    <3> QED BY <3>1, <3>2
  <2> QED BY <2>1, <2>2, <2>3
<1>7. ASSUME NEW k \in 1..to
      PROVE  /\ all[At(k)] = IF k < from THEN old[k] ELSE new[k - from + 1]
             /\ all[At(k)].day = k
  <2>1. CASE k < from
    <3>1. k \in 1..n /\ At(k) = k
      BY <2>1, <1>1
    <3> HIDE DEF all, At
    <3> QED BY <3>1, <2>1, <1>1, <1>2
  <2>2. CASE ~(k < from)
    <3>1. At(k) \in (n + 1)..(n + m) /\ At(k) - n = k - from + 1 /\ k - from + 1 \in 1..m
      BY <2>2, <1>1
    <3>2. new[k - from + 1].day = k
      BY <3>1, <1>1
    <3>3. all[At(k)] = new[k - from + 1]
      <4> HIDE DEF all, At, m
      <4> QED BY <3>1, <1>2
    <3> HIDE DEF all, At
    <3> QED BY <3>2, <3>3, <2>2
  <2> QED BY <2>1, <2>2
<1>8. ByDay(all, places) = [k \in 1..to |-> all[At(k)]]
  <2>1. pos \in [1..to -> places]
    BY <1>5
  <2>2. \A p \in places : \E k \in 1..to : pos[k] = p
    BY <1>6
  <2>3. \A k \in 1..to : all[pos[k]].day = k
    BY <1>7
  <2>4. \A k \in 1..to : pos[k] = At(k)
    OBVIOUS
  <2> HIDE DEF pos, all, places, At
  <2>5. ByDay(all, places) = [k \in 1..to |-> all[pos[k]]]
    <3>1. to \in Nat /\ all \in Seq(RowT)
      BY <1>1, <1>2
    <3>2. InOrder(all, places, to, pos)
      BY <1>4, <2>1, <2>2, <2>3, <3>1 DEF InOrder
    <3> QED BY <3>2, ByDayPlaced
  <2> QED BY <2>4, <2>5
<1>9. ByDay(all, places) = [k \in 1..to |-> IF k < from THEN old[k] ELSE new[k - from + 1]]
  <2> HIDE DEF all, places, At
  <2> QED BY <1>7, <1>8
<1>10. SpliceRows(old, new, from, to) = ByDay(all, places)
  BY DEF SpliceRows
<1> HIDE DEF all, places
<1> QED BY <1>9, <1>10

\* The sum of a tab is the last of the sums of its prefixes.
LEMMA SumOfPrefixes ==
  ASSUME NEW rows \in Seq(RowT)
  PROVE  \E f \in [0..Len(rows) -> Int] :
           /\ f = [n \in 0..Len(rows) |-> IF n = 0 THEN 0 ELSE f[n - 1] + rows[n].accrued]
           /\ Sum(rows) = f[Len(rows)]
<1> DEFINE N == Len(rows)
           step == [i \in 1..N |-> [x \in Int |-> x + rows[i].accrued]]
           F == CHOOSE f : f = [n \in 0..N |-> IF n = 0 THEN 0 ELSE f[n - 1] + rows[n].accrued]
<1>1. N \in Nat /\ \A i \in 1..N : rows[i].accrued \in Int
  <2>1. \A i \in 1..N : rows[i] \in RowT
    OBVIOUS
  <2> QED BY <2>1 DEF RowT
<1>2. step \in [1..N -> [Int -> Int]]
  BY <1>1
<1>3. \A i \in 1..N : \A x \in Int : step[i][x] = x + rows[i].accrued
  OBVIOUS
<1>4. PICK f \in [0..N -> Int] :
        \A i \in 0..N : f[i] = IF i = 0 THEN 0 ELSE step[i][f[i - 1]]
  <2> HIDE DEF step, N
  <2>1. 0 \in Int
    OBVIOUS
  <2>2. IsRecursion(step, N, Int)
    BY <1>1, <1>2 DEF IsRecursion
  <2>3. \E f : f \in [0..N -> Int] /\ Unfolds(f, step, N, 0)
    BY <2>1, <2>2, PrefixRecursion
  <2> QED BY <2>3 DEF Unfolds
<1>5. f = [n \in 0..N |-> IF n = 0 THEN 0 ELSE f[n - 1] + rows[n].accrued]
  <2>1. ASSUME NEW n \in 0..N, n # 0 PROVE step[n][f[n - 1]] = f[n - 1] + rows[n].accrued
    <3>1. n \in 1..N /\ f[n - 1] \in Int
      BY <2>1
    <3> HIDE DEF step
    <3> QED BY <1>3, <3>1
  <2> HIDE DEF step, N
  <2> QED BY <1>4, <2>1
<1>6. F = [n \in 0..N |-> IF n = 0 THEN 0 ELSE F[n - 1] + rows[n].accrued]
  <2> HIDE DEF N
  <2> QED BY <1>5
<1>7. \A i \in 0..N : F[i] = f[i]
  <2> DEFINE Same == {i \in 0..N : F[i] = f[i]}
  <2> HIDE DEF F, N
  <2>1. 0 \in Same /\ \A i \in 1..N : i - 1 \in Same => i \in Same
    BY <1>1, <1>5, <1>6
  <2>2. \A i \in 0..N : i \in Same
    <3> HIDE DEF Same
    <3> QED BY <1>1, <2>1, PrefixInduction, Zenon
  <2> QED BY <2>2
<1>8. Sum(rows) = F[N]
  BY DEF Sum
<1>9. Sum(rows) = f[N]
  <2> HIDE DEF F, N
  <2> QED BY <1>1, <1>7, <1>8
<1> HIDE DEF N
<1>10. f[N] = Sum(rows) /\ f \in [0..N -> Int]
  BY <1>9
<1> QED BY <1>5, <1>10 DEF N

LEMMA SumOfNone == Sum(<<>>) = 0
<1>1. <<>> \in Seq(RowT) /\ Len(<<>>) = 0
  OBVIOUS
<1>2. PICK f \in [0..0 -> Int] :
        /\ f = [n \in 0..0 |-> IF n = 0 THEN 0 ELSE f[n - 1] + (<<>>)[n].accrued]
        /\ Sum(<<>>) = f[0]
  BY <1>1, SumOfPrefixes
<1> QED BY <1>2

\* One day more adds what the day accrued.
LEMMA SumOfNextDay ==
  ASSUME NEW n \in Nat, NEW rows \in [1..(n + 1) -> RowT]
  PROVE  Sum(rows) = Sum([i \in 1..n |-> rows[i]]) + rows[n + 1].accrued
<1> DEFINE less == [i \in 1..n |-> rows[i]]
<1>1. /\ rows \in Seq(RowT) /\ Len(rows) = n + 1
      /\ less \in Seq(RowT) /\ Len(less) = n
      /\ \A i \in 1..n : less[i] = rows[i]
  OBVIOUS
<1> HIDE DEF less
<1>2. PICK f \in [0..(n + 1) -> Int] :
        /\ f = [k \in 0..(n + 1) |-> IF k = 0 THEN 0 ELSE f[k - 1] + rows[k].accrued]
        /\ Sum(rows) = f[n + 1]
  BY <1>1, SumOfPrefixes
<1>3. PICK g \in [0..n -> Int] :
        /\ g = [k \in 0..n |-> IF k = 0 THEN 0 ELSE g[k - 1] + less[k].accrued]
        /\ Sum(less) = g[n]
  BY <1>1, SumOfPrefixes
<1>4. \A i \in 0..n : f[i] = g[i]
  <2> DEFINE Same == {i \in 0..n : f[i] = g[i]}
  <2>1. 0 \in Same /\ \A i \in 1..n : i - 1 \in Same => i \in Same
    <3>1. f[0] = 0 /\ \A i \in 1..n : f[i] = f[i - 1] + rows[i].accrued
      <4>1. \A i \in 0..(n + 1) : f[i] = IF i = 0 THEN 0 ELSE f[i - 1] + rows[i].accrued
        BY <1>2
      <4> QED BY <4>1
    <3>2. g[0] = 0 /\ \A i \in 1..n : g[i] = g[i - 1] + less[i].accrued
      <4>1. \A i \in 0..n : g[i] = IF i = 0 THEN 0 ELSE g[i - 1] + less[i].accrued
        BY <1>3
      <4> QED BY <4>1
    <3>3. \A i \in 1..n : less[i] = rows[i]
      BY <1>1
    <3>4. 0 \in Same
      BY <3>1, <3>2
    <3>5. ASSUME NEW i \in 1..n, i - 1 \in Same PROVE i \in Same
      <4>1. f[i - 1] = g[i - 1] /\ i \in 0..n
        BY <3>5
      <4> QED BY <3>1, <3>2, <3>3, <4>1
    <3> QED BY <3>4, <3>5
  <2>2. \A i \in 0..n : i \in Same
    <3> HIDE DEF Same
    <3> QED BY <2>1, PrefixInduction, Zenon
  <2> QED BY <2>2
<1>5. f[n + 1] = f[n] + rows[n + 1].accrued
  <2>1. \A i \in 0..(n + 1) : f[i] = IF i = 0 THEN 0 ELSE f[i - 1] + rows[i].accrued
    BY <1>2
  <2> QED BY <2>1
<1>6. Sum(rows) = Sum(less) + rows[n + 1].accrued
  <2>1. f[n] = g[n]
    BY <1>4
  <2> QED BY <1>2, <1>3, <1>5, <2>1
<1> QED BY <1>6 DEF less

LEMMA UpToType ==
  ASSUME NEW tab \in Seq(RowT), NEW n \in Nat
  PROVE  UpTo(tab, n) \in Seq(RowT)
BY DEF UpTo

\* The rows up to a day that the tab reaches.
LEMMA UpToDay ==
  ASSUME NEW n, NEW tab, HasDays(tab, n), NEW c \in 0..n
  PROVE  /\ UpTo(tab, c) = [i \in 1..c |-> tab[i]]
         /\ c \in Nat /\ n \in Nat /\ Len(tab) = n /\ tab \in Seq(RowT)
<1>1. n \in Nat /\ c \in Nat /\ tab \in Seq(RowT) /\ Len(tab) = n
  BY LedgerAssumption DEF HasDays
<1>2. UpTo(tab, c) = SubSeq(tab, 1, c)
  BY <1>1 DEF UpTo
<1>3. SubSeq(tab, 1, c) = [i \in 1..c |-> tab[i]]
  BY <1>1
<1> QED BY <1>1, <1>2, <1>3

-----------------------------------------------------------------------------
\* Types, and the day in flight: for any number of overlapping runs.

\* A catch-up run works on the day after the last one it knows committed,
\* within its window, and closes that day and no other.
RunAhead(run) ==
  run.kind = "catchup" =>
    /\ run.day = run.open.day + 1
    /\ run.day <= run.target
    /\ run.pc = "commit" => run.write.then = "commit"
    /\ (run.pc # "compute" /\ run.write.then = "commit") => run.close.day = run.day

RunsAhead == \A r \in Runs : RunAhead(runs[r])

IInv == TypeOK /\ RunsAhead /\ PendingIsNextDay

\* One run changes: what is left to show is about its new value.
LEMMA OneRunChanges ==
  ASSUME IInv, NEW r \in Runs, NEW run \in Run, runs' = [runs EXCEPT ![r] = run],
         RunAhead(run)
  PROVE  runs' \in [Runs -> Run] /\ RunsAhead'
BY DEF IInv, TypeOK, RunsAhead

LEMMA NewRowsType ==
  ASSUME IInv, NEW r \in Runs
  PROVE  NewRows(r) \in Seq(RowT)
<1>1. /\ runs[r].write.rows \in Seq(RowT)
      /\ tabs[runs[r].tab] \in Seq(RowT)
  BY DEF IInv, TypeOK, Run, WriteT
<1> QED BY <1>1, SpliceType DEF NewRows

\* Ending runs keeps the invariant's part about them.
LEMMA StopRuns ==
  ASSUME IInv, NEW stopped, Stop(stopped)
  PROVE  /\ runs' \in [Runs -> Run] /\ RunsAhead'
         /\ faults' \in 0..MaxFaults /\ intact' \in BOOLEAN
         /\ top' \in [Runs -> Nat]
<1>1. runs' \in [Runs -> Run]
  BY IdleType DEF Stop, IInv, TypeOK
<1>2. RunsAhead'
  BY IdleType DEF Stop, IInv, TypeOK, RunsAhead, RunAhead
<1>3. faults' \in 0..MaxFaults
  BY LedgerAssumption DEF Stop, IInv, TypeOK
<1>4. top' \in [Runs -> Nat]
  BY DEF Stop, IInv, TypeOK
<1> QED BY <1>1, <1>2, <1>3, <1>4 DEF Stop, IInv, TypeOK

\* Taking a finished tab off a run's list.
LEMMA TabWrittenKeeps ==
  ASSUME IInv, NEW r \in Runs, runs[r].pc \in {"put", "clear"}, TabWritten(r)
  PROVE  /\ runs' \in [Runs -> Run] /\ RunsAhead'
         /\ intact' \in BOOLEAN /\ seamless' \in BOOLEAN
<1> DEFINE run == runs[r]
           Other == [run EXCEPT !.tab = "totals", !.pc = "put"]
           Both == [run EXCEPT !.pc = run.write.then]
<1>1. run \in Run /\ RunAhead(run) /\ run.pc \in {"put", "clear"}
  BY DEF IInv, TypeOK, RunsAhead
<1>2. /\ Other \in Run /\ RunAhead(Other)
      /\ Both \in Run /\ RunAhead(Both)
  <2> HIDE DEF run
  <2>1. Other \in Run /\ Both \in Run
    BY <1>1 DEF Run, Tabs, WriteT
  <2>2. RunAhead(Other)
    BY <1>1 DEF Run, RunAhead
  <2>3. RunAhead(Both)
    BY <1>1 DEF Run, RunAhead
  <2> QED BY <2>1, <2>2, <2>3
<1>3. runs' = [runs EXCEPT ![r] = IF run.tab = "ledger" THEN Other ELSE Both]
  BY DEF TabWritten
<1> HIDE DEF Other, Both
<1>4. runs' \in [Runs -> Run] /\ RunsAhead'
  BY <1>2, <1>3, OneRunChanges
<1>5. intact' \in BOOLEAN /\ seamless' \in BOOLEAN
  BY DEF TabWritten, IInv, TypeOK
<1> QED BY <1>4, <1>5

LEMMA BeginCatchUpKeeps ==
  ASSUME IInv, NEW r \in Runs, BeginCatchUp(r)
  PROVE  IInv'
<1> DEFINE cold == cursor = NoCursor
           Start == [Idle EXCEPT !.kind = "catchup", !.lost = missed,
                         !.pc = IF cold THEN "put" ELSE "compute",
                         !.day = FromDay, !.target = lastComplete,
                         !.open = IF cold THEN Genesis ELSE cursor.at,
                         !.repair = IF cold THEN NoDay ELSE cursor.pending,
                         !.write = Write("overwrite", <<>>, NoDay, "compute")]
<1>1. runs' = [runs EXCEPT ![r] = Start]
  BY DEF BeginCatchUp
<1>2. cursor = NoCursor \/ cursor \in Cursor
  BY DEF BeginCatchUp, IInv, TypeOK
<1>3. FromDay \in 0..MaxDay /\ FromDay <= lastComplete /\ lastComplete \in 0..MaxDay
  <2>1. lastComplete \in 0..MaxDay /\ MaxDay \in Nat /\ FromDay <= lastComplete
    BY LedgerAssumption DEF BeginCatchUp, IInv, TypeOK
  <2>2. FromDay \in Nat
    BY <1>2, LedgerAssumption DEF FromDay, Cursor, Boundary
  <2> QED BY <2>1, <2>2
<1>4. /\ (IF cold THEN Genesis ELSE cursor.at) \in Boundary
      /\ FromDay = (IF cold THEN Genesis ELSE cursor.at).day + 1
      /\ (IF cold THEN NoDay ELSE cursor.pending) \in 0..MaxDay
  BY <1>2, GenesisType, LedgerAssumption DEF Cursor, FromDay, NoDay
<1>5. Write("overwrite", <<>>, NoDay, "compute") \in WriteT
  BY NothingToWrite
<1>6. /\ Start \in Run
      /\ RunAhead(Start)
  <2>1. missed \in 0..MaxMissed
    BY DEF IInv, TypeOK
  <2> QED BY <1>3, <1>4, <1>5, <2>1, IdleType DEF Run, RunAhead, Write
<1> HIDE DEF Start
<1>7. runs' \in [Runs -> Run] /\ RunsAhead'
  BY <1>1, <1>6, OneRunChanges
<1> QED BY <1>7 DEF BeginCatchUp, IInv, TypeOK, PendingIsNextDay

LEMMA ComputeAndMarkKeeps ==
  ASSUME IInv, NEW r \in Runs, ComputeAndMark(r)
  PROVE  IInv'
<1> DEFINE run == runs[r]
           mode == IF run.day = run.repair THEN "splice" ELSE "append"
           Wr(close) == Write(mode, <<Row(run.open, close)>>, run.day, "commit")
           Marked(close) == [run EXCEPT !.pc = "put", !.tab = "ledger",
                                        !.close = close, !.write = Wr(close)]
<1>1. run \in Run /\ run.kind = "catchup"
  BY DEF IInv, TypeOK, ComputeAndMark
<1>2. run.day \in Days /\ run.day = run.open.day + 1 /\ run.day <= run.target
  BY <1>1, LedgerAssumption DEF IInv, RunsAhead, RunAhead, Run, Days, Boundary
<1>3. PICK ok \in BOOLEAN :
        /\ ok \/ faults < MaxFaults
        /\ faults' = IF ok THEN faults ELSE faults + 1
        /\ runs' = [runs EXCEPT ![r] = Marked(BoundaryOf(run.day, run.lost, ok))]
  BY DEF ComputeAndMark
<1> DEFINE close == BoundaryOf(run.day, run.lost, ok)
<1>4. close \in Boundary /\ close.day = run.day
  BY <1>1, BoundaryType DEF Run
<1>5. Wr(close) \in WriteT
  <2>1. Row(run.open, close) \in RowT
    BY <1>1, <1>2, <1>4, RowType DEF Run
  <2>2. <<Row(run.open, close)>> \in Seq(RowT)
    BY <2>1
  <2> QED BY <1>1, <2>2, WriteType DEF Run
<1> HIDE DEF close, Wr
<1>6. /\ Marked(close) \in Run
      /\ RunAhead(Marked(close))
  BY <1>1, <1>2, <1>4, <1>5 DEF Run, Tabs, RunAhead
<1> HIDE DEF Marked
<1>7. runs' \in [Runs -> Run] /\ RunsAhead'
  BY <1>3, <1>6, OneRunChanges DEF close
<1>8. /\ cursor' = [at |-> run.open, pending |-> run.day]
      /\ cursor' \in Cursor
  BY <1>1, <1>2 DEF ComputeAndMark, Run, Cursor, Days
<1>9. PendingIsNextDay'
  BY <1>2, <1>8 DEF PendingIsNextDay
<1>10. faults' \in 0..MaxFaults
  BY <1>3, LedgerAssumption DEF IInv, TypeOK
<1> QED BY <1>7, <1>8, <1>9, <1>10 DEF ComputeAndMark, IInv, TypeOK

LEMMA CommittedType ==
  ASSUME NEW run \in Run
  PROVE  Committed(run) \in Cursor /\ Committed(run).pending = NoDay
BY LedgerAssumption DEF Run, Committed, Cursor, NoDay

LEMMA CommitDayKeeps ==
  ASSUME IInv, NEW r \in Runs, CommitDay(r)
  PROVE  IInv'
<1> DEFINE run == runs[r]
           Continued == [run EXCEPT !.pc = "compute", !.day = run.day + 1, !.open = run.close]
<1>1. run \in Run /\ run.kind = "catchup" /\ run.close.day = run.day
  BY DEF IInv, TypeOK, CommitDay, RunsAhead, RunAhead
<1>2. cursor' \in Cursor /\ PendingIsNextDay'
  BY <1>1, CommittedType DEF CommitDay, PendingIsNextDay
<1>3. runs' \in [Runs -> Run] /\ RunsAhead'
  <2>1. CASE run.day < run.target
    <3>1. runs' = [runs EXCEPT ![r] = Continued]
      BY <2>1 DEF CommitDay
    <3>2. run.day + 1 \in 0..MaxDay /\ run.day + 1 <= run.target
      BY <1>1, <2>1, LedgerAssumption DEF Run
    <3> HIDE DEF run
    <3>3. Continued \in Run /\ RunAhead(Continued)
      BY <1>1, <3>2 DEF Run, RunAhead
    <3> HIDE DEF Continued
    <3> QED BY <3>1, <3>3, OneRunChanges
  <2>2. CASE ~(run.day < run.target)
    <3>1. runs' = [runs EXCEPT ![r] = Idle]
      BY <2>2 DEF CommitDay
    <3> QED BY <3>1, IdleType, OneRunChanges DEF RunAhead
  <2> QED BY <2>1, <2>2
<1>4. service' \in {"down", "starting", "ticking"} /\ seamless' \in BOOLEAN
  BY DEF CommitDay, IInv, TypeOK
<1> QED BY <1>2, <1>3, <1>4 DEF CommitDay, IInv, TypeOK

LEMMA BeginBackfillKeeps ==
  ASSUME IInv, NEW r \in Runs, NEW first \in 1..lastComplete,
         NEW failed, IsFiniteSet(failed), BeginBackfill(r, first, failed)
  PROVE  IInv'
<1> DEFINE At(day) == BoundaryOf(day, missed, day \notin failed)
           n == lastComplete - first + 1
           rows == [i \in 1..n |-> Row(At(first + i - 2), At(first + i - 1))]
           mode == IF first > 1 THEN "splice" ELSE "overwrite"
           Filling == [Idle EXCEPT !.kind = "backfill", !.pc = "put", !.day = lastComplete,
                         !.close = At(lastComplete), !.write = Write(mode, rows, first, "commit")]
<1>1. /\ lastComplete \in 0..MaxDay /\ MaxDay \in Nat /\ first \in 0..MaxDay
      /\ n \in Nat
  BY LedgerAssumption DEF IInv, TypeOK
<1>2. ASSUME NEW day \in 0..MaxDay PROVE At(day) \in Boundary /\ At(day).day = day
  <2>1. missed \in 0..MaxMissed
    BY DEF IInv, TypeOK
  <2> QED BY <2>1, BoundaryType
<1>3. rows \in Seq(RowT)
  <2>1. ASSUME NEW i \in 1..n PROVE rows[i] \in RowT
    <3>1. first + i - 2 \in 0..MaxDay /\ first + i - 1 \in 1..MaxDay
      BY <1>1
    <3>2. At(first + i - 2) \in Boundary /\ At(first + i - 1) \in Boundary
          /\ At(first + i - 1).day \in Days
      BY <1>2, <3>1, <1>1 DEF Days
    <3>3. Row(At(first + i - 2), At(first + i - 1)) \in RowT
      BY <3>2, RowType
    <3> HIDE DEF At
    <3> QED BY <3>3
  <2> HIDE DEF n
  <2>2. rows \in [1..n -> RowT]
    BY <2>1
  <2> HIDE DEF rows
  <2> QED BY <2>2, <1>1
<1>4. At(lastComplete) \in Boundary
  BY <1>1, <1>2
<1>5. Write(mode, rows, first, "commit") \in WriteT
  <2> HIDE DEF rows
  <2> QED BY <1>1, <1>3, WriteType
<1>6. runs' = [runs EXCEPT ![r] = Filling]
  BY DEF BeginBackfill
<1> HIDE DEF At, rows, mode, n
<1>7. Filling \in Run /\ RunAhead(Filling)
  <2>1. missed \in 0..MaxMissed
    BY DEF IInv, TypeOK
  <2> QED BY <1>1, <1>4, <1>5, <2>1, IdleType DEF Run, RunAhead
<1> HIDE DEF Filling
<1>8. runs' \in [Runs -> Run] /\ RunsAhead'
  BY <1>6, <1>7, OneRunChanges
<1>9. faults' \in 0..MaxFaults
  <2>1. Cardinality(failed) \in Nat
    BY FS_CardinalityType
  <2>2. faults' = faults + Cardinality(failed) /\ faults + Cardinality(failed) <= MaxFaults
    BY DEF BeginBackfill
  <2>3. faults \in Nat /\ MaxFaults \in Nat
    BY LedgerAssumption DEF IInv, TypeOK
  <2> QED BY <2>1, <2>2, <2>3
<1>10. backfills' \in 0..MaxBackfills
  BY LedgerAssumption DEF BeginBackfill, IInv, TypeOK
<1> QED BY <1>8, <1>9, <1>10 DEF BeginBackfill, IInv, TypeOK, PendingIsNextDay

\* Steps that leave the cursor alone and the runs well formed.
LEMMA CursorUntouched ==
  ASSUME IInv, UNCHANGED cursor
  PROVE  PendingIsNextDay' /\ cursor' \in Cursor \cup {NoCursor, Torn}
BY DEF IInv, TypeOK, PendingIsNextDay

LEMMA RunStepKeeps ==
  ASSUME IInv, NEW r \in Runs, RunStep(r)
  PROVE  IInv'
<1>1. CASE BeginCatchUp(r)
  BY <1>1, BeginCatchUpKeeps
<1>2. CASE NothingToDo(r)
  BY <1>2 DEF NothingToDo, IInv, TypeOK, RunsAhead, PendingIsNextDay
<1>3. CASE CursorUnreadable(r)
  BY <1>3 DEF CursorUnreadable, IInv, TypeOK, RunsAhead, PendingIsNextDay
<1>4. CASE ComputeAndMark(r)
  BY <1>4, ComputeAndMarkKeeps
<1>5. CASE Append_(r)
  <2>1. runs[r].write.rows \in Seq(RowT) /\ runs[r].tab \in Tabs
    BY DEF IInv, TypeOK, Run, WriteT
  <2>2. tabs' \in [Tabs -> Seq(RowT)]
    <3>1. tabs[runs[r].tab] \o runs[r].write.rows \in Seq(RowT)
      BY <2>1 DEF IInv, TypeOK
    <3> QED BY <1>5, <2>1, <3>1 DEF Append_, IInv, TypeOK
  <2> QED BY <1>5, <2>2, TabWrittenKeeps, CursorUntouched DEF Append_, IInv, TypeOK
<1>6. CASE Put(r)
  <2> DEFINE run == runs[r]
             Cut == [run EXCEPT !.pc = "clear"]
  <2>1. run \in Run /\ RunAhead(run) /\ run.pc = "put"
    BY <1>6 DEF Put, IInv, TypeOK, RunsAhead
  <2>2. runs' = [runs EXCEPT ![r] = Cut]
    BY <1>6 DEF Put
  <2> HIDE DEF run
  <2>3. Cut \in Run /\ RunAhead(Cut)
    BY <2>1 DEF Run, RunAhead
  <2> HIDE DEF Cut
  <2>4. runs' \in [Runs -> Run] /\ RunsAhead'
    BY <2>2, <2>3, OneRunChanges
  <2>5. tabs' \in [Tabs -> Seq(RowT)] /\ top' \in [Runs -> Nat]
    <3> DEFINE old == tabs[runs[r].tab]
               new == NewRows(r)
    <3>1. runs[r].tab \in Tabs /\ old \in Seq(RowT) /\ new \in Seq(RowT)
      BY NewRowsType DEF IInv, TypeOK, Run
    <3>2. /\ tabs' = [tabs EXCEPT ![runs[r].tab] = new \o SubSeq(old, Len(new) + 1, Len(old))]
          /\ top' = [top EXCEPT ![r] = Len(new)]
      BY <1>6 DEF Put
    <3> HIDE DEF old, new
    <3>3. new \o SubSeq(old, Len(new) + 1, Len(old)) \in Seq(RowT) /\ Len(new) \in Nat
      BY <3>1
    <3> QED BY <3>1, <3>2, <3>3 DEF IInv, TypeOK
  <2> QED BY <1>6, <2>4, <2>5, CursorUntouched DEF Put, IInv, TypeOK
<1>7. CASE ClearTail(r)
  <2>1. runs[r].tab \in Tabs /\ UpTo(tabs[runs[r].tab], top[r]) \in Seq(RowT)
    BY UpToType DEF IInv, TypeOK, Run
  <2>2. tabs' \in [Tabs -> Seq(RowT)] /\ top' \in [Runs -> Nat]
    BY <1>7, <2>1 DEF ClearTail, IInv, TypeOK
  <2> QED BY <1>7, <2>2, TabWrittenKeeps, CursorUntouched DEF ClearTail, IInv, TypeOK
<1>8. CASE CommitDay(r)
  BY <1>8, CommitDayKeeps
<1>9. CASE CommitBackfill(r)
  <2>1. runs[r] \in Run
    BY DEF IInv, TypeOK
  <2>2. cursor' \in Cursor /\ PendingIsNextDay'
    BY <1>9, <2>1, CommittedType DEF CommitBackfill, PendingIsNextDay
  <2>3. runs' \in [Runs -> Run] /\ RunsAhead'
    BY <1>9, IdleType, OneRunChanges DEF CommitBackfill, RunAhead
  <2>4. intact' \in BOOLEAN /\ seamless' \in BOOLEAN
    BY <1>9 DEF CommitBackfill, IInv, TypeOK
  <2> QED BY <1>9, <2>2, <2>3, <2>4 DEF CommitBackfill, IInv, TypeOK
<1> QED BY <1>1, <1>2, <1>3, <1>4, <1>5, <1>6, <1>7, <1>8, <1>9 DEF RunStep

LEMMA NextKeeps == IInv /\ [Next]_vars => IInv'
<1> SUFFICES ASSUME IInv, [Next]_vars PROVE IInv'
  OBVIOUS
<1>1. CASE NewBlock
  <2>1. PICK days \in 0..(MaxDay - lastComplete), in \in 0..(SlotsPerDay - 1) :
          /\ SlotsPerDay * days + in > slot
          /\ lastComplete' = lastComplete + days
          /\ slot' = in
          /\ missed' = missed + (SlotsPerDay * days + in - slot - 1)
          /\ missed' <= MaxMissed
    BY <1>1 DEF NewBlock
  <2>2. /\ lastComplete \in 0..MaxDay /\ slot \in 0..(SlotsPerDay - 1) /\ missed \in 0..MaxMissed
        /\ MaxDay \in Nat /\ SlotsPerDay \in Nat /\ MaxMissed \in Nat
    BY LedgerAssumption DEF IInv, TypeOK
  <2>3. lastComplete' \in 0..MaxDay
    BY <2>1, <2>2
  <2>4. missed' \in 0..MaxMissed
    <3> DEFINE x == SlotsPerDay * days
    <3>1. x \in Int /\ x + in > slot /\ missed' = missed + (x + in - slot - 1)
      BY <2>1, <2>2
    <3> HIDE DEF x
    <3> QED BY <2>1, <2>2, <3>1
  <2> QED BY <1>1, <2>1, <2>3, <2>4 DEF NewBlock, IInv, TypeOK, RunsAhead, PendingIsNextDay
<1>2. CASE StartService
  BY <1>2 DEF StartService, IInv, TypeOK, RunsAhead, PendingIsNextDay
<1>3. CASE Backfill
  <2>1. PICK r \in Runs, first \in 1..lastComplete :
          \E failed \in SUBSET ((IF first = 1 THEN 1 ELSE first - 1)..lastComplete) :
            BeginBackfill(r, first, failed)
    BY <1>3 DEF Backfill
  <2>2. PICK failed \in SUBSET ((IF first = 1 THEN 1 ELSE first - 1)..lastComplete) :
          BeginBackfill(r, first, failed)
    BY <2>1
  <2>3. IsFiniteSet(failed)
    <3>1. (IF first = 1 THEN 1 ELSE first - 1) \in Int /\ lastComplete \in Int
      BY DEF IInv, TypeOK
    <3>2. IsFiniteSet((IF first = 1 THEN 1 ELSE first - 1)..lastComplete)
      BY <3>1, FS_Interval
    <3> QED BY <3>2, FS_Subset
  <2> QED BY <2>2, <2>3, BeginBackfillKeeps
<1>4. CASE Die
  <2>1. Stop(Runs)
    BY <1>4 DEF Die
  <2> QED BY <1>4, <2>1, StopRuns, CursorUntouched DEF Die, IInv, TypeOK
<1>5. CASE DieSavingCursor
  <2>1. Stop(Runs)
    BY <1>5 DEF DieSavingCursor
  <2>2. PendingIsNextDay'
    BY <1>5, LedgerAssumption DEF DieSavingCursor, PendingIsNextDay
  <2> QED BY <1>5, <2>1, <2>2, StopRuns DEF DieSavingCursor, IInv, TypeOK
<1>6. ASSUME NEW r \in Runs, RunStep(r) PROVE IInv'
  BY <1>6, RunStepKeeps
<1>7. ASSUME NEW r \in Runs, RunFails(r) PROVE IInv'
  <2>1. Stop({r})
    BY <1>7 DEF RunFails
  <2> QED BY <1>7, <2>1, StopRuns, CursorUntouched DEF RunFails, IInv, TypeOK
<1>8. CASE UNCHANGED vars
  BY <1>8 DEF vars, IInv, TypeOK, RunsAhead, PendingIsNextDay
<1> QED BY <1>1, <1>2, <1>3, <1>4, <1>5, <1>6, <1>7, <1>8 DEF Next

LEMMA InitHolds == Init => IInv
<1> SUFFICES ASSUME Init PROVE IInv
  OBVIOUS
<1>1. TypeOK
  <2>1. /\ lastComplete \in 0..MaxDay /\ slot \in 0..(SlotsPerDay - 1) /\ missed \in 0..MaxMissed
        /\ faults \in 0..MaxFaults /\ backfills \in 0..MaxBackfills
    BY LedgerAssumption DEF Init
  <2>2. runs \in [Runs -> Run]
    BY IdleType DEF Init
  <2>3. tabs \in [Tabs -> Seq(RowT)]
    <3>1. <<>> \in Seq(RowT)
      OBVIOUS
    <3> QED BY <3>1 DEF Init
  <2>4. top \in [Runs -> Nat]
    BY DEF Init
  <2> QED BY <2>1, <2>2, <2>3, <2>4 DEF Init, TypeOK
<1>2. RunsAhead
  BY IdleType DEF Init, RunsAhead, RunAhead
<1>3. PendingIsNextDay
  BY LedgerAssumption DEF Init, PendingIsNextDay
<1> QED BY <1>1, <1>2, <1>3 DEF IInv

\* The cursor file and the runs in flight stay well formed: in particular no
\* run ever works on a day outside the ledger or on a block beyond the chain.
THEOREM LedgerTypeCorrect == Spec => []TypeOK
<1>1. IInv => TypeOK
  BY DEF IInv
<1> QED BY <1>1, InitHolds, NextKeeps, PTL DEF Spec

\* Whatever fails and however many runs overlap, the mark in the cursor names
\* the day after the last committed one: a restart repairs that day, and never
\* splices over a committed one.
THEOREM MarkIsNextDay == Spec => []PendingIsNextDay
<1>1. IInv => PendingIsNextDay
  BY DEF IInv
<1> QED BY <1>1, InitHolds, NextKeeps, PTL DEF Spec

-----------------------------------------------------------------------------
\* What the rows are is stated for one run at a time: no run outlasts the
\* timer's interval, and the operator stops the service before a backfill.  The
\* code enforces neither, and two runs in flight together break each of the
\* theorems below that assume it.
OneRun == \A r, s \in Runs : r = s

\* Has the run begun, and finished, with this tab?
Touched(run, t) ==
  \/ run.pc = "commit"
  \/ run.tab = t /\ run.pc = "clear"
  \/ run.tab = "totals" /\ t = "ledger"

Resetting(run) == run.kind = "catchup" /\ run.write.then = "compute" /\ run.pc \in {"put", "clear"}
Computing(run) == run.kind = "catchup" /\ run.pc = "compute"
Writing(run) == run.kind = "catchup" /\ run.write.then = "commit" /\ run.pc \in {"put", "clear", "commit"}
Filling(run) == run.kind = "backfill"

\* A cold start: no cursor, and nothing to put in either tab.
ResettingSound(r) ==
  LET run == runs[r] IN
  /\ cursor = NoCursor /\ run.day = 1 /\ run.open = Genesis /\ run.repair = NoDay
  /\ run.write.mode = "overwrite" /\ run.write.rows = <<>>
  /\ run.pc = "clear" => top[r] = 0
  /\ run.tab = "totals" => tabs["ledger"] = <<>>

\* Between two days, or before the first one.
ComputingSound(r) ==
  LET run == runs[r] IN
  \/ /\ cursor = NoCursor /\ run.open = Genesis /\ run.day = 1 /\ run.repair = NoDay
     /\ \A t \in Tabs : tabs[t] = <<>>
  \/ /\ cursor = [at |-> run.open, pending |-> IF run.repair = run.day THEN run.day ELSE NoDay]
     /\ run.repair \in 0..run.day

\* A day is marked, and goes to both tabs.
WritingSound(r) ==
  LET run == runs[r] IN
  /\ cursor = [at |-> run.open, pending |-> run.day]
  /\ run.write.rows = <<Row(run.open, run.close)>> /\ run.write.from = run.day
  /\ run.repair \in 0..run.day
  /\ run.write.mode \in {"append", "splice"}
  /\ run.write.mode = "append" => run.pc # "clear"
  /\ run.pc = "commit" => run.tab = "totals"
  /\ intact =>
       /\ run.pc = "clear" => top[r] = run.day
       /\ \A t \in Tabs :
            IF Touched(run, t)
              THEN HasDays(tabs[t], run.day) /\ tabs[t][run.day] = Row(run.open, run.close)
              ELSE \/ HasDays(tabs[t], run.day - 1)
                   \/ HasDays(tabs[t], run.day) /\ run.write.mode = "splice"

\* The rows a backfill writes are its window's.
FillingSound(r) ==
  LET run == runs[r]
      first == run.write.from
      rows == run.write.rows
  IN
  /\ run.pc \in {"put", "clear", "commit"} /\ run.write.then = "commit"
  /\ run.pc = "commit" => run.tab = "totals"
  /\ run.day \in 1..lastComplete /\ run.close.day = run.day /\ first \in 1..run.day
  /\ IsWindow(rows, first, run.day)
  /\ run.write.mode = IF first > 1 THEN "splice" ELSE "overwrite"
  /\ first = 1 =>
       /\ Sum(rows) = run.close.bal + ClaimedBy[run.close.block]
       /\ run.pc = "clear" => top[r] = run.day
       /\ \A t \in Tabs : Touched(run, t) =>
            IF run.tab = t /\ run.pc = "clear" THEN UpTo(tabs[t], run.day) = rows
                                               ELSE tabs[t] = rows
  /\ intact =>
       /\ run.pc = "clear" => top[r] = run.day
       /\ \A t \in Tabs :
            IF Touched(run, t) THEN HasDays(tabs[t], run.day)
              ELSE \E n \in (IF first = 1 THEN 0 ELSE first)..run.day : HasDays(tabs[t], n)

RunSound(r) ==
  /\ runs[r].kind = "catchup" =>
        /\ runs[r].target <= lastComplete
        /\ runs[r].pc \in {"put", "clear", "commit", "compute"}
  /\ Resetting(runs[r]) => ResettingSound(r)
  /\ Computing(runs[r]) => ComputingSound(r)
  /\ Writing(runs[r]) => WritingSound(r)
  /\ Filling(runs[r]) => FillingSound(r)

Halfway == \E r \in Runs : HalfWritten(runs[r])

\* An intact ledger has the first days, up to some complete day.
LedgerDays == intact => \A t \in Tabs : \E n \in 0..lastComplete : HasDays(tabs[t], n)

\* Before there is a cursor there is nothing, unless a backfill is half-way.
NothingBeforeCursor ==
  (intact /\ ~Halfway /\ cursor = NoCursor) => \A t \in Tabs : tabs[t] = <<>>

\* What the cursor vouches for is in both tabs, and at most the marked day more.
CursorDays ==
  (intact /\ ~Halfway /\ cursor \in Cursor) =>
    \A t \in Tabs : \/ HasDays(tabs[t], cursor.at.day)
                    \/ HasDays(tabs[t], cursor.at.day + 1) /\ cursor.pending = cursor.at.day + 1

\* NoDrift, and also while a backfill has computed but not yet written.
CursorSums ==
  (intact /\ ~Halfway /\ seamless /\ cursor \in Cursor) =>
    \A t \in Tabs :
      Sum(UpTo(tabs[t], cursor.at.day)) = cursor.at.bal + ClaimedBy[cursor.at.block]

RowsInv ==
  /\ LedgerDays /\ NothingBeforeCursor /\ CursorDays /\ CursorSums
  /\ \A r \in Runs : RunSound(r)

LInv == IInv /\ RowsInv

-----------------------------------------------------------------------------
LEMMA HasNone == HasDays(<<>>, 0)
BY LedgerAssumption DEF HasDays

LEMMA UpToAll ==
  ASSUME NEW tab, NEW n, HasDays(tab, n)
  PROVE  UpTo(tab, n) = tab
<1>1. n \in Nat
  BY LedgerAssumption DEF HasDays
<1>2. UpTo(tab, n) = [i \in 1..n |-> tab[i]]
  BY <1>1, UpToDay
<1> QED BY <1>2 DEF HasDays

\* Enough new rows leave none of the old ones below them.
LEMMA NothingBelow ==
  ASSUME NEW new \in Seq(RowT), NEW old, NEW n, HasDays(old, n), n <= Len(new)
  PROVE  new \o SubSeq(old, Len(new) + 1, Len(old)) = new
<1>1. n \in Nat /\ old \in Seq(RowT) /\ Len(old) = n
  BY LedgerAssumption DEF HasDays
<1>2. SubSeq(old, Len(new) + 1, Len(old)) = <<>>
  BY <1>1
<1> QED BY <1>2

\* Time passes, or the service starts: no run, tab or cursor moves.
LEMMA NothingMoved ==
  ASSUME LInv, UNCHANGED <<cursor, tabs, runs, top, intact, seamless>>,
         lastComplete' \in Nat, lastComplete <= lastComplete'
  PROVE  RowsInv'
<1>1. lastComplete \in Nat
  BY LedgerAssumption DEF LInv, IInv, TypeOK
<1>2. LedgerDays'
  <2>1. 0..lastComplete \subseteq 0..lastComplete'
    BY <1>1
  <2> QED BY <2>1 DEF LInv, RowsInv, LedgerDays
<1>3. NothingBeforeCursor' /\ CursorDays' /\ CursorSums'
  BY DEF LInv, RowsInv, NothingBeforeCursor, CursorDays, CursorSums, Halfway
<1>4. ASSUME NEW r \in Runs PROVE RunSound(r)'
  <2>1. RunSound(r)
    BY DEF LInv, RowsInv
  <2>2. runs[r] \in Run
    BY DEF LInv, IInv, TypeOK
  <2>3. runs[r].kind = "catchup" => runs[r].target <= lastComplete'
    BY <1>1, <2>1, <2>2, LedgerAssumption DEF RunSound, Run
  <2>4. Filling(runs[r]) => FillingSound(r)'
    <3>1. 1..lastComplete \subseteq 1..lastComplete'
      BY <1>1
    <3> QED BY <2>1, <3>1 DEF RunSound, FillingSound
  <2> QED BY <2>1, <2>3, <2>4 DEF RunSound, ResettingSound, ComputingSound, WritingSound
<1> QED BY <1>2, <1>3, <1>4 DEF RowsInv

\* The run ends, and with it the process or only the run; a backfill that was
\* half-way leaves a ledger that is no longer intact.
LEMMA RunsStop ==
  ASSUME OneRun, LInv, NEW r \in Runs, NEW stopped, r \in stopped, Stop(stopped),
         UNCHANGED <<lastComplete, tabs, seamless>>, cursor' = cursor \/ cursor' = Torn
  PROVE  RowsInv'
<1>1. ASSUME NEW s \in Runs PROVE runs'[s] = Idle
  BY <1>1 DEF OneRun, Stop
<1>2. intact' => intact /\ ~Halfway
  BY DEF OneRun, Stop, Halfway
<1>3. ASSUME NEW s \in Runs PROVE RunSound(s)'
  BY <1>1, <1>3 DEF RunSound, Idle, Resetting, Computing, Writing, Filling
<1>4. cursor' = Torn => cursor' # NoCursor /\ cursor' \notin Cursor
  BY LedgerAssumption
<1>5. /\ LedgerDays' /\ NothingBeforeCursor' /\ CursorDays' /\ CursorSums'
  BY <1>2, <1>4 DEF LInv, RowsInv, LedgerDays, NothingBeforeCursor, CursorDays, CursorSums
<1> QED BY <1>3, <1>5 DEF RowsInv

LEMMA BeginCatchUpSound ==
  ASSUME OneRun, LInv, NEW r \in Runs, BeginCatchUp(r)
  PROVE  RowsInv'
<1> DEFINE cold == cursor = NoCursor
           Start == [Idle EXCEPT !.kind = "catchup", !.lost = missed,
                         !.pc = IF cold THEN "put" ELSE "compute",
                         !.day = FromDay, !.target = lastComplete,
                         !.open = IF cold THEN Genesis ELSE cursor.at,
                         !.repair = IF cold THEN NoDay ELSE cursor.pending,
                         !.write = Write("overwrite", <<>>, NoDay, "compute")]
<1>1. runs' = [runs EXCEPT ![r] = Start]
  BY DEF BeginCatchUp
<1> DEFINE run == Start
<1>2. runs'[r] = run /\ \A s \in Runs : s = r
  BY <1>1 DEF OneRun, LInv, IInv, TypeOK
<1>3. /\ run.kind = "catchup" /\ run.target = lastComplete /\ run.day = FromDay
      /\ run.tab = "ledger" /\ run.close = Genesis /\ run.write.then = "compute"
      /\ run.write.mode = "overwrite" /\ run.write.rows = <<>>
      /\ cold => run.pc = "put" /\ run.open = Genesis /\ run.repair = NoDay
      /\ ~cold => run.pc = "compute" /\ run.open = cursor.at /\ run.repair = cursor.pending
  BY DEF Idle, Write
<1> HIDE DEF Start, run
<1>4. lastComplete \in Nat /\ (cold \/ cursor \in Cursor)
  BY LedgerAssumption DEF BeginCatchUp, LInv, IInv, TypeOK
<1>6. RunSound(r)'
  <2>1. CASE cold
    <3>1. ResettingSound(r)'
      BY <1>2, <1>3, <2>1 DEF ResettingSound, BeginCatchUp, FromDay
    <3>2. ~Computing(run) /\ ~Writing(run) /\ ~Filling(run)
      BY <1>3, <2>1 DEF Computing, Writing, Filling
    <3>3. run.target <= lastComplete' /\ run.pc \in {"put", "clear", "commit", "compute"}
      BY <1>3, <1>4, <2>1 DEF BeginCatchUp
    <3> QED BY <1>2, <3>1, <3>2, <3>3 DEF RunSound
  <2>2. CASE ~cold
    <3>1. /\ cursor \in Cursor /\ run.day = cursor.at.day + 1 /\ cursor.at.day \in Nat
          /\ cursor.pending \in {NoDay, run.day}
      BY <1>3, <1>4, <2>2, LedgerAssumption
         DEF FromDay, LInv, IInv, PendingIsNextDay, Cursor, Boundary
    <3>2. cursor = [at |-> cursor.at, pending |-> cursor.pending]
      BY <3>1 DEF Cursor
    <3>3. cursor.pending = IF cursor.pending = run.day THEN run.day ELSE NoDay
      BY <3>1
    <3>4. cursor.pending \in 0..run.day
      BY <3>1 DEF NoDay
    <3>5. ComputingSound(r)'
      BY <1>2, <1>3, <2>2, <3>2, <3>3, <3>4 DEF ComputingSound, BeginCatchUp
    <3>6. ~Resetting(run) /\ ~Writing(run) /\ ~Filling(run)
      BY <1>3, <2>2 DEF Resetting, Writing, Filling
    <3>7. run.target <= lastComplete' /\ run.pc \in {"put", "clear", "commit", "compute"}
      BY <1>3, <1>4, <2>2 DEF BeginCatchUp
    <3> QED BY <1>2, <3>5, <3>6, <3>7 DEF RunSound
  <2> QED BY <2>1, <2>2
<1>7. ~Halfway /\ ~Halfway'
  <2>1. runs[r].kind = "none"
    BY DEF BeginCatchUp, MayRun
  <2> QED BY <1>2, <1>3, <2>1 DEF Halfway, HalfWritten
<1>8. LedgerDays' /\ NothingBeforeCursor' /\ CursorDays' /\ CursorSums'
  BY <1>7 DEF BeginCatchUp, LInv, RowsInv, LedgerDays, NothingBeforeCursor, CursorDays,
              CursorSums
<1> QED BY <1>2, <1>6, <1>8 DEF RowsInv

LEMMA ComputeAndMarkSound ==
  ASSUME OneRun, LInv, NEW r \in Runs, ComputeAndMark(r)
  PROVE  RowsInv'
<1> DEFINE old == runs[r]
           mode == IF old.day = old.repair THEN "splice" ELSE "append"
           Marked(close) == [old EXCEPT !.pc = "put", !.tab = "ledger", !.close = close,
              !.write = Write(mode, <<Row(old.open, close)>>, old.day, "commit")]
<1>1. /\ old \in Run /\ old.kind = "catchup" /\ old.pc = "compute"
      /\ RunSound(r) /\ RunAhead(old) /\ ComputingSound(r)
  BY DEF LInv, RowsInv, IInv, TypeOK, RunsAhead, ComputeAndMark, RunSound, Computing
<1>2. PICK ok \in BOOLEAN : runs' = [runs EXCEPT ![r] = Marked(BoundaryOf(old.day, old.lost, ok))]
  BY DEF ComputeAndMark
<1> DEFINE close == BoundaryOf(old.day, old.lost, ok)
           run == Marked(close)
<1>3. runs'[r] = run /\ \A s \in Runs : s = r
  BY <1>2 DEF OneRun, LInv, IInv, TypeOK
<1>4. /\ run.kind = "catchup" /\ run.pc = "put" /\ run.tab = "ledger" /\ run.day = old.day
      /\ run.target = old.target /\ run.repair = old.repair /\ run.open = old.open
      /\ run.close = close
      /\ run.write = Write(mode, <<Row(old.open, close)>>, old.day, "commit")
  BY <1>1 DEF Run
<1>5. /\ old.day \in 1..MaxDay /\ old.day = old.open.day + 1 /\ old.open \in Boundary
      /\ old.open.day \in Nat
  BY <1>1, LedgerAssumption DEF RunAhead, Run, Boundary, RunSound
<1> HIDE DEF Marked, run, close
<1>7. cursor' = [at |-> old.open, pending |-> old.day]
  BY DEF ComputeAndMark
<1>8. UNCHANGED <<lastComplete, tabs, top, intact, seamless>>
  BY DEF ComputeAndMark
<1>9. ~Halfway /\ ~Halfway'
  BY <1>1, <1>3, <1>4 DEF Halfway, HalfWritten
<1>10. \/ cursor = NoCursor /\ old.open = Genesis /\ old.day = 1 /\ old.repair = NoDay
          /\ \A t \in Tabs : tabs[t] = <<>>
       \/ cursor = [at |-> old.open, pending |-> IF old.repair = old.day THEN old.day ELSE NoDay]
          /\ cursor \in Cursor /\ old.repair \in 0..old.day
  <2>1. [at |-> old.open, pending |-> IF old.repair = old.day THEN old.day ELSE NoDay] \in Cursor
    BY <1>5, LedgerAssumption DEF Cursor, NoDay
  <2> QED BY <1>1, <2>1 DEF ComputingSound
<1>11. ASSUME intact, NEW t \in Tabs
       PROVE  \/ HasDays(tabs[t], old.day - 1)
              \/ HasDays(tabs[t], old.day) /\ mode = "splice"
  <2>1. CASE cursor = NoCursor /\ old.day = 1 /\ tabs[t] = <<>>
    BY <2>1, HasNone
  <2>2. CASE cursor \in Cursor /\ cursor.at = old.open
             /\ cursor.pending = IF old.repair = old.day THEN old.day ELSE NoDay
    <3>1. \/ HasDays(tabs[t], old.day - 1)
          \/ HasDays(tabs[t], old.day) /\ cursor.pending = old.day
      BY <1>5, <1>9, <1>11, <2>2 DEF LInv, RowsInv, CursorDays
    <3>2. cursor.pending = old.day => mode = "splice"
      BY <1>5, <2>2 DEF NoDay
    <3> QED BY <3>1, <3>2
  <2> QED BY <1>10, <2>1, <2>2
<1>12. old.repair \in 0..old.day
  BY <1>5, <1>10 DEF NoDay
<1>13. WritingSound(r)'
  <2>1. \A t \in Tabs : ~Touched(run, t)
    BY <1>4 DEF Touched
  <2>2. intact' => \A t \in Tabs :
          IF Touched(run, t)
            THEN HasDays(tabs'[t], run.day) /\ tabs'[t][run.day] = Row(run.open, run.close)
            ELSE \/ HasDays(tabs'[t], run.day - 1)
                 \/ HasDays(tabs'[t], run.day) /\ run.write.mode = "splice"
    BY <1>4, <1>8, <1>11, <2>1 DEF Write
  <2> QED BY <1>3, <1>4, <1>7, <1>12, <2>2 DEF WritingSound, Write
<1>14. RunSound(r)'
  <2>1. ~Resetting(run) /\ ~Computing(run) /\ ~Filling(run)
    BY <1>4 DEF Resetting, Computing, Filling, Write
  <2>2. run.target <= lastComplete'
    BY <1>1, <1>4, <1>5, <1>8 DEF RunSound
  <2> QED BY <1>3, <1>4, <1>13, <2>1, <2>2 DEF RunSound
<1>15. LedgerDays' /\ NothingBeforeCursor'
  <2>1. cursor' # NoCursor
    <3>1. cursor' \in Cursor
      BY <1>5, <1>7 DEF Cursor
    <3> QED BY <3>1, LedgerAssumption
  <2> QED BY <1>8, <2>1 DEF LInv, RowsInv, LedgerDays, NothingBeforeCursor
<1>16. CursorDays'
  <2>1. cursor'.at.day = old.day - 1 /\ cursor'.pending = old.day /\ old.day = cursor'.at.day + 1
    BY <1>5, <1>7
  <2> QED BY <1>8, <1>11, <2>1 DEF CursorDays
<1>17. CursorSums'
  <2> SUFFICES ASSUME intact, seamless, NEW t \in Tabs
               PROVE  Sum(UpTo(tabs[t], old.open.day)) = old.open.bal + ClaimedBy[old.open.block]
    BY <1>7, <1>8 DEF CursorSums
  <2>1. CASE old.open = Genesis /\ tabs[t] = <<>>
    <3>1. UpTo(tabs[t], 0) = <<>>
      BY <2>1, HasNone, UpToAll
    <3> QED BY <2>1, <3>1, SumOfNone, LedgerAssumption DEF Genesis
  <2>2. CASE cursor \in Cursor /\ cursor.at = old.open
    BY <1>9, <2>2 DEF LInv, RowsInv, CursorSums
  <2> QED BY <1>10, <2>1, <2>2
<1> QED BY <1>3, <1>14, <1>15, <1>16, <1>17 DEF RowsInv

\* A run moves on: to clear below its rows, to the other tab, or to what is next.
Moved(old, run) ==
  \/ old.pc = "put" /\ run = [old EXCEPT !.pc = "clear"]
  \/ old.tab = "ledger" /\ run = [old EXCEPT !.tab = "totals", !.pc = "put"]
  \/ old.tab = "totals" /\ run = [old EXCEPT !.pc = old.write.then]

\* Moving on touches the tab at hand and no other.
LEMMA MovedTouches ==
  ASSUME NEW old \in Run, old.pc \in {"put", "clear"}, old.write.then = "commit",
         NEW run, Moved(old, run)
  PROVE  /\ run \in Run /\ run.kind = old.kind /\ run.day = old.day /\ run.target = old.target
         /\ run.open = old.open /\ run.close = old.close /\ run.write = old.write
         /\ run.repair = old.repair /\ run.pc \in {"put", "clear", "commit"}
         /\ run.pc = "commit" => run.tab = "totals"
         /\ run.pc = "clear" => run.tab = old.tab
         /\ run.tab = "totals" \/ run.pc \in {"clear", "commit"}
         /\ Touched(run, old.tab)
         /\ \A t \in Tabs \ {old.tab} : Touched(run, t) <=> Touched(old, t)
         /\ old.pc = "put" => ~Touched(old, old.tab)
         /\ old.pc = "clear" => Touched(old, old.tab)
<1>1. old.tab \in Tabs /\ old.write \in WriteT
  BY DEF Run
<1>2. CASE old.pc = "put" /\ run = [old EXCEPT !.pc = "clear"]
  BY <1>1, <1>2 DEF Run, Touched, Tabs
<1>3. CASE old.tab = "ledger" /\ run = [old EXCEPT !.tab = "totals", !.pc = "put"]
  BY <1>1, <1>3 DEF Run, Touched, Tabs
<1>4. CASE old.tab = "totals" /\ run = [old EXCEPT !.pc = old.write.then]
  BY <1>1, <1>4 DEF Run, Touched, Tabs
<1> QED BY <1>2, <1>3, <1>4 DEF Moved

\* Whatever the service writes, the committed days stay as they are.
CommittedStay ==
  (intact /\ cursor \in Cursor /\ ~Backfilling) =>
    \A t \in Tabs : UpTo(tabs'[t], cursor.at.day) = UpTo(tabs[t], cursor.at.day)

\* A catch-up run has written its day to a tab.
LEMMA DayWritten ==
  ASSUME OneRun, LInv, NEW r \in Runs, NEW run, NEW new,
         Writing(runs[r]), runs[r].pc \in {"put", "clear"}, Moved(runs[r], run),
         runs' = [runs EXCEPT ![r] = run],
         tabs' = [tabs EXCEPT ![runs[r].tab] = new],
         UNCHANGED <<lastComplete, cursor, intact, seamless>>,
         run.pc = "clear" => runs[r].write.mode = "splice" /\ (intact => top'[r] = runs[r].day),
         intact => /\ HasDays(new, runs[r].day)
                   /\ new[runs[r].day] = Row(runs[r].open, runs[r].close)
                   /\ \A k \in 1..(runs[r].day - 1) : new[k] = tabs[runs[r].tab][k]
  PROVE  RowsInv' /\ CommittedStay
<1> DEFINE old == runs[r]
<1>1. /\ old \in Run /\ old.kind = "catchup" /\ old.write.then = "commit"
      /\ RunSound(r) /\ RunAhead(old) /\ WritingSound(r) /\ old.tab \in Tabs
      /\ tabs \in [Tabs -> Seq(RowT)]
  BY DEF LInv, RowsInv, IInv, TypeOK, RunsAhead, RunSound, Writing, Run
<1>2. /\ run \in Run /\ run.kind = old.kind /\ run.day = old.day /\ run.target = old.target
      /\ run.open = old.open /\ run.close = old.close /\ run.write = old.write
      /\ run.repair = old.repair /\ run.pc \in {"put", "clear", "commit"}
      /\ run.pc = "commit" => run.tab = "totals"
      /\ Touched(run, old.tab)
      /\ \A t \in Tabs \ {old.tab} : Touched(run, t) <=> Touched(old, t)
  <2> HIDE DEF old
  <2> QED BY <1>1, MovedTouches DEF old
<1>3. runs'[r] = run /\ \A s \in Runs : s = r
  BY DEF OneRun, LInv, IInv, TypeOK
<1>4. tabs'[old.tab] = new /\ \A t \in Tabs \ {old.tab} : tabs'[t] = tabs[t]
  BY <1>1
<1>5. /\ cursor = [at |-> old.open, pending |-> old.day] /\ old.day = old.open.day + 1
      /\ old.day \in 1..MaxDay /\ old.target \in Nat /\ old.target <= lastComplete
      /\ old.day <= old.target /\ lastComplete \in Nat /\ old.open \in Boundary
      /\ old.open.day \in Nat /\ MaxDay \in Nat
  <2>1. /\ old.day \in 0..MaxDay /\ old.target \in 0..MaxDay /\ old.open \in Boundary
        /\ old.open.day \in 0..MaxDay /\ lastComplete \in 0..MaxDay /\ MaxDay \in Nat
    BY <1>1, LedgerAssumption DEF Run, Boundary, LInv, IInv, TypeOK
  <2>2. /\ cursor = [at |-> old.open, pending |-> old.day] /\ old.day = old.open.day + 1
        /\ old.target <= lastComplete /\ old.day <= old.target
    BY <1>1 DEF WritingSound, RunAhead, RunSound
  <2> HIDE DEF old
  <2> QED BY <2>1, <2>2
<1>6. cursor \in Cursor
  BY <1>5 DEF Cursor
<1>7. ~Halfway /\ ~Halfway'
  BY <1>1, <1>2, <1>3 DEF Halfway, HalfWritten
<1>8. ASSUME intact, NEW t \in Tabs
      PROVE  IF Touched(run, t)
               THEN HasDays(tabs'[t], run.day) /\ tabs'[t][run.day] = Row(run.open, run.close)
               ELSE \/ HasDays(tabs'[t], run.day - 1)
                    \/ HasDays(tabs'[t], run.day) /\ run.write.mode = "splice"
  <2>1. CASE t = old.tab
    BY <1>2, <1>4, <1>8, <2>1
  <2>2. CASE t # old.tab
    <3>1. IF Touched(old, t)
            THEN HasDays(tabs[t], old.day) /\ tabs[t][old.day] = Row(old.open, old.close)
            ELSE \/ HasDays(tabs[t], old.day - 1)
                 \/ HasDays(tabs[t], old.day) /\ old.write.mode = "splice"
      BY <1>1, <1>8 DEF WritingSound
    <3> QED BY <1>2, <1>4, <2>2, <3>1
  <2> QED BY <2>1, <2>2
<1>9. WritingSound(r)'
  <2>1. /\ old.write.rows = <<Row(old.open, old.close)>> /\ old.write.from = old.day
        /\ old.repair \in 0..old.day
        /\ old.write.mode \in {"append", "splice"}
    BY <1>1 DEF WritingSound
  <2>2. run.write.mode = "append" => run.pc # "clear"
    BY <1>2
  <2>3. intact => (run.pc = "clear" => top'[r] = run.day)
    BY <1>2
  <2> HIDE DEF old
  <2> QED BY <1>2, <1>3, <1>5, <1>8, <2>1, <2>2, <2>3 DEF WritingSound
<1>10. RunSound(r)'
  <2>1. ~Resetting(run) /\ ~Computing(run) /\ ~Filling(run)
    BY <1>1, <1>2 DEF Resetting, Computing, Filling
  <2>2. run.target <= lastComplete'
    BY <1>1, <1>2 DEF RunSound
  <2> QED BY <1>1, <1>2, <1>3, <1>9, <2>1, <2>2 DEF RunSound
<1>11. ASSUME intact, NEW t \in Tabs
       PROVE  HasDays(tabs'[t], old.day - 1) \/ HasDays(tabs'[t], old.day)
  BY <1>2, <1>8, <1>11
<1>12. LedgerDays'
  <2> SUFFICES ASSUME intact, NEW t \in Tabs
               PROVE  \E n \in 0..lastComplete : HasDays(tabs'[t], n)
    BY DEF LedgerDays
  <2>1. old.day - 1 \in 0..lastComplete /\ old.day \in 0..lastComplete
    BY <1>5
  <2> QED BY <1>11, <2>1
<1>13. NothingBeforeCursor'
  BY <1>6, LedgerAssumption DEF NothingBeforeCursor, LInv, RowsInv
<1>14. CursorDays'
  <2>1. cursor.at.day = old.day - 1 /\ cursor.pending = old.day /\ old.day = cursor.at.day + 1
    BY <1>5
  <2> QED BY <1>11, <2>1 DEF CursorDays
<1>15. ASSUME intact, NEW t \in Tabs
       PROVE  UpTo(tabs'[t], old.open.day) = UpTo(tabs[t], old.open.day)
  <2>1. CASE t # old.tab
    BY <1>4, <2>1
  <2>2. CASE t = old.tab
    <3> DEFINE c == old.open.day
    <3>1. /\ c \in Nat /\ HasDays(new, old.day) /\ old.day = c + 1
          /\ \A k \in 1..c : new[k] = tabs[t][k]
      BY <1>5, <1>15, <2>2
    <3>2. \E n \in {c, c + 1} : HasDays(tabs[t], n)
      BY <1>5, <1>6, <1>7, <1>15 DEF LInv, RowsInv, CursorDays
    <3> HIDE DEF c
    <3>3. UpTo(tabs[t], c) = [i \in 1..c |-> tabs[t][i]]
      <4>1. PICK n \in {c, c + 1} : HasDays(tabs[t], n)
        BY <3>2
      <4>2. c \in 0..n
        BY <3>1
      <4> DEFINE tab == tabs[t]
      <4>3. HasDays(tab, n)
        BY <4>1
      <4> HIDE DEF tab
      <4>4. UpTo(tab, c) = [i \in 1..c |-> tab[i]]
        BY <4>2, <4>3, UpToDay
      <4> QED BY <4>4 DEF tab
    <3>4. UpTo(new, c) = [i \in 1..c |-> new[i]]
      <4>1. c \in 0..old.day
        BY <3>1
      <4> HIDE DEF old
      <4> QED BY <3>1, <4>1, UpToDay
    <3>5. UpTo(new, c) = UpTo(tabs[t], c)
      BY <3>1, <3>3, <3>4
    <3> QED BY <1>4, <2>2, <3>5 DEF c
  <2> QED BY <2>1, <2>2
<1>16. CursorSums'
  BY <1>5, <1>6, <1>7, <1>15 DEF LInv, RowsInv, CursorSums
<1>17. CommittedStay
  BY <1>5, <1>15 DEF CommittedStay
<1> QED BY <1>3, <1>10, <1>12, <1>13, <1>14, <1>16, <1>17 DEF RowsInv

\* A backfill has written its window to a tab.
LEMMA WindowWritten ==
  ASSUME OneRun, LInv, NEW r \in Runs, NEW run, NEW new,
         Filling(runs[r]), runs[r].pc \in {"put", "clear"}, Moved(runs[r], run),
         runs' = [runs EXCEPT ![r] = run],
         tabs' = [tabs EXCEPT ![runs[r].tab] = new],
         UNCHANGED <<lastComplete, cursor, intact, seamless>>,
         runs[r].write.from = 1 =>
           IF run.pc = "clear" THEN UpTo(new, runs[r].day) = runs[r].write.rows
                                    /\ top'[r] = runs[r].day
                               ELSE new = runs[r].write.rows,
         intact => HasDays(new, runs[r].day) /\ (run.pc = "clear" => top'[r] = runs[r].day)
  PROVE  RowsInv'
<1> DEFINE old == runs[r]
<1>1. /\ old \in Run /\ old.kind = "backfill" /\ old.write.then = "commit"
      /\ RunSound(r) /\ FillingSound(r) /\ old.tab \in Tabs
      /\ tabs \in [Tabs -> Seq(RowT)]
  BY DEF LInv, RowsInv, IInv, TypeOK, RunSound, Filling, Run, FillingSound
<1>2. /\ run \in Run /\ run.kind = old.kind /\ run.day = old.day /\ run.target = old.target
      /\ run.open = old.open /\ run.close = old.close /\ run.write = old.write
      /\ run.repair = old.repair /\ run.pc \in {"put", "clear", "commit"}
      /\ run.pc = "commit" => run.tab = "totals"
      /\ run.pc = "clear" => run.tab = old.tab
      /\ run.tab = "totals" \/ run.pc \in {"clear", "commit"}
      /\ Touched(run, old.tab)
      /\ \A t \in Tabs \ {old.tab} : Touched(run, t) <=> Touched(old, t)
  <2> HIDE DEF old
  <2> QED BY <1>1, MovedTouches DEF old
<1>3. runs'[r] = run /\ \A s \in Runs : s = r
  BY DEF OneRun, LInv, IInv, TypeOK
<1>4. tabs'[old.tab] = new /\ \A t \in Tabs \ {old.tab} : tabs'[t] = tabs[t]
  BY <1>1
<1>5. Halfway'
  BY <1>1, <1>2, <1>3 DEF Halfway, HalfWritten
<1>6. ASSUME old.write.from = 1, NEW t \in Tabs, Touched(run, t)
      PROVE  IF run.tab = t /\ run.pc = "clear" THEN UpTo(tabs'[t], run.day) = run.write.rows
                                                ELSE tabs'[t] = run.write.rows
  <2>1. CASE t = old.tab
    BY <1>2, <1>4, <1>6, <2>1
  <2>2. CASE t # old.tab
    <3>1. tabs[t] = old.write.rows
      BY <1>1, <1>2, <1>6, <2>2 DEF FillingSound
    <3> QED BY <1>2, <1>4, <2>2, <3>1
  <2> QED BY <2>1, <2>2
<1>7. ASSUME intact, NEW t \in Tabs
      PROVE  IF Touched(run, t) THEN HasDays(tabs'[t], run.day)
               ELSE \E n \in (IF old.write.from = 1 THEN 0 ELSE old.write.from)..run.day :
                      HasDays(tabs'[t], n)
  <2>1. CASE t = old.tab
    BY <1>2, <1>4, <1>7, <2>1
  <2>2. CASE t # old.tab
    BY <1>1, <1>2, <1>4, <1>7, <2>2 DEF FillingSound
  <2> QED BY <2>1, <2>2
<1>8. FillingSound(r)'
  <2>1. /\ old.day \in 1..lastComplete /\ old.close.day = old.day /\ old.write.from \in 1..old.day
        /\ IsWindow(old.write.rows, old.write.from, old.day)
        /\ old.write.mode = IF old.write.from > 1 THEN "splice" ELSE "overwrite"
        /\ old.write.from = 1 =>
             Sum(old.write.rows) = old.close.bal + ClaimedBy[old.close.block]
    BY <1>1 DEF FillingSound
  <2>2. /\ old.write.from = 1 => (run.pc = "clear" => top'[r] = run.day)
        /\ intact => (run.pc = "clear" => top'[r] = run.day)
    BY <1>2
  <2> HIDE DEF old
  <2> QED BY <1>1, <1>2, <1>3, <1>6, <1>7, <2>1, <2>2 DEF FillingSound
<1>9. RunSound(r)'
  <2>1. ~Resetting(run) /\ ~Computing(run) /\ ~Writing(run)
    BY <1>1, <1>2 DEF Resetting, Computing, Writing
  <2> QED BY <1>1, <1>2, <1>3, <1>8, <2>1 DEF RunSound
<1>10. LedgerDays'
  <2> SUFFICES ASSUME intact, NEW t \in Tabs
               PROVE  \E n \in 0..lastComplete : HasDays(tabs'[t], n)
    BY DEF LedgerDays
  <2>1. /\ old.day \in 1..lastComplete /\ old.write.from \in 1..old.day /\ lastComplete \in Nat
    BY <1>1, LedgerAssumption DEF FillingSound, LInv, IInv, TypeOK
  <2>2. \E n \in 0..old.day : HasDays(tabs'[t], n)
    BY <1>2, <1>7, <2>1
  <2> QED BY <2>1, <2>2
<1>11. NothingBeforeCursor' /\ CursorDays' /\ CursorSums'
  BY <1>5 DEF NothingBeforeCursor, CursorDays, CursorSums, LInv, RowsInv
<1> QED BY <1>3, <1>9, <1>10, <1>11 DEF RowsInv

\* Unless it ends a reset, writing a tab leaves the observers alone.
LEMMA TabWrittenQuietly ==
  ASSUME IInv, NEW r \in Runs, TabWritten(r), runs[r].write.then = "commit"
  PROVE  UNCHANGED <<intact, seamless>>
BY DEF TabWritten, IInv, TypeOK

LEMMA TabWrittenMoves ==
  ASSUME IInv, NEW r \in Runs, TabWritten(r)
  PROVE  \E run : /\ Moved(runs[r], run) /\ runs' = [runs EXCEPT ![r] = run]
                  /\ runs[r].write.then = "commit" => run.pc # "clear"
                  /\ run = IF runs[r].tab = "ledger" THEN [runs[r] EXCEPT !.tab = "totals", !.pc = "put"]
                                                     ELSE [runs[r] EXCEPT !.pc = runs[r].write.then]
<1> DEFINE old == runs[r]
           run == IF old.tab = "ledger" THEN [old EXCEPT !.tab = "totals", !.pc = "put"]
                                        ELSE [old EXCEPT !.pc = old.write.then]
<1>1. old \in Run
  BY DEF IInv, TypeOK
<1>2. runs' = [runs EXCEPT ![r] = run]
  BY DEF TabWritten
<1>3. Moved(old, run)
  <2>1. old.tab \in {"ledger", "totals"}
    BY <1>1 DEF Run, Tabs
  <2> HIDE DEF old
  <2> QED BY <2>1 DEF Moved
<1>4. old.write.then = "commit" => run.pc # "clear"
  <2> HIDE DEF old
  <2> QED BY <1>1 DEF Run
<1> QED BY <1>2, <1>3, <1>4

\* Which kinds of run write to a tab.
LEMMA KindsOfWriting ==
  ASSUME LInv, NEW r \in Runs, runs[r].kind # "none", runs[r].pc \in {"put", "clear"}
  PROVE  /\ runs[r] \in Run /\ runs[r].tab \in Tabs /\ tabs[runs[r].tab] \in Seq(RowT)
         /\ \/ Resetting(runs[r]) /\ ResettingSound(r)
            \/ /\ Writing(runs[r]) /\ WritingSound(r) /\ runs[r].write.then = "commit"
               /\ runs[r].day \in 1..MaxDay /\ runs[r].close.day = runs[r].day
               /\ runs[r].open \in Boundary /\ runs[r].close \in Boundary
            \/ Filling(runs[r]) /\ FillingSound(r) /\ runs[r].write.then = "commit"
<1> DEFINE old == runs[r]
<1>1. old \in Run /\ RunSound(r) /\ RunAhead(old) /\ tabs \in [Tabs -> Seq(RowT)] /\ MaxDay \in Nat
  BY LedgerAssumption DEF LInv, IInv, TypeOK, RunsAhead, RowsInv
<1>2. old.tab \in Tabs /\ old.kind \in {"catchup", "backfill"} /\ old.write.then \in {"compute", "commit"}
  BY <1>1 DEF Run, WriteT
<1>3. CASE old.kind = "backfill"
  BY <1>1, <1>2, <1>3 DEF RunSound, Filling, FillingSound
<1>4. CASE old.kind = "catchup" /\ old.write.then = "compute"
  BY <1>1, <1>2, <1>4 DEF RunSound, Resetting
<1>5. CASE old.kind = "catchup" /\ old.write.then = "commit"
  <2>1. Writing(old) /\ WritingSound(r)
    BY <1>1, <1>5 DEF RunSound, Writing
  <2>2. old.day \in 1..MaxDay /\ old.close.day = old.day
    BY <1>1, <1>5 DEF RunAhead, Run, Boundary
  <2>3. old.open \in Boundary /\ old.close \in Boundary
    BY <1>1 DEF Run
  <2> QED BY <1>1, <1>2, <1>5, <2>1, <2>2, <2>3
<1> QED BY <1>1, <1>2, <1>3, <1>4, <1>5

\* The one row of a day, alone.
LEMMA OneRow ==
  ASSUME NEW open \in Boundary, NEW close \in Boundary, close.day \in 1..MaxDay
  PROVE  /\ Row(open, close) \in RowT /\ Row(open, close).day = close.day
         /\ <<Row(open, close)>> \in Seq(RowT) /\ Len(<<Row(open, close)>>) = 1
         /\ <<Row(open, close)>> \in [1..1 -> RowT] /\ (<<Row(open, close)>>)[1] = Row(open, close)
<1>1. Row(open, close) \in RowT
  BY RowType DEF Days
<1>2. Row(open, close).day = close.day
  BY DEF Row
<1> HIDE DEF Row
<1> QED BY <1>1, <1>2

\* A row appended to a tab.
LEMMA OneMore ==
  ASSUME NEW S, NEW s \in Seq(S), NEW x \in S, NEW n, n = Len(s) + 1
  PROVE  /\ s \o <<x>> \in [1..n -> S] /\ (s \o <<x>>)[n] = x
         /\ \A k \in 1..(n - 1) : (s \o <<x>>)[k] = s[k]
<1> DEFINE t == s \o <<x>>
<1>1. /\ t \in Seq(S) /\ Len(t) = n /\ t[n] = x /\ n - 1 = Len(s)
  OBVIOUS
<1>2. \A k \in 1..Len(s) : t[k] = s[k]
  OBVIOUS
<1>3. t \in [1..n -> S]
  <2> HIDE DEF t
  <2> QED BY <1>1
<1> HIDE DEF t
<1> QED BY <1>1, <1>2, <1>3 DEF t

LEMMA AppendSound ==
  ASSUME OneRun, LInv, NEW r \in Runs, Append_(r)
  PROVE  RowsInv' /\ CommittedStay
<1> DEFINE old == runs[r]
           row == Row(old.open, old.close)
           new == tabs[old.tab] \o old.write.rows
<1>1. /\ Writing(old) /\ WritingSound(r) /\ old.write.then = "commit"
      /\ old.pc = "put" /\ old.write.mode = "append"
      /\ old \in Run /\ old.tab \in Tabs /\ tabs[old.tab] \in Seq(RowT)
      /\ old.day \in 1..MaxDay /\ old.close.day = old.day
      /\ old.open \in Boundary /\ old.close \in Boundary
  BY KindsOfWriting DEF Append_, ResettingSound, FillingSound
<1>2. PICK run : /\ Moved(old, run) /\ runs' = [runs EXCEPT ![r] = run] /\ run.pc # "clear"
  BY <1>1, TabWrittenMoves DEF Append_, LInv
<1>3. UNCHANGED <<lastComplete, cursor, intact, seamless>>
  BY <1>1, TabWrittenQuietly DEF Append_, LInv
<1>4. tabs' = [tabs EXCEPT ![old.tab] = new]
  BY DEF Append_
<1>5. ASSUME intact
      PROVE  /\ HasDays(new, old.day) /\ new[old.day] = row
             /\ \A k \in 1..(old.day - 1) : new[k] = tabs[old.tab][k]
  <2>1. HasDays(tabs[old.tab], old.day - 1)
    <3>1. ~Touched(old, old.tab)
      BY <1>1 DEF Touched
    <3> QED BY <1>1, <1>5, <3>1 DEF WritingSound
  <2>2. old.write.rows = <<row>>
    BY <1>1 DEF WritingSound
  <2>3. row \in RowT /\ row.day = old.day /\ <<row>> \in Seq(RowT) /\ Len(<<row>>) = 1
    BY <1>1, OneRow
  <2> DEFINE tab == tabs[old.tab]
             d == old.day
  <2>4. /\ d \in 1..MaxDay /\ MaxDay \in Nat /\ tab \in [1..(d - 1) -> RowT] /\ tab \in Seq(RowT)
        /\ Len(tab) = d - 1 /\ \A i \in 1..(d - 1) : tab[i].day = i
        /\ new = tab \o <<row>> /\ row.day = d /\ row \in RowT
    <3>1. MaxDay \in Nat
      BY LedgerAssumption
    <3>2. d - 1 \in Nat /\ tab \in [1..(d - 1) -> RowT] /\ \A i \in 1..(d - 1) : tab[i].day = i
      BY <1>1, <2>1, <3>1 DEF HasDays
    <3> HIDE DEF tab, d
    <3>3. Len(tab) = d - 1 /\ tab \in Seq(RowT)
      BY <3>2
    <3> QED BY <1>1, <2>2, <2>3, <3>1, <3>2, <3>3 DEF tab, d
  <2> HIDE DEF tab, d, row, new, old
  <2>5. /\ new \in [1..d -> RowT] /\ new[d] = row /\ \A k \in 1..(d - 1) : new[k] = tab[k]
    <3>1. d = Len(tab) + 1
      BY <2>4
    <3> QED BY <2>4, <3>1, OneMore
  <2>6. HasDays(new, d)
    <3>1. ASSUME NEW i \in 1..d PROVE new[i].day = i
      <4>1. i = d \/ i \in 1..(d - 1)
        BY <2>4
      <4> QED BY <2>4, <2>5, <4>1
    <3> QED BY <2>4, <2>5, <3>1 DEF HasDays
  <2> QED BY <2>5, <2>6 DEF tab, d
<1> HIDE DEF new, row
<1> QED BY <1>1, <1>2, <1>3, <1>4, <1>5, DayWritten DEF row

\* A reset has nothing to put in a tab, and clears it.
LEMMA ResettingWrites ==
  ASSUME OneRun, LInv, NEW r \in Runs, Resetting(runs[r]),
         Put(r) \/ ClearTail(r)
  PROVE  RowsInv' /\ CommittedStay
<1> DEFINE old == runs[r]
           tab == tabs[old.tab]
<1>1. /\ ResettingSound(r) /\ old \in Run /\ old.kind = "catchup" /\ old.write.then = "compute"
      /\ old.tab \in Tabs /\ tab \in Seq(RowT) /\ tabs \in [Tabs -> Seq(RowT)]
      /\ top \in [Runs -> Nat] /\ runs \in [Runs -> Run] /\ intact \in BOOLEAN
      /\ RunSound(r)
  BY DEF LInv, RowsInv, IInv, TypeOK, RunSound, Resetting, Run
<1>2. /\ cursor = NoCursor /\ cursor' = NoCursor /\ cursor' \notin Cursor
      /\ UNCHANGED lastComplete /\ lastComplete \in Nat
  BY <1>1, LedgerAssumption DEF ResettingSound, Put, ClearTail, LInv, IInv, TypeOK
<1>3. ~Halfway
  BY <1>1 DEF OneRun, Halfway, HalfWritten
<1>4. intact => \A t \in Tabs : tabs[t] = <<>>
  BY <1>2, <1>3 DEF LInv, RowsInv, NothingBeforeCursor
<1>5. /\ old.day = 1 /\ old.open = Genesis /\ old.repair = NoDay /\ old.write.mode = "overwrite"
      /\ old.write.rows = <<>>
      /\ old.pc = "clear" => top[r] = 0
      /\ old.tab = "totals" => tabs["ledger"] = <<>>
      /\ old.target <= lastComplete
  BY <1>1 DEF ResettingSound, RunSound
<1>6. ASSUME Put(r) PROVE RowsInv'
  <2> DEFINE run == [old EXCEPT !.pc = "clear"]
  <2>1. NewRows(r) = <<>>
    BY <1>5 DEF NewRows
  <2>2. <<>> \o SubSeq(tab, Len(<<>>) + 1, Len(tab)) = tab
    BY <1>1
  <2>3. tabs' = tabs /\ top'[r] = 0
    <3>1. tabs' = [tabs EXCEPT ![old.tab] = tab]
      BY <1>6, <2>1, <2>2 DEF Put
    <3>2. top' = [top EXCEPT ![r] = 0]
      BY <1>6, <2>1 DEF Put
    <3> QED BY <1>1, <3>1, <3>2
  <2>4. runs'[r] = run /\ (\A s \in Runs : s = r) /\ UNCHANGED <<intact, seamless>>
    BY <1>1, <1>6 DEF Put, OneRun
  <2>5. /\ run.kind = "catchup" /\ run.pc = "clear" /\ run.write = old.write /\ run.tab = old.tab
        /\ run.day = old.day /\ run.open = old.open /\ run.repair = old.repair
        /\ run.target = old.target /\ run.close = old.close
    <3> HIDE DEF old
    <3> QED BY <1>1 DEF Run
  <2> HIDE DEF run
  <2>6. ResettingSound(r)'
    BY <1>2, <1>5, <2>3, <2>4, <2>5 DEF ResettingSound
  <2>7. RunSound(r)'
    <3>1. ~Computing(run) /\ ~Writing(run) /\ ~Filling(run)
      BY <1>1, <2>5 DEF Computing, Writing, Filling
    <3>2. run.target <= lastComplete'
      BY <1>2, <1>5, <2>5
    <3> QED BY <2>4, <2>5, <2>6, <3>1, <3>2 DEF RunSound
  <2>8. LedgerDays' /\ NothingBeforeCursor' /\ CursorDays' /\ CursorSums'
    BY <1>2, <1>4, <2>3, <2>4 DEF LInv, RowsInv, LedgerDays, NothingBeforeCursor, CursorDays,
       CursorSums
  <2> QED BY <2>4, <2>7, <2>8 DEF RowsInv
<1>7. ASSUME ClearTail(r) PROVE RowsInv'
  <2>1. UpTo(tab, 0) = <<>>
    BY <1>1 DEF UpTo
  <2>2. tabs' = [tabs EXCEPT ![old.tab] = <<>>]
    BY <1>5, <1>7, <2>1 DEF ClearTail
  <2>3. PICK run : /\ runs' = [runs EXCEPT ![r] = run]
                   /\ run = IF old.tab = "ledger" THEN [old EXCEPT !.tab = "totals", !.pc = "put"]
                                                  ELSE [old EXCEPT !.pc = old.write.then]
    BY <1>7, TabWrittenMoves DEF ClearTail, LInv
  <2>4. runs'[r] = run /\ \A s \in Runs : s = r
    BY <1>1, <2>3 DEF OneRun
  <2>5. /\ run.kind = "catchup" /\ run.write = old.write /\ run.day = old.day
        /\ run.open = old.open /\ run.repair = old.repair
        /\ run.target = old.target /\ run.close = old.close
        /\ old.tab = "ledger" => run.tab = "totals" /\ run.pc = "put"
        /\ old.tab # "ledger" => run.pc = "compute"
    <3> HIDE DEF old
    <3> QED BY <1>1, <2>3 DEF Run
  <2>6. run.target <= lastComplete'
    BY <1>2, <1>5, <2>5
  <2>7. ~Halfway'
    BY <2>4, <2>5 DEF Halfway, HalfWritten
  <2>8. CursorDays' /\ CursorSums'
    BY <1>2 DEF CursorDays, CursorSums
  <2>9. CASE old.tab = "ledger"
    <3>1. UNCHANGED <<intact, seamless>>
      BY <1>1, <1>7, <2>9 DEF ClearTail, TabWritten, LInv, IInv, TypeOK
    <3>2. tabs'["ledger"] = <<>> /\ (intact => tabs' = tabs)
      BY <1>1, <1>4, <2>2, <2>9
    <3>3. ResettingSound(r)'
      BY <1>2, <1>5, <2>4, <2>5, <2>9, <3>2 DEF ResettingSound
    <3>4. ~Computing(run) /\ ~Writing(run) /\ ~Filling(run)
      BY <1>1, <2>5, <2>9 DEF Computing, Writing, Filling
    <3>5. RunSound(r)'
      BY <2>4, <2>5, <2>6, <2>9, <3>3, <3>4 DEF RunSound
    <3>6. LedgerDays' /\ NothingBeforeCursor'
      BY <1>2, <1>4, <3>1, <3>2 DEF LInv, RowsInv, LedgerDays, NothingBeforeCursor
    <3> QED BY <2>4, <2>8, <3>5, <3>6 DEF RowsInv
  <2>10. CASE old.tab # "ledger"
    <3>1. \A t \in Tabs : tabs'[t] = <<>>
      BY <1>1, <1>5, <2>2, <2>10 DEF Tabs
    <3>2. ComputingSound(r)'
      BY <1>2, <1>5, <2>4, <2>5, <2>10, <3>1 DEF ComputingSound
    <3>3. ~Resetting(run) /\ ~Writing(run) /\ ~Filling(run)
      BY <2>5, <2>10 DEF Resetting, Writing, Filling
    <3>4. RunSound(r)'
      BY <2>4, <2>5, <2>6, <2>10, <3>2, <3>3 DEF RunSound
    <3>5. LedgerDays' /\ NothingBeforeCursor'
      <4>1. 0 \in 0..lastComplete'
        BY <1>2
      <4> QED BY <3>1, <4>1, HasNone DEF LedgerDays, NothingBeforeCursor
    <3> QED BY <2>4, <2>8, <3>4, <3>5 DEF RowsInv
  <2> QED BY <2>9, <2>10
<1>8. CommittedStay
  BY <1>2, LedgerAssumption DEF CommittedStay
<1> QED BY <1>6, <1>7, <1>8

\* A catch-up run splices its day into a tab that may already have it.
LEMMA WritingPuts ==
  ASSUME OneRun, LInv, NEW r \in Runs, Writing(runs[r]), Put(r)
  PROVE  RowsInv' /\ CommittedStay
<1> DEFINE old == runs[r]
           d == old.day
           tab == tabs[old.tab]
           row == Row(old.open, old.close)
           rows == NewRows(r)
           new == rows \o SubSeq(tab, Len(rows) + 1, Len(tab))
           run == [old EXCEPT !.pc = "clear"]
<1>1. /\ WritingSound(r) /\ old.write.then = "commit" /\ old.pc = "put"
      /\ old.write.mode = "splice" /\ old \in Run /\ old.tab \in Tabs /\ tab \in Seq(RowT)
      /\ d \in 1..MaxDay /\ old.close.day = d /\ old.open \in Boundary /\ old.close \in Boundary
      /\ old.write.rows = <<row>> /\ old.write.from = d /\ top \in [Runs -> Nat]
  BY KindsOfWriting DEF Put, Resetting, Writing, Filling, WritingSound, LInv, IInv, TypeOK
<1>2. rows = SpliceRows(tab, <<row>>, d, d)
  BY <1>1 DEF NewRows
<1>3. /\ tabs' = [tabs EXCEPT ![old.tab] = new] /\ runs' = [runs EXCEPT ![r] = run]
      /\ top' = [top EXCEPT ![r] = Len(rows)]
      /\ UNCHANGED <<lastComplete, cursor, intact, seamless>>
  BY DEF Put
<1>4. Moved(old, run) /\ run.pc = "clear"
  <2> HIDE DEF old
  <2> QED BY <1>1 DEF Moved, Run
<1>5. ASSUME intact
      PROVE  /\ HasDays(new, d) /\ new[d] = row /\ \A k \in 1..(d - 1) : new[k] = tab[k]
             /\ Len(rows) = d
  <2>1. \E n \in {d - 1, d} : HasDays(tab, n)
    <3>1. ~Touched(old, old.tab)
      BY <1>1 DEF Touched
    <3> QED BY <1>1, <1>5, <3>1 DEF WritingSound
  <2>2. PICK n \in {d - 1, d} : HasDays(tab, n)
    BY <2>1
  <2>3. row \in RowT /\ row.day = d /\ <<row>> \in [1..1 -> RowT] /\ (<<row>>)[1] = row
    BY <1>1, OneRow
  <2>4. MaxDay \in Nat /\ d - 1 <= n /\ n <= d /\ d \in 1..d /\ d - d + 1 = 1 /\ d \in 0..MaxDay
        /\ d \in Nat
    BY <1>1, LedgerAssumption
  <2> HIDE DEF tab, d, row, old, rows, new
  <2>5. IsWindow(<<row>>, d, d)
    BY <2>3, <2>4 DEF IsWindow
  <2>6. rows = [k \in 1..d |-> IF k < d THEN tab[k] ELSE (<<row>>)[k - d + 1]]
    BY <1>2, <2>2, <2>4, <2>5, SpliceCorrects
  <2>7. rows \in [1..d -> RowT] /\ rows[d] = row /\ \A k \in 1..(d - 1) : rows[k] = tab[k]
    <3>1. \A k \in 1..(d - 1) : k \in 1..n
      BY <2>4
    <3>2. ASSUME NEW k \in 1..d PROVE (IF k < d THEN tab[k] ELSE (<<row>>)[k - d + 1]) \in RowT
      <4>1. k < d => tab[k] \in RowT
        BY <2>2, <2>4, <3>1 DEF HasDays
      <4>2. ~(k < d) => k - d + 1 = 1
        BY <2>4
      <4> QED BY <2>3, <4>1, <4>2
    <3>3. rows \in [1..d -> RowT]
      BY <2>6, <3>2
    <3>4. rows[d] = row
      BY <2>3, <2>4, <2>6
    <3>5. \A k \in 1..(d - 1) : rows[k] = tab[k]
      BY <2>4, <2>6
    <3> QED BY <3>3, <3>4, <3>5
  <2>8. HasDays(rows, d)
    <3>1. ASSUME NEW i \in 1..d PROVE rows[i].day = i
      <4>1. i = d \/ (i \in 1..(d - 1) /\ i \in 1..n)
        BY <2>2, <2>4
      <4> QED BY <2>2, <2>3, <2>7, <4>1 DEF HasDays
    <3> QED BY <2>4, <2>7, <3>1 DEF HasDays
  <2>9. Len(rows) = d /\ rows \in Seq(RowT)
    BY <2>4, <2>7
  <2>10. new = rows
    BY <2>2, <2>4, <2>9, NothingBelow DEF new
  <2> QED BY <2>7, <2>8, <2>9, <2>10
<1>6. intact => top'[r] = d
  BY <1>1, <1>3, <1>5
<1> HIDE DEF new, row, rows, run
<1> QED BY <1>1, <1>3, <1>4, <1>5, <1>6, DayWritten DEF row

\* A backfill replaces a tab, or the window it corrects.
LEMMA FillingPuts ==
  ASSUME OneRun, LInv, NEW r \in Runs, Filling(runs[r]), Put(r)
  PROVE  RowsInv' /\ CommittedStay
<1> DEFINE old == runs[r]
           d == old.day
           first == old.write.from
           tab == tabs[old.tab]
           window == old.write.rows
           rows == NewRows(r)
           new == rows \o SubSeq(tab, Len(rows) + 1, Len(tab))
           run == [old EXCEPT !.pc = "clear"]
<1>1. /\ FillingSound(r) /\ old.write.then = "commit" /\ old.pc = "put"
      /\ old \in Run /\ old.tab \in Tabs /\ tab \in Seq(RowT)
      /\ top \in [Runs -> Nat] /\ lastComplete \in 0..MaxDay /\ MaxDay \in Nat
  BY KindsOfWriting, LedgerAssumption DEF Put, Resetting, Writing, Filling, LInv, IInv, TypeOK
<1>2. /\ d \in 1..MaxDay /\ first \in 1..d /\ IsWindow(window, first, d)
      /\ old.write.mode = IF first > 1 THEN "splice" ELSE "overwrite"
  BY <1>1 DEF FillingSound
<1>3. /\ tabs' = [tabs EXCEPT ![old.tab] = new] /\ runs' = [runs EXCEPT ![r] = run]
      /\ top' = [top EXCEPT ![r] = Len(rows)]
      /\ UNCHANGED <<lastComplete, cursor, intact, seamless>>
  BY DEF Put
<1>4. Moved(old, run) /\ run.pc = "clear"
  <2> HIDE DEF old
  <2> QED BY <1>1 DEF Moved, Run
<1>5. ASSUME intact
      PROVE  \E n \in (IF first = 1 THEN 0 ELSE first)..d : HasDays(tab, n)
  <2>1. ~Touched(old, old.tab)
    BY <1>1 DEF Touched
  <2> QED BY <1>1, <1>5, <2>1 DEF FillingSound
<1>6. first = 1 => rows = window
  <2>1. first = 1 => ~(first > 1)
    BY <1>2
  <2> QED BY <1>2, <2>1 DEF NewRows
<1>7. first # 1 => rows = SpliceRows(tab, window, first, d)
  <2>1. first # 1 => first > 1
    BY <1>2
  <2> QED BY <1>2, <2>1 DEF NewRows
<1> HIDE DEF old, d, first, tab, window, rows, new, run
<1>8. ASSUME first = 1 PROVE RowsInv'
  <2>1. rows \in [1..d -> RowT] /\ rows \in Seq(RowT) /\ Len(rows) = d
        /\ \A i \in 1..d : rows[i].day = i
    <3>1. d - 1 + 1 = d /\ d \in Nat
      BY <1>1, <1>2
    <3>2. rows \in [1..d -> RowT] /\ \A i \in 1..d : rows[i].day = i
      BY <1>2, <1>6, <1>8, <3>1 DEF IsWindow
    <3> QED BY <3>1, <3>2
  <2>2. UpTo(new, d) = rows
    <3>1. new \in Seq(RowT) /\ Len(new) >= d /\ \A i \in 1..d : new[i] = rows[i]
      <4> DEFINE rest == SubSeq(tab, Len(rows) + 1, Len(tab))
      <4>1. rest \in Seq(RowT)
        BY <1>1, <2>1
      <4> HIDE DEF rest
      <4>2. rows \o rest \in Seq(RowT) /\ Len(rows \o rest) = Len(rows) + Len(rest)
            /\ \A i \in 1..Len(rows) : (rows \o rest)[i] = rows[i]
        BY <2>1, <4>1
      <4>3. Len(rest) \in Nat
        BY <4>1
      <4> QED BY <2>1, <4>2, <4>3 DEF new, rest
    <3>2. UpTo(new, d) = SubSeq(new, 1, d)
      BY <1>2, <3>1 DEF UpTo
    <3>3. SubSeq(new, 1, d) = [i \in 1..d |-> new[i]]
      BY <1>2, <3>1
    <3> QED BY <2>1, <3>1, <3>2, <3>3
  <2>3. top'[r] = d
    BY <1>1, <1>3, <2>1
  <2>4. intact => HasDays(new, d)
    <3> SUFFICES ASSUME intact PROVE HasDays(new, d)
      OBVIOUS
    <3>1. PICK n \in 0..d : HasDays(tab, n)
      BY <1>5, <1>8
    <3>2. new = rows
      <4>1. n <= Len(rows)
        BY <2>1, <3>1, <1>2
      <4> QED BY <2>1, <3>1, <4>1, NothingBelow DEF new
    <3>3. d \in 0..MaxDay
      BY <1>1, <1>2
    <3>4. HasDays(rows, d)
      BY <2>1, <3>3 DEF HasDays
    <3> QED BY <3>2, <3>4
  <2> QED BY <1>1, <1>3, <1>4, <1>6, <1>8, <2>2, <2>3, <2>4, WindowWritten DEF old, d, first, tab, window
<1>9. ASSUME first # 1 PROVE RowsInv'
  <2>1. intact => HasDays(new, d) /\ top'[r] = d
    <3> SUFFICES ASSUME intact PROVE HasDays(new, d) /\ top'[r] = d
      OBVIOUS
    <3>1. PICK n \in first..d : HasDays(tab, n)
      BY <1>5, <1>9
    <3>2. first - 1 <= n /\ n <= d /\ d \in 0..MaxDay /\ d \in Nat /\ first \in Nat
      BY <1>1, <1>2, <3>1
    <3>3. rows = [k \in 1..d |-> IF k < first THEN tab[k] ELSE window[k - first + 1]]
      BY <1>2, <1>7, <1>9, <3>1, <3>2, SpliceCorrects
    <3>4. ASSUME NEW k \in 1..d
          PROVE  /\ (IF k < first THEN tab[k] ELSE window[k - first + 1]) \in RowT
                 /\ (IF k < first THEN tab[k] ELSE window[k - first + 1]).day = k
      <4>1. CASE k < first
        <5>1. k \in 1..n
          BY <3>1, <3>2, <4>1
        <5> QED BY <3>1, <4>1, <5>1 DEF HasDays
      <4>2. CASE ~(k < first)
        <5>1. k - first + 1 \in 1..(d - first + 1) /\ first + (k - first + 1) - 1 = k
          BY <3>2, <4>2
        <5> QED BY <1>2, <4>2, <5>1 DEF IsWindow
      <4> QED BY <4>1, <4>2
    <3>5. rows \in [1..d -> RowT] /\ \A k \in 1..d : rows[k].day = k
      BY <3>3, <3>4
    <3>6. Len(rows) = d /\ rows \in Seq(RowT)
      BY <3>2, <3>5
    <3>7. new = rows
      BY <3>1, <3>2, <3>6, NothingBelow DEF new
    <3>8. top'[r] = d
      BY <1>1, <1>3, <3>6
    <3> QED BY <3>2, <3>5, <3>7, <3>8 DEF HasDays
  <2> QED BY <1>1, <1>3, <1>4, <1>9, <2>1, WindowWritten DEF old, d, first, tab
<1>10. CommittedStay
  BY DEF CommittedStay, Backfilling, Filling
<1> QED BY <1>8, <1>9, <1>10

\* Clearing below the rows just put leaves those rows.
LEMMA ClearTailSound ==
  ASSUME OneRun, LInv, NEW r \in Runs, ClearTail(r)
  PROVE  RowsInv' /\ CommittedStay
<1> DEFINE old == runs[r]
           tab == tabs[old.tab]
           new == UpTo(tab, top[r])
<1>1. CASE Resetting(old)
  BY <1>1, ResettingWrites
<1>2. ASSUME old.write.then = "commit"
      PROVE  /\ \E run : Moved(old, run) /\ runs' = [runs EXCEPT ![r] = run] /\ run.pc # "clear"
             /\ UNCHANGED <<lastComplete, cursor, intact, seamless>>
  <2>1. UNCHANGED <<intact, seamless>>
    BY <1>2, TabWrittenQuietly DEF ClearTail, LInv
  <2>2. \E run : Moved(old, run) /\ runs' = [runs EXCEPT ![r] = run] /\ run.pc # "clear"
    BY <1>2, TabWrittenMoves DEF ClearTail, LInv
  <2> QED BY <2>1, <2>2 DEF ClearTail
<1>3. tabs' = [tabs EXCEPT ![old.tab] = new] /\ old.pc = "clear"
  BY DEF ClearTail
<1>4. Touched(old, old.tab)
  BY <1>3 DEF Touched
<1>5. CASE Writing(old) /\ WritingSound(r) /\ old.write.then = "commit" /\ old.day \in 1..MaxDay
  <2>1. PICK run : Moved(old, run) /\ runs' = [runs EXCEPT ![r] = run] /\ run.pc # "clear"
    BY <1>2, <1>5
  <2>2. old.tab \in Tabs
    BY DEF LInv, IInv, TypeOK, Run
  <2>3. ASSUME intact
        PROVE  /\ HasDays(new, old.day) /\ new[old.day] = Row(old.open, old.close)
               /\ \A k \in 1..(old.day - 1) : new[k] = tab[k]
    <3>1. HasDays(tab, old.day) /\ tab[old.day] = Row(old.open, old.close) /\ top[r] = old.day
      BY <1>3, <1>4, <1>5, <2>2, <2>3 DEF WritingSound
    <3>2. new = tab
      <4> HIDE DEF old, tab
      <4> QED BY <3>1, UpToAll
    <3> QED BY <3>1, <3>2
  <2> HIDE DEF new
  <2> QED BY <1>2, <1>3, <1>5, <2>1, <2>3, DayWritten
<1>6. CASE Filling(old) /\ FillingSound(r) /\ old.write.then = "commit"
  <2>1. PICK run : Moved(old, run) /\ runs' = [runs EXCEPT ![r] = run] /\ run.pc # "clear"
    BY <1>2, <1>6
  <2>2. old.tab \in Tabs
    BY DEF LInv, IInv, TypeOK, Run
  <2>3. old.write.from = 1 => new = old.write.rows
    BY <1>3, <1>4, <1>6, <2>2 DEF FillingSound
  <2>4. intact => HasDays(new, old.day)
    <3> SUFFICES ASSUME intact PROVE HasDays(new, old.day)
      OBVIOUS
    <3>1. HasDays(tab, old.day) /\ top[r] = old.day
      BY <1>3, <1>4, <1>6, <2>2 DEF FillingSound
    <3>2. new = tab
      <4> HIDE DEF old, tab
      <4> QED BY <3>1, UpToAll
    <3> QED BY <3>1, <3>2
  <2> HIDE DEF new
  <2>5. CommittedStay
    BY <1>6 DEF CommittedStay, Backfilling, Filling
  <2>6. RowsInv'
    BY <1>2, <1>3, <1>6, <2>1, <2>3, <2>4, WindowWritten
  <2> QED BY <2>5, <2>6
<1> QED BY <1>1, <1>5, <1>6, KindsOfWriting DEF ClearTail

\* Committing a day: what was the marked day's becomes the cursor's.
LEMMA CommitDaySound ==
  ASSUME OneRun, LInv, NEW r \in Runs, CommitDay(r)
  PROVE  RowsInv'
<1> DEFINE old == runs[r]
           Continued == [old EXCEPT !.pc = "compute", !.day = old.day + 1, !.open = old.close]
           d == old.day
<1>1. /\ old \in Run /\ old.kind = "catchup" /\ old.pc = "commit" /\ old.write.then = "commit"
      /\ RunSound(r) /\ RunAhead(old) /\ WritingSound(r) /\ old.close.day = d
      /\ runs \in [Runs -> Run] /\ lastComplete \in 0..MaxDay /\ MaxDay \in Nat
  BY LedgerAssumption
     DEF LInv, RowsInv, IInv, TypeOK, RunsAhead, RunSound, Writing, RunAhead, CommitDay
<1>2. /\ d \in 1..MaxDay /\ d = old.open.day + 1 /\ d <= old.target /\ old.target <= lastComplete
      /\ old.target \in Nat /\ old.open \in Boundary /\ old.close \in Boundary
      /\ old.open.day \in Nat /\ old.repair \in 0..d
  <2>1. /\ d \in 0..MaxDay /\ old.target \in 0..MaxDay /\ old.open \in Boundary
        /\ old.close \in Boundary /\ old.open.day \in 0..MaxDay
    BY <1>1 DEF Run, Boundary
  <2>2. d = old.open.day + 1 /\ d <= old.target /\ old.target <= lastComplete /\ old.repair \in 0..d
    BY <1>1 DEF RunAhead, RunSound, WritingSound
  <2> HIDE DEF old
  <2> QED BY <1>1, <2>1, <2>2
<1>3. cursor = [at |-> old.open, pending |-> d] /\ cursor \in Cursor
  BY <1>1, <1>2 DEF WritingSound, Cursor
<1>4. cursor' = [at |-> old.close, pending |-> NoDay] /\ cursor' \in Cursor
  BY <1>1, <1>2, LedgerAssumption DEF CommitDay, Committed, Cursor, NoDay
<1>5. /\ UNCHANGED <<lastComplete, tabs, top, intact>>
      /\ seamless' => seamless /\ old.open.block <= old.close.block
  BY DEF CommitDay
<1>6. runs'[r] = (IF d < old.target THEN Continued ELSE Idle) /\ \A s \in Runs : s = r
  BY <1>1 DEF CommitDay, OneRun
<1>7. ~Halfway /\ ~Halfway'
  <2>1. Continued.kind = "catchup" /\ Idle.kind = "none"
    BY <1>1, IdleType DEF Run
  <2> QED BY <1>1, <1>6, <2>1 DEF Halfway, HalfWritten
<1>8. ASSUME intact, NEW t \in Tabs
      PROVE  HasDays(tabs[t], d) /\ tabs[t][d] = Row(old.open, old.close)
  BY <1>1, <1>8 DEF WritingSound, Touched
<1>9. RunSound(r)'
  <2>2. CASE d < old.target
    <3> DEFINE run == Continued
    <3>1. /\ run.kind = "catchup" /\ run.pc = "compute" /\ run.day = d + 1 /\ run.open = old.close
          /\ run.close = old.close /\ run.target = old.target /\ run.repair = old.repair
      <4> HIDE DEF old
      <4> QED BY <1>1 DEF Run
    <3> HIDE DEF run, Continued
    <3>2. runs'[r] = run
      BY <1>6, <2>2 DEF run
    <3>3. run.repair # run.day /\ run.repair \in 0..run.day
      BY <1>2, <3>1
    <3>4. ComputingSound(r)'
      BY <1>4, <3>1, <3>2, <3>3 DEF ComputingSound
    <3>5. ~Resetting(run) /\ ~Writing(run) /\ ~Filling(run)
      BY <3>1 DEF Resetting, Writing, Filling
    <3>6. run.target <= lastComplete'
      BY <1>2, <1>5, <3>1
    <3> QED BY <3>1, <3>2, <3>4, <3>5, <3>6 DEF RunSound
  <2>3. CASE ~(d < old.target)
    <3>1. runs'[r] = Idle
      BY <1>6, <2>3
    <3> QED BY <3>1 DEF RunSound, Idle, Resetting, Computing, Writing, Filling
  <2> QED BY <2>2, <2>3
<1>10. LedgerDays' /\ NothingBeforeCursor'
  <2>1. cursor' # NoCursor
    BY <1>4, LedgerAssumption
  <2> QED BY <1>5, <2>1 DEF LInv, RowsInv, LedgerDays, NothingBeforeCursor
<1>11. CursorDays'
  <2>1. cursor'.at.day = d
    BY <1>1, <1>4
  <2> QED BY <1>5, <1>8, <2>1 DEF CursorDays
<1>12. CursorSums'
  <2> SUFFICES ASSUME intact, seamless', NEW t \in Tabs
               PROVE  Sum(UpTo(tabs[t], d)) = old.close.bal + ClaimedBy[old.close.block]
    BY <1>1, <1>4, <1>5 DEF CursorSums
  <2> DEFINE c == old.open.day
             tab == tabs[t]
             less == [i \in 1..c |-> tab[i]]
  <2>1. HasDays(tab, d) /\ tab[d] = Row(old.open, old.close)
    BY <1>8
  <2>2. Sum(UpTo(tab, c)) = old.open.bal + ClaimedBy[old.open.block]
    BY <1>3, <1>5, <1>7 DEF LInv, RowsInv, CursorSums
  <2>3. c \in Nat /\ d = c + 1 /\ c \in 0..d
    BY <1>2
  <2>4. UpTo(tab, c) = less /\ UpTo(tab, d) = tab
    <3> HIDE DEF tab, c, d, old
    <3>1. UpTo(tab, d) = tab
      BY <2>1, UpToAll
    <3>2. UpTo(tab, c) = less
      BY <2>1, <2>3, UpToDay
    <3> QED BY <3>1, <3>2
  <2>5. Sum(tab) = Sum(less) + tab[d].accrued
    <3>1. tab \in [1..(c + 1) -> RowT]
      BY <2>1, <2>3 DEF HasDays
    <3> HIDE DEF tab, c, d, old
    <3>2. Sum(tab) = Sum(less) + tab[c + 1].accrued
      BY <2>3, <3>1, SumOfNextDay
    <3> QED BY <2>3, <3>2
  <2>6. tab[d].accrued = old.close.bal - old.open.bal
                          + (ClaimedBy[old.close.block] - ClaimedBy[old.open.block])
    <3>1. /\ old.open.block \in Blocks /\ old.close.block \in Blocks
          /\ old.open.block <= old.close.block
      BY <1>2, <1>5 DEF Boundary
    <3>2. tab[d].accrued = old.close.bal - old.open.bal + Claims(old.open.block, old.close.block)
      BY <2>1 DEF Row, Accrued
    <3> QED BY <3>1, <3>2, ClaimsBetween
  <2>7. /\ old.close.bal \in Int /\ old.open.bal \in Int
        /\ ClaimedBy[old.close.block] \in Int /\ ClaimedBy[old.open.block] \in Int
    BY <1>2, LedgerAssumption DEF Boundary
  <2>8. Sum(UpTo(tab, d)) = old.close.bal + ClaimedBy[old.close.block]
    <3> HIDE DEF tab, c, d, old, less
    <3> QED BY <2>2, <2>4, <2>5, <2>6, <2>7
  <2> QED BY <2>8
<1> QED BY <1>6, <1>9, <1>10, <1>11, <1>12 DEF RowsInv

\* From genesis the accruals telescope: their sum is what the last boundary holds.
LEMMA Telescopes ==
  ASSUME NEW n \in Nat, NEW at \in [0..n -> Boundary], NEW rows \in [1..n -> RowT],
         at[0] = Genesis,
         \A i \in 1..n : rows[i] = Row(at[i - 1], at[i]) /\ at[i - 1].block <= at[i].block
  PROVE  Sum(rows) = at[n].bal + ClaimedBy[at[n].block]
<1> DEFINE worth == [i \in 0..n |-> at[i].bal + ClaimedBy[at[i].block]]
<1>1. rows \in Seq(RowT) /\ Len(rows) = n
  OBVIOUS
<1>2. PICK f \in [0..n -> Int] :
        /\ f = [k \in 0..n |-> IF k = 0 THEN 0 ELSE f[k - 1] + rows[k].accrued]
        /\ Sum(rows) = f[n]
  BY <1>1, SumOfPrefixes
<1>3. \A i \in 0..n : f[i] = IF i = 0 THEN 0 ELSE f[i - 1] + rows[i].accrued
  BY <1>2
<1>4. \A i \in 0..n : at[i].bal \in Int /\ ClaimedBy[at[i].block] \in Int
  BY LedgerAssumption DEF Boundary
<1>5. \A i \in 0..n : worth[i] = at[i].bal + ClaimedBy[at[i].block]
  OBVIOUS
<1>6. worth[0] = 0
  BY <1>5, LedgerAssumption DEF Genesis
<1> HIDE DEF worth
<1>7. ASSUME NEW i \in 1..n, f[i - 1] = worth[i - 1] PROVE f[i] = worth[i]
  <2>1. i \in 0..n /\ i - 1 \in 0..n
    OBVIOUS
  <2>2. rows[i].accrued = at[i].bal - at[i - 1].bal
                            + (ClaimedBy[at[i].block] - ClaimedBy[at[i - 1].block])
    <3>1. /\ at[i - 1].block \in Blocks /\ at[i].block \in Blocks
          /\ at[i - 1].block <= at[i].block
      BY <2>1 DEF Boundary
    <3>2. rows[i].accrued = at[i].bal - at[i - 1].bal + Claims(at[i - 1].block, at[i].block)
      BY DEF Row, Accrued
    <3> QED BY <3>1, <3>2, ClaimsBetween
  <2>3. f[i] = f[i - 1] + rows[i].accrued
    BY <1>3, <2>1
  <2> DEFINE a == at[i - 1].bal
             b == at[i].bal
             p == ClaimedBy[at[i - 1].block]
             q == ClaimedBy[at[i].block]
  <2>4. /\ a \in Int /\ b \in Int /\ p \in Int /\ q \in Int
        /\ rows[i].accrued = b - a + (q - p) /\ worth[i - 1] = a + p /\ worth[i] = b + q
    BY <1>4, <1>5, <2>1, <2>2
  <2> HIDE DEF a, b, p, q
  <2> QED BY <1>7, <2>3, <2>4
<1>8. f[n] = worth[n]
  <2> DEFINE P == {i \in 0..n : f[i] = worth[i]}
  <2>1. 0 \in P
    BY <1>3, <1>6
  <2>2. \A i \in 1..n : i - 1 \in P => i \in P
    BY <1>7
  <2>3. \A i \in 0..n : i \in P
    <3> HIDE DEF P
    <3> QED BY <2>1, <2>2, PrefixInduction, Zenon
  <2> QED BY <2>3
<1> QED BY <1>2, <1>5, <1>8

\* A backfill has computed its window and written nothing yet.
LEMMA BeginBackfillSound ==
  ASSUME OneRun, LInv, NEW r \in Runs, NEW first \in 1..lastComplete,
         NEW failed, BeginBackfill(r, first, failed)
  PROVE  RowsInv'
<1> DEFINE At(day) == BoundaryOf(day, missed, day \notin failed)
           n == lastComplete - first + 1
           rows == [i \in 1..n |-> Row(At(first + i - 2), At(first + i - 1))]
           mode == IF first > 1 THEN "splice" ELSE "overwrite"
           run == [Idle EXCEPT !.kind = "backfill", !.pc = "put", !.day = lastComplete,
                         !.close = At(lastComplete), !.write = Write(mode, rows, first, "commit")]
<1>1. /\ lastComplete \in 0..MaxDay /\ MaxDay \in Nat /\ first \in 0..MaxDay /\ n \in Nat
      /\ first \in Nat /\ lastComplete \in Nat /\ lastComplete \in 1..lastComplete
      /\ runs \in [Runs -> Run] /\ tabs \in [Tabs -> Seq(RowT)]
  BY LedgerAssumption DEF LInv, IInv, TypeOK
<1>2. ASSUME NEW day \in 0..MaxDay
      PROVE  At(day) \in Boundary /\ At(day).day = day
  <2>1. missed \in 0..MaxMissed
    BY DEF LInv, IInv, TypeOK
  <2> QED BY <2>1, BoundaryType
<1>3. ASSUME NEW i \in 1..n
      PROVE  /\ rows[i] = Row(At(first + i - 2), At(first + i - 1))
             /\ rows[i] \in RowT /\ rows[i].day = first + i - 1
  <2>1. first + i - 2 \in 0..MaxDay /\ first + i - 1 \in 1..MaxDay
    BY <1>1
  <2>2. /\ At(first + i - 2) \in Boundary /\ At(first + i - 1) \in Boundary
        /\ At(first + i - 1).day = first + i - 1
    BY <1>1, <1>2, <2>1
  <2> HIDE DEF At
  <2>3. Row(At(first + i - 2), At(first + i - 1)) \in RowT
    BY <2>1, <2>2, OneRow
  <2>4. Row(At(first + i - 2), At(first + i - 1)).day = first + i - 1
    BY <2>2 DEF Row
  <2>5. rows[i] = Row(At(first + i - 2), At(first + i - 1))
    OBVIOUS
  <2> QED BY <2>3, <2>4, <2>5
<1>4. IsWindow(rows, first, lastComplete) /\ rows \in [1..n -> RowT]
  <2>1. rows \in [1..n -> RowT]
    <3>1. rows = [i \in 1..n |-> rows[i]]
      OBVIOUS
    <3> HIDE DEF rows, n
    <3> QED BY <1>3, <3>1
  <2> HIDE DEF rows
  <2> QED BY <1>3, <2>1 DEF IsWindow
<1>5. first = 1 => Sum(rows) = At(lastComplete).bal + ClaimedBy[At(lastComplete).block]
  <2> SUFFICES ASSUME first = 1
               PROVE  Sum(rows) = At(lastComplete).bal + ClaimedBy[At(lastComplete).block]
    OBVIOUS
  <2> DEFINE at == [day \in 0..n |-> At(day)]
  <2>1. n = lastComplete /\ n \in 0..n /\ 0 \in 0..n
    BY <1>1
  <2>2. at \in [0..n -> Boundary]
    <3>1. \A day \in 0..n : At(day) \in Boundary
      BY <1>1, <1>2, <2>1
    <3> HIDE DEF At
    <3> QED BY <3>1
  <2>3. \A day \in 0..n : at[day] = At(day)
    OBVIOUS
  <2>4. at[0] = Genesis
    <3>1. At(0) = Genesis
      BY DEF BoundaryOf, EndBlock, Genesis
    <3> QED BY <2>1, <2>3, <3>1
  <2> HIDE DEF at, rows, n, At
  <2>5. ASSUME NEW i \in 1..n
        PROVE  rows[i] = Row(at[i - 1], at[i]) /\ at[i - 1].block <= at[i].block
    <3>1. rows[i] = Row(At(i - 1), At(i))
      <4>1. first + i - 2 = i - 1 /\ first + i - 1 = i
        BY <1>1
      <4> QED BY <1>3, <4>1
    <3>2. i - 1 \in 0..n /\ i \in 0..n
      BY <1>1
    <3>3. At(i - 1).block <= At(i).block
      <4>1. missed \in 0..MaxMissed /\ i \in 1..MaxDay
        BY <1>1, <2>1 DEF LInv, IInv, TypeOK
      <4>2. EndBlock(i - 1, missed) <= EndBlock(i, missed)
        BY <4>1, EndBlocksAscend
      <4> QED BY <4>2 DEF At, BoundaryOf
    <3> QED BY <2>3, <3>1, <3>2, <3>3
  <2>6. Sum(rows) = at[n].bal + ClaimedBy[at[n].block]
    BY <1>1, <1>4, <2>2, <2>4, <2>5, Telescopes
  <2> QED BY <2>1, <2>3, <2>6
<1>6. runs' = [runs EXCEPT ![r] = run] /\ UNCHANGED <<lastComplete, cursor, tabs, top, intact, seamless>>
      /\ Correcting(first) /\ NoneInFlight
  BY DEF BeginBackfill
<1>7. /\ run.kind = "backfill" /\ run.pc = "put" /\ run.day = lastComplete /\ run.tab = "ledger"
      /\ run.close = At(lastComplete) /\ run.open = Genesis
      /\ run.write = Write(mode, rows, first, "commit")
  <2> HIDE DEF At, rows, mode
  <2> QED BY IdleType DEF Idle
<1>8. At(lastComplete).day = lastComplete
  BY <1>1, <1>2
<1> HIDE DEF At, rows, mode, run, n
<1>9. runs'[r] = run /\ \A s \in Runs : s = r
  BY <1>1, <1>6 DEF OneRun
<1>10. \A t \in Tabs : ~Touched(run, t)
  BY <1>7 DEF Touched
<1>11. ASSUME intact, NEW t \in Tabs
       PROVE  \E k \in (IF first = 1 THEN 0 ELSE first)..lastComplete : HasDays(tabs[t], k)
  <2>1. PICK k \in 0..lastComplete : HasDays(tabs[t], k)
    BY <1>11 DEF LInv, RowsInv, LedgerDays
  <2>2. Len(tabs[t]) = k
    BY <1>1, <2>1 DEF HasDays
  <2>3. first = 1 \/ first <= k
    BY <1>6, <2>2 DEF Correcting
  <2> QED BY <1>1, <2>1, <2>3
<1>12. FillingSound(r)'
  <2>1. intact' => \A t \in Tabs :
          IF Touched(run, t) THEN HasDays(tabs'[t], run.day)
            ELSE \E k \in (IF first = 1 THEN 0 ELSE first)..run.day : HasDays(tabs'[t], k)
    BY <1>6, <1>7, <1>10, <1>11
  <2>2. /\ run.write.rows = rows /\ run.write.from = first /\ run.write.then = "commit"
        /\ run.write.mode = mode
    BY <1>7 DEF Write
  <2> QED BY <1>1, <1>4, <1>5, <1>6, <1>7, <1>8, <1>9, <1>10, <2>1, <2>2 DEF FillingSound, mode
<1>13. RunSound(r)'
  <2>1. ~Resetting(run) /\ ~Computing(run) /\ ~Writing(run)
    BY <1>7 DEF Resetting, Computing, Writing
  <2> QED BY <1>7, <1>9, <1>12, <2>1 DEF RunSound
<1>14. ~Halfway /\ ~Halfway'
  BY <1>6, <1>7, <1>9 DEF Halfway, HalfWritten, NoneInFlight
<1>15. LedgerDays' /\ NothingBeforeCursor' /\ CursorDays' /\ CursorSums'
  BY <1>6, <1>14 DEF LInv, RowsInv, LedgerDays, NothingBeforeCursor, CursorDays,
              CursorSums
<1> QED BY <1>9, <1>13, <1>15 DEF RowsInv

\* A backfill moves the cursor to where its window ends.
LEMMA CommitBackfillSound ==
  ASSUME OneRun, LInv, NEW r \in Runs, CommitBackfill(r)
  PROVE  RowsInv'
<1> DEFINE old == runs[r]
           d == old.day
<1>1. /\ old \in Run /\ old.kind = "backfill" /\ old.pc = "commit" /\ FillingSound(r)
      /\ runs \in [Runs -> Run] /\ lastComplete \in 0..MaxDay /\ MaxDay \in Nat
      /\ old.close \in Boundary /\ intact \in BOOLEAN
  BY LedgerAssumption DEF LInv, RowsInv, IInv, TypeOK, RunSound, Filling, CommitBackfill, Run
<1>2. /\ d \in 1..lastComplete /\ old.close.day = d /\ old.write.from \in 1..d
      /\ IsWindow(old.write.rows, old.write.from, d)
      /\ old.write.from = 1 =>
           Sum(old.write.rows) = old.close.bal + ClaimedBy[old.close.block]
  BY <1>1 DEF FillingSound
<1>3. cursor' = [at |-> old.close, pending |-> NoDay] /\ cursor' # NoCursor
  BY <1>1, CommittedType, LedgerAssumption DEF CommitBackfill, Committed
<1>4. /\ UNCHANGED <<lastComplete, tabs>> /\ runs'[r] = Idle /\ \A s \in Runs : s = r
      /\ intact' = (intact \/ old.write.from = 1) /\ seamless' = (old.write.from = 1)
  BY <1>1 DEF CommitBackfill, OneRun
<1>5. ASSUME NEW t \in Tabs
      PROVE  /\ old.write.from = 1 => tabs[t] = old.write.rows
             /\ intact' => HasDays(tabs[t], d)
  <2>1. Touched(old, t)
    BY <1>1 DEF Touched
  <2>2. old.write.from = 1 => tabs[t] = old.write.rows
    BY <1>1, <2>1 DEF FillingSound
  <2>3. intact => HasDays(tabs[t], d)
    BY <1>1, <2>1 DEF FillingSound
  <2>4. old.write.from = 1 => HasDays(old.write.rows, d)
    <3> DEFINE rows == old.write.rows
    <3>1. d - 1 + 1 = d /\ d \in 0..MaxDay
      BY <1>1, <1>2
    <3> SUFFICES ASSUME old.write.from = 1 PROVE HasDays(rows, d)
      OBVIOUS
    <3>2. IsWindow(rows, 1, d)
      BY <1>2
    <3> HIDE DEF rows, d, old
    <3> QED BY <3>1, <3>2 DEF IsWindow, HasDays
  <2> QED BY <1>4, <2>2, <2>3, <2>4
<1>6. RunSound(r)'
  BY <1>4 DEF RunSound, Idle, Resetting, Computing, Writing, Filling
<1>7. LedgerDays' /\ NothingBeforeCursor'
  <2>1. d \in 0..lastComplete
    BY <1>1, <1>2
  <2> QED BY <1>1, <1>3, <1>4, <1>5, <2>1 DEF LedgerDays, NothingBeforeCursor
<1>8. CursorDays'
  BY <1>2, <1>3, <1>4, <1>5 DEF CursorDays
<1>9. CursorSums'
  <2> SUFFICES ASSUME intact', seamless', NEW t \in Tabs
               PROVE  Sum(UpTo(tabs[t], d)) = old.close.bal + ClaimedBy[old.close.block]
    BY <1>2, <1>3, <1>4 DEF CursorSums
  <2>1. old.write.from = 1
    BY <1>4
  <2>2. tabs[t] = old.write.rows /\ HasDays(tabs[t], d)
    BY <1>5, <2>1
  <2>3. UpTo(tabs[t], d) = tabs[t]
    <3> HIDE DEF d
    <3> QED BY <2>2, UpToAll
  <2> QED BY <1>2, <2>1, <2>2, <2>3
<1> QED BY <1>4, <1>6, <1>7, <1>8, <1>9 DEF RowsInv

LEMMA RunStepSound ==
  ASSUME OneRun, LInv, NEW r \in Runs, RunStep(r)
  PROVE  RowsInv'
<1>1. lastComplete \in Nat
  BY LedgerAssumption DEF LInv, IInv, TypeOK
<1>2. CASE BeginCatchUp(r)
  BY <1>2, BeginCatchUpSound
<1>3. CASE NothingToDo(r)
  BY <1>1, <1>3, NothingMoved DEF NothingToDo
<1>4. CASE CursorUnreadable(r)
  BY <1>1, <1>4, NothingMoved DEF CursorUnreadable
<1>5. CASE ComputeAndMark(r)
  BY <1>5, ComputeAndMarkSound
<1>6. CASE Append_(r)
  BY <1>6, AppendSound
<1>7. CASE Put(r)
  BY <1>7, KindsOfWriting, ResettingWrites, WritingPuts, FillingPuts DEF Put
<1>8. CASE ClearTail(r)
  BY <1>8, ClearTailSound
<1>9. CASE CommitDay(r)
  BY <1>9, CommitDaySound
<1>10. CASE CommitBackfill(r)
  BY <1>10, CommitBackfillSound
<1> QED BY <1>2, <1>3, <1>4, <1>5, <1>6, <1>7, <1>8, <1>9, <1>10 DEF RunStep

LEMMA LedgerStep == OneRun /\ LInv /\ [Next]_vars => LInv'
<1> SUFFICES ASSUME OneRun, LInv, [Next]_vars PROVE RowsInv'
  BY NextKeeps DEF LInv
<1>1. lastComplete \in Nat
  BY LedgerAssumption DEF LInv, IInv, TypeOK
<1>2. CASE NewBlock
  <2>1. lastComplete' \in Nat /\ lastComplete <= lastComplete'
    BY <1>1, <1>2 DEF NewBlock
  <2> QED BY <1>2, <2>1, NothingMoved DEF NewBlock
<1>3. CASE StartService
  BY <1>1, <1>3, NothingMoved DEF StartService
<1>4. CASE Backfill
  BY <1>4, BeginBackfillSound DEF Backfill
<1>5. CASE Die
  <2>1. PICK r \in Runs : TRUE
    BY LedgerAssumption
  <2> QED BY <1>5, <2>1, RunsStop DEF Die
<1>6. CASE DieSavingCursor
  <2>1. PICK r \in Runs : TRUE
    BY LedgerAssumption
  <2> QED BY <1>6, <2>1, RunsStop DEF DieSavingCursor
<1>7. ASSUME NEW r \in Runs, RunStep(r) PROVE RowsInv'
  BY <1>7, RunStepSound
<1>8. ASSUME NEW r \in Runs, RunFails(r) PROVE RowsInv'
  <2>1. r \in {r}
    OBVIOUS
  <2> QED BY <1>8, <2>1, RunsStop DEF RunFails
<1>9. CASE UNCHANGED vars
  BY <1>1, <1>9, NothingMoved DEF vars
<1> QED BY <1>2, <1>3, <1>4, <1>5, <1>6, <1>7, <1>8, <1>9 DEF Next

LEMMA LedgerStart == Init => LInv
<1> SUFFICES ASSUME Init PROVE RowsInv
  BY InitHolds DEF LInv
<1>1. \A r \in Runs : runs[r] = Idle
  BY DEF Init
<1>2. ASSUME NEW r \in Runs PROVE RunSound(r)
  BY <1>1 DEF RunSound, Idle, Resetting, Computing, Writing, Filling
<1>3. cursor = NoCursor /\ cursor \notin Cursor /\ \A t \in Tabs : tabs[t] = <<>>
  BY LedgerAssumption DEF Init
<1>4. 0 \in 0..lastComplete
  BY DEF Init
<1>5. LedgerDays /\ NothingBeforeCursor /\ CursorDays /\ CursorSums
  BY <1>3, <1>4, HasNone DEF LedgerDays, NothingBeforeCursor, CursorDays, CursorSums
<1> QED BY <1>2, <1>5 DEF RowsInv

\* One run at a time, whichever request fails and wherever the process is
\* killed: row i of each tab is day i, until a backfill dies half-way.
THEOREM LedgerHasOneRowPerDay == ASSUME OneRun PROVE Spec => []OneRowPerDay
<1>1. LInv => OneRowPerDay
  <2> SUFFICES ASSUME LInv, intact, NEW t \in Tabs
               PROVE  \A i \in DOMAIN tabs[t] : tabs[t][i].day = i
    BY DEF OneRowPerDay
  <2>1. PICK n \in 0..lastComplete : HasDays(tabs[t], n)
    BY DEF LInv, RowsInv, LedgerDays
  <2> QED BY <2>1 DEF HasDays
<1>2. LInv /\ [Next]_vars => LInv'
  BY LedgerStep
<1> QED BY <1>1, <1>2, LedgerStart, PTL DEF Spec

\* One run at a time, what the tabs have accrued up to the committed day is what
\* the cursor recorded there, whatever the missed slots, rewards, claims and
\* failed balance reads, until an estimate falls back behind the one before it.
THEOREM LedgerDoesNotDrift == ASSUME OneRun PROVE Spec => []NoDrift
<1>1. LInv => NoDrift
  <2> SUFFICES ASSUME LInv, ~Backfilling PROVE NoDrift
    BY DEF NoDrift
  <2>1. ~Halfway
    BY DEF Halfway, Backfilling, HalfWritten
  <2> QED BY <2>1 DEF LInv, RowsInv, CursorSums, NoDrift
<1>2. LInv /\ [Next]_vars => LInv'
  BY LedgerStep
<1> QED BY <1>1, <1>2, LedgerStart, PTL DEF Spec

-----------------------------------------------------------------------------
\* Each tab implements DailyLedger.

\* A step of the daily ledger kept in one tab.
Records(t) ==
  /\ Settled /\ Settled'
  /\ SettledAt'.day = SettledAt.day + 1
  /\ SettledRows(t)' =
       Append(SettledRows(t),
         [day |-> SettledAt'.day,
          accrued |-> SettledAt'.bal - SettledAt.bal
                        + Claims(SettledAt.block, SettledAt'.block)])

Unsettles(t) == Settled /\ ~Settled' /\ SettledRows(t)' = <<>> /\ SettledAt' = Genesis

Settles(t) ==
  /\ ~Settled /\ Settled'
  /\ Len(SettledRows(t)') = SettledAt'.day
  /\ \A i \in DOMAIN SettledRows(t)' : SettledRows(t)'[i].day = i

DailyStep(t) ==
  Records(t) \/ Unsettles(t) \/ Settles(t) \/ UNCHANGED <<Settled, SettledRows(t), SettledAt>>

\* What the cursor vouches for is there.
HasSettledDays(t) ==
  /\ Len(SettledRows(t)) = SettledAt.day
  /\ \A i \in DOMAIN SettledRows(t) : SettledRows(t)[i].day = i

LEMMA SettledDays == LInv /\ Settled => \A t \in Tabs : HasSettledDays(t)
<1> SUFFICES ASSUME LInv, Settled, NEW t \in Tabs PROVE HasSettledDays(t)
  OBVIOUS
<1> DEFINE c == cursor.at.day
           tab == tabs[t]
<1>1. cursor \in Cursor /\ intact /\ ~Halfway /\ c \in Nat
  BY LedgerAssumption DEF Settled, Backfilling, Halfway, HalfWritten, Cursor, Boundary
<1>2. \E n \in {c, c + 1} : HasDays(tab, n)
  BY <1>1 DEF LInv, RowsInv, CursorDays
<1>3. PICK n \in {c, c + 1} : HasDays(tab, n)
  BY <1>2
<1>4. SettledRows(t) = UpTo(tab, c) /\ SettledAt = cursor.at
  BY DEF SettledRows, Settled, SettledAt
<1> HIDE DEF tab, c
<1>5. UpTo(tab, c) = [i \in 1..c |-> tab[i]]
  <2>1. c \in 0..n
    BY <1>1, <1>3
  <2> QED BY <1>3, <2>1, UpToDay
<1>6. \A i \in 1..c : tab[i].day = i /\ tab[i] \in RowT
  BY <1>1, <1>3 DEF HasDays
<1>7. Len(UpTo(tab, c)) = c /\ \A i \in DOMAIN UpTo(tab, c) : UpTo(tab, c)[i].day = i
  BY <1>1, <1>5, <1>6
<1> QED BY <1>4, <1>7 DEF c, HasSettledDays

\* Committing a day records it.
LEMMA CommitRecords ==
  ASSUME OneRun, LInv, Settled, Settled', NEW r \in Runs, CommitDay(r), NEW t \in Tabs
  PROVE  Records(t)
<1> DEFINE old == runs[r]
           d == old.day
           c == old.open.day
           tab == tabs[t]
           row == Row(old.open, old.close)
<1>1. /\ old \in Run /\ old.kind = "catchup" /\ old.pc = "commit" /\ old.write.then = "commit"
      /\ WritingSound(r) /\ old.close.day = d /\ RunAhead(old)
  BY DEF LInv, RowsInv, IInv, TypeOK, RunsAhead, RunSound, Writing, RunAhead, CommitDay
<1>2. /\ d = c + 1 /\ c \in Nat
      /\ cursor = [at |-> old.open, pending |-> d]
  BY <1>1, LedgerAssumption DEF RunAhead, WritingSound, Run, Boundary
<1>3. cursor' = [at |-> old.close, pending |-> NoDay] /\ tabs' = tabs
  BY DEF CommitDay, Committed
<1>4. SettledAt = old.open /\ SettledAt' = old.close
  BY <1>2, <1>3 DEF SettledAt
<1>5. SettledRows(t) = UpTo(tab, c) /\ SettledRows(t)' = UpTo(tab, d)
  BY <1>1, <1>2, <1>3 DEF SettledRows
<1>6. HasDays(tab, d) /\ tab[d] = row
  BY <1>1 DEF WritingSound, Touched, Settled
<1>7. row = [day |-> old.close.day,
             accrued |-> old.close.bal - old.open.bal
                           + Claims(old.open.block, old.close.block)]
  BY DEF Row, Accrued
<1>8. UpTo(tab, d) = Append(UpTo(tab, c), row)
  <2> HIDE DEF tab, c, d, row
  <2>1. UpTo(tab, d) = tab
    BY <1>6, UpToAll
  <2>2. c \in 0..d /\ tab \in [1..(c + 1) -> RowT] /\ tab[c + 1] = row /\ row \in RowT
    BY <1>2, <1>6 DEF HasDays
  <2>3. UpTo(tab, c) = [i \in 1..c |-> tab[i]]
    BY <1>6, <2>2, UpToDay
  <2>4. tab = Append([i \in 1..c |-> tab[i]], row)
    BY <1>2, <2>2
  <2> QED BY <2>1, <2>3, <2>4
<1> QED BY <1>1, <1>2, <1>4, <1>5, <1>7, <1>8 DEF Records

\* No other step of a run moves the committed days or where they end.
LEMMA RunStepRecords ==
  ASSUME OneRun, LInv, Settled, Settled', NEW r \in Runs, RunStep(r), NEW t \in Tabs
  PROVE  DailyStep(t)
<1> SUFFICES ASSUME ~CommitDay(r)
             PROVE  UNCHANGED <<cursor.at, UpTo(tabs[t], cursor.at.day)>>
  BY CommitRecords DEF DailyStep, SettledRows, SettledAt
<1>1. cursor \in Cursor /\ intact /\ ~Backfilling
  BY DEF Settled
<1>2. CASE BeginCatchUp(r)
  BY <1>2 DEF BeginCatchUp
<1>3. CASE NothingToDo(r)
  BY <1>3 DEF NothingToDo
<1>4. CASE CursorUnreadable(r)
  BY <1>4 DEF CursorUnreadable
<1>5. CASE ComputeAndMark(r)
  <2>1. ComputingSound(r)
    BY <1>5 DEF ComputeAndMark, LInv, RowsInv, RunSound, Computing
  <2>2. cursor.at = runs[r].open
    BY <1>1, <2>1, LedgerAssumption DEF ComputingSound
  <2> QED BY <1>5, <2>2 DEF ComputeAndMark
<1>6. CASE Append_(r)
  BY <1>1, <1>6, AppendSound DEF CommittedStay, Append_
<1>7. CASE Put(r)
  <2>1. CommittedStay
    BY <1>7, KindsOfWriting, ResettingWrites, WritingPuts, FillingPuts DEF Put
  <2> QED BY <1>1, <1>7, <2>1 DEF CommittedStay, Put
<1>8. CASE ClearTail(r)
  BY <1>1, <1>8, ClearTailSound DEF CommittedStay, ClearTail
<1>9. CASE CommitBackfill(r)
  BY <1>1, <1>9 DEF CommitBackfill, Backfilling
<1> QED BY <1>2, <1>3, <1>4, <1>5, <1>6, <1>7, <1>8, <1>9 DEF RunStep

LEMMA SettledDaysNext == LInv' /\ Settled' => \A t \in Tabs : HasSettledDays(t)'
<1>1. (LInv /\ Settled => \A t \in Tabs : HasSettledDays(t))'
  BY SettledDays, PTL
<1> QED BY <1>1

LEMMA StepIsDaily ==
  ASSUME OneRun, LInv, LInv', [Next]_vars, NEW t \in Tabs
  PROVE  DailyStep(t)
<1>1. CASE Settled /\ ~Settled'
  BY <1>1 DEF DailyStep, Unsettles, SettledRows, SettledAt
<1>2. CASE ~Settled /\ ~Settled'
  <2>1. SettledRows(t)' = SettledRows(t) /\ SettledAt' = SettledAt
    BY <1>2 DEF SettledRows, SettledAt
  <2>2. Settled' = Settled
    BY <1>2 DEF Settled
  <2> QED BY <2>1, <2>2 DEF DailyStep
<1>3. CASE ~Settled /\ Settled'
  <2>1. HasSettledDays(t)'
    BY <1>3, SettledDaysNext
  <2> QED BY <1>3, <2>1 DEF DailyStep, Settles, HasSettledDays
<1>4. CASE Settled /\ Settled'
  <2>1. ASSUME UNCHANGED <<cursor, tabs>> PROVE DailyStep(t)
    BY <1>4, <2>1 DEF DailyStep, SettledRows, SettledAt
  <2>2. CASE Backfill
    BY <2>1, <2>2 DEF Backfill, BeginBackfill
  <2>3. CASE DieSavingCursor
    BY <1>4, <2>3, LedgerAssumption DEF DieSavingCursor, Settled
  <2>4. ASSUME NEW r \in Runs, RunStep(r) PROVE DailyStep(t)
    BY <1>4, <2>4, RunStepRecords
  <2>5. ASSUME NEW r \in Runs, RunFails(r) PROVE DailyStep(t)
    BY <2>1, <2>5 DEF RunFails
  <2> QED BY <2>1, <2>2, <2>3, <2>4, <2>5 DEF Next, NewBlock, StartService, Die, vars
<1> QED BY <1>1, <1>2, <1>3, <1>4

\* One run at a time, each tab is a daily ledger: what is committed is there and
\* is never rewritten by the service, and grows by the next day only, computed
\* from where the last one ended, whatever fails and wherever it is killed.
THEOREM LedgerImplementsDaily == ASSUME OneRun PROVE Spec => ImplementsDailyLedger
<1>1. Init => LedgerTab!Init /\ TotalsTab!Init
  <2> SUFFICES ASSUME Init PROVE LedgerTab!Init /\ TotalsTab!Init
    OBVIOUS
  <2>1. ~Settled
    BY LedgerAssumption DEF Init, Settled
  <2> QED BY <2>1 DEF LedgerTab!Init, TotalsTab!Init, SettledRows, SettledAt, Genesis,
                      LedgerTab!Genesis, TotalsTab!Genesis
<1>2. LInv /\ LInv' /\ [Next]_vars =>
        /\ [LedgerTab!Next]_<<Settled, SettledRows("ledger"), SettledAt>>
        /\ [TotalsTab!Next]_<<Settled, SettledRows("totals"), SettledAt>>
  <2> SUFFICES ASSUME LInv, LInv', [Next]_vars
               PROVE  /\ [LedgerTab!Next]_<<Settled, SettledRows("ledger"), SettledAt>>
                      /\ [TotalsTab!Next]_<<Settled, SettledRows("totals"), SettledAt>>
    OBVIOUS
  <2>1. DailyStep("ledger") /\ DailyStep("totals")
    BY StepIsDaily DEF Tabs
  <2> QED BY <2>1 DEF DailyStep, Records, Unsettles, Settles, Genesis, Claims,
       LedgerTab!Next, LedgerTab!Claims, TotalsTab!Claims, LedgerTab!Record, LedgerTab!Unsettle, LedgerTab!Settle, LedgerTab!Genesis,
       TotalsTab!Next, TotalsTab!Record, TotalsTab!Unsettle, TotalsTab!Settle, TotalsTab!Genesis
<1>3. LInv /\ [Next]_vars => LInv'
  BY LedgerStep
<1> QED BY <1>1, <1>2, <1>3, LedgerStart, PTL
        DEF Spec, ImplementsDailyLedger, LedgerTab!Spec, TotalsTab!Spec
=============================================================================
