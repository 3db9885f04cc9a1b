------------------------------ MODULE Prefixes ------------------------------
(***************************************************************************)
(* Recursion and induction over the prefixes 0, 1, .., n of something of   *)
(* length n: the sum of a ledger's rows, the merge of one file's entries   *)
(* into another, the effects of a batch of changes.  Stated with sets and  *)
(* functions, so that they can be cited where no operator can be passed.   *)
(***************************************************************************)
EXTENDS Integers, Sequences, Functions, Selection, WellFoundedInduction, TLAPS

\* Every set of naturals that is not empty has a least element.
LEMMA Least ==
  ASSUME NEW S \in SUBSET Nat, S # {}
  PROVE  \E m \in S : \A k \in S : m <= k
<1> DEFINE R == OpToRel(<, Nat)
<1>1. IsWellFoundedOn(R, Nat)
  BY NatLessThanWellFounded
<1>2. PICK m \in S : \A k \in S : ~(<<k, m>> \in R)
  <2> HIDE DEF R
  <2> QED BY <1>1, WFMin
<1>3. ASSUME NEW k \in S PROVE m <= k
  <2>1. ~(k < m)
    BY <1>2 DEF OpToRel
  <2> QED BY <2>1
<1> QED BY <1>3

\* What holds of the empty prefix, and of a prefix whenever it holds of the one
\* before, holds of all.
LEMMA PrefixInduction ==
  ASSUME NEW n \in Nat, NEW P, 0 \in P, \A i \in 1..n : i - 1 \in P => i \in P
  PROVE  \A i \in 0..n : i \in P
<1> DEFINE Bad == {i \in 0..n : i \notin P}
<1> SUFFICES ASSUME Bad # {} PROVE FALSE
  OBVIOUS
<1>1. Bad \in SUBSET Nat
  OBVIOUS
<1>2. PICK m \in Bad : \A k \in Bad : m <= k
  <2> HIDE DEF Bad
  <2> QED BY <1>1, Least
<1>3. m # 0 /\ m \in 1..n /\ m - 1 \in 0..n
  OBVIOUS
<1>4. m - 1 \notin Bad
  BY <1>2, <1>3
<1> QED BY <1>3, <1>4

\* One step of a recursion for each of n prefixes, on values of S.
IsRecursion(step, n, S) == n \in Nat /\ step \in [1..n -> [S -> S]]

\* What the recursion gives for each prefix.
Unfolds(f, step, n, base) ==
  \A i \in 0..n : f[i] = IF i = 0 THEN base ELSE step[i][f[i - 1]]

\* A function that is defined on a prefix from its value on the one before.
LEMMA PrefixRecursion ==
  ASSUME NEW step, NEW n, NEW S, IsRecursion(step, n, S), NEW base, base \in S
  PROVE  \E f : f \in [0..n -> S] /\ Unfolds(f, step, n, base)
<1> USE DEF IsRecursion
<1> DEFINE Good == {k \in 0..n : \E f \in [0..k -> S] : Unfolds(f, step, k, base)}
<1>1. 0 \in Good
  <2> DEFINE h == [i \in 0..0 |-> base]
  <2>1. h \in [0..0 -> S] /\ h[0] = base
    OBVIOUS
  <2> HIDE DEF h
  <2>2. Unfolds(h, step, 0, base)
    BY <2>1 DEF Unfolds
  <2> QED BY <2>1, <2>2
<1>2. ASSUME NEW m \in 1..n, m - 1 \in Good PROVE m \in Good
  <2>1. m - 1 \in 0..n /\ m \in 0..n
    OBVIOUS
  <2>2. PICK g \in [0..(m-1) -> S] : Unfolds(g, step, m-1, base)
    BY <1>2
  <2> DEFINE new == step[m][g[m-1]]
             h == [i \in 0..m |-> IF i = m THEN new ELSE g[i]]
  <2>3. new \in S
    <3>1. g[m-1] \in S
      BY <2>1
    <3>2. step[m] \in [S -> S]
      OBVIOUS
    <3> QED BY <3>1, <3>2
  <2> HIDE DEF new
  <2>4. h \in [0..m -> S]
    <3>1. ASSUME NEW i \in 0..m, i # m PROVE i \in 0..(m-1)
      BY <3>1
    <3> QED BY <2>3, <3>1
  <2>5. Unfolds(h, step, m, base)
    <3> SUFFICES ASSUME NEW i \in 0..m
                 PROVE h[i] = IF i = 0 THEN base ELSE step[i][h[i-1]]
      BY DEF Unfolds
    <3>0. ASSUME NEW j \in 0..m PROVE h[j] = IF j = m THEN new ELSE g[j]
      OBVIOUS
    <3> HIDE DEF h
    <3>1. CASE i = m
      <4>1. h[i-1] = g[i-1]
        BY <3>1, <2>1, <3>0
      <4> QED BY <3>1, <2>1, <3>0, <4>1 DEF new
    <3>2. CASE i # m
      <4>1. i \in 0..(m-1)
        BY <3>2
      <4>2. h[i] = g[i] /\ (i # 0 => h[i-1] = g[i-1])
        BY <3>0, <3>2, <4>1
      <4>3. g[i] = IF i = 0 THEN base ELSE step[i][g[i-1]]
        BY <2>2, <4>1 DEF Unfolds
      <4> QED BY <4>2, <4>3
    <3> QED BY <3>1, <3>2
  <2> HIDE DEF h
  <2> QED BY <2>1, <2>4, <2>5
<1>3. n \in Good
  <2>1. \A m \in 1..n : m - 1 \in Good => m \in Good
    BY <1>2
  <2>2. \A i \in 0..n : i \in Good
    <3> HIDE DEF Good
    <3> QED BY <1>1, <2>1, PrefixInduction, Zenon
  <2> QED BY <2>2
<1> QED BY <1>3

-----------------------------------------------------------------------------
(* Selection, and what is left when the first element is taken.              *)

\* What is kept of every prefix of the sequence.
KeptUpTo(f, seq, wanted) ==
  /\ f[0] = <<>>
  /\ \A i \in 1..Len(seq) :
        f[i] = IF seq[i] \in wanted THEN Append(f[i - 1], seq[i]) ELSE f[i - 1]
  /\ Kept(seq, wanted) = f[Len(seq)]

LEMMA KeptPrefixes ==
  ASSUME NEW S, NEW seq \in Seq(S), NEW wanted
  PROVE  \E f \in [0..Len(seq) -> Seq(S)] : KeptUpTo(f, seq, wanted)
<1> DEFINE N == Len(seq)
           Next(i, x) == IF seq[i] \in wanted THEN Append(x, seq[i]) ELSE x
           step == [i \in 1..N |-> [x \in Seq(S) |-> Next(i, x)]]
           F == CHOOSE g : g = [i \in 0..N |-> IF i = 0 THEN <<>>
                                 ELSE IF seq[i] \in wanted THEN Append(g[i - 1], seq[i])
                                 ELSE g[i - 1]]
<1>1. N \in Nat /\ \A i \in 1..N : seq[i] \in S
  OBVIOUS
<1>2. ASSUME NEW i \in 1..N, NEW x \in Seq(S) PROVE Next(i, x) \in Seq(S)
  <2>1. Append(x, seq[i]) \in Seq(S)
    BY <1>1
  <2> QED BY <2>1
<1>3. step \in [1..N -> [Seq(S) -> Seq(S)]]
  <2> HIDE DEF Next, N
  <2> QED BY <1>2
<1>4. \A i \in 1..N : \A x \in Seq(S) : step[i][x] = Next(i, x)
  <2> HIDE DEF Next, N
  <2> QED OBVIOUS
<1>5. PICK f \in [0..N -> Seq(S)] :
        \A i \in 0..N : f[i] = IF i = 0 THEN <<>> ELSE step[i][f[i - 1]]
  <2> HIDE DEF step, N
  <2>1. <<>> \in Seq(S)
    OBVIOUS
  <2>2. IsRecursion(step, N, Seq(S))
    BY <1>1, <1>3 DEF IsRecursion
  <2>3. \E f : f \in [0..N -> Seq(S)] /\ Unfolds(f, step, N, <<>>)
    BY <2>1, <2>2, PrefixRecursion
  <2> QED BY <2>3 DEF Unfolds
<1>6. ASSUME NEW i \in 1..N
      PROVE  f[i] = IF seq[i] \in wanted THEN Append(f[i - 1], seq[i]) ELSE f[i - 1]
  <2>1. i \in 0..N /\ i # 0 /\ f[i - 1] \in Seq(S)
    BY <1>1
  <2>2. f[i] = step[i][f[i - 1]]
    <3> HIDE DEF step, N
    <3> QED BY <1>5, <2>1
  <2>3. f[i] = Next(i, f[i - 1])
    <3> HIDE DEF step, N, Next
    <3> QED BY <2>1, <2>2, <1>4
  <2> QED BY <2>3
<1>7. f[0] = <<>>
  <2>1. 0 \in 0..N
    BY <1>1
  <2> HIDE DEF step, N, Next, F
  <2> QED BY <1>5, <2>1
<1>8. f = [i \in 0..N |-> IF i = 0 THEN <<>>
                          ELSE IF seq[i] \in wanted THEN Append(f[i - 1], seq[i])
                          ELSE f[i - 1]]
  <2>1. \A i \in 0..N : i # 0 => i \in 1..N
    OBVIOUS
  <2> HIDE DEF N
  <2> QED BY <1>6, <1>7, <2>1
<1>9. F = [i \in 0..N |-> IF i = 0 THEN <<>>
                          ELSE IF seq[i] \in wanted THEN Append(F[i - 1], seq[i])
                          ELSE F[i - 1]]
  <2> HIDE DEF N
  <2> QED BY <1>8
<1>10. \A i \in 0..N : F[i] = f[i]
  <2> DEFINE Same == {i \in 0..N : F[i] = f[i]}
  <2>1. 0 \in Same
    <3> HIDE DEF F, N
    <3> QED BY <1>1, <1>7, <1>9
  <2>2. ASSUME NEW i \in 1..N, i - 1 \in Same PROVE i \in Same
    <3>1. i \in 0..N /\ i # 0
      OBVIOUS
    <3>2. F[i] = IF seq[i] \in wanted THEN Append(F[i - 1], seq[i]) ELSE F[i - 1]
      <4> HIDE DEF F, N
      <4> QED BY <1>9, <3>1
    <3> HIDE DEF F, N
    <3> QED BY <1>6, <2>2, <3>1, <3>2
  <2>3. \A i \in 0..N : i \in Same
    <3> HIDE DEF Same
    <3> QED BY <1>1, <2>1, <2>2, PrefixInduction, Zenon
  <2> QED BY <2>3
<1>11. Kept(seq, wanted) = F[N]
  BY DEF Kept
<1>12. Kept(seq, wanted) = f[N]
  <2> HIDE DEF F, N
  <2> QED BY <1>1, <1>10, <1>11
<1> HIDE DEF step, Next, F
<1> QED BY <1>6, <1>7, <1>12 DEF KeptUpTo

\* The places, in growing order, from which a sequence takes the elements of the
\* first n that are wanted.
TakenFrom(at, kept, seq, wanted, n) ==
  /\ DOMAIN at = DOMAIN kept
  /\ \A j \in DOMAIN at : at[j] \in 1..n /\ kept[j] = seq[at[j]]
  /\ \A j, k \in DOMAIN at : j < k => at[j] < at[k]
  /\ \A i \in 1..n : seq[i] \in wanted <=> \E j \in DOMAIN at : at[j] = i

LEMMA KeptPlaces ==
  ASSUME NEW S, NEW seq \in Seq(S), NEW wanted
  PROVE  /\ Kept(seq, wanted) \in Seq(S)
         /\ \E at \in Seq(Nat) : TakenFrom(at, Kept(seq, wanted), seq, wanted, Len(seq))
<1> DEFINE N == Len(seq)
<1>1. PICK f \in [0..N -> Seq(S)] : KeptUpTo(f, seq, wanted)
  BY KeptPrefixes
<1> DEFINE Good == {i \in 0..N : \E at \in Seq(Nat) : TakenFrom(at, f[i], seq, wanted, i)}
<1>2. N \in Nat
  OBVIOUS
<1>3. 0 \in Good
  <2>1. <<>> \in Seq(Nat) /\ DOMAIN <<>> = {} /\ f[0] = <<>> /\ 0 \in 0..N
    BY <1>1, <1>2 DEF KeptUpTo
  <2>2. \A i \in 1..0 : FALSE
    OBVIOUS
  <2>3. TakenFrom(<<>>, f[0], seq, wanted, 0)
    BY <2>1, <2>2 DEF TakenFrom
  <2> QED BY <2>1, <2>3
<1>4. ASSUME NEW n \in 1..N, n - 1 \in Good PROVE n \in Good
  <2>1. n \in 0..N /\ n - 1 \in 0..N /\ n \in Nat
    BY <1>2
  <2>2. PICK at \in Seq(Nat) : TakenFrom(at, f[n - 1], seq, wanted, n - 1)
    BY <1>4
  <2>3. \A i \in 1..n : i # n => i \in 1..(n - 1)
    BY <2>1
  <2>4. \A i \in 1..(n - 1) : i \in 1..n /\ i # n
    BY <2>1
  <2>5. f[n - 1] \in Seq(S) /\ seq[n] \in S
    BY <2>1
  <2>6. CASE seq[n] \notin wanted
    <3>1. f[n] = f[n - 1]
      BY <1>1, <2>6 DEF KeptUpTo
    <3>2. TakenFrom(at, f[n], seq, wanted, n)
      BY <2>2, <2>3, <2>4, <2>6, <3>1 DEF TakenFrom
    <3> QED BY <2>1, <3>2
  <2>7. CASE seq[n] \in wanted
    <3> DEFINE m == Len(at)
               new == Append(at, n)
               old == f[n - 1]
    <3>1. f[n] = Append(old, seq[n])
      BY <1>1, <2>7 DEF KeptUpTo
    <3>2. m \in Nat /\ DOMAIN at = 1..m /\ DOMAIN old = 1..m /\ Len(old) = m
      BY <2>2, <2>5 DEF TakenFrom
    <3>3. /\ new \in Seq(Nat) /\ DOMAIN new = 1..(m + 1)
          /\ new[m + 1] = n /\ \A j \in 1..m : new[j] = at[j]
      BY <2>1, <3>2
    <3>4. /\ DOMAIN Append(old, seq[n]) = 1..(m + 1)
          /\ Append(old, seq[n])[m + 1] = seq[n]
          /\ \A j \in 1..m : Append(old, seq[n])[j] = old[j]
      <4> HIDE DEF old
      <4> QED BY <2>5, <3>2 DEF old
    <3>5. /\ DOMAIN f[n] = 1..(m + 1)
          /\ f[n][m + 1] = seq[n]
          /\ \A j \in 1..m : f[n][j] = old[j]
      BY <3>1, <3>4
    <3>6. \A j \in 1..(m + 1) : j # m + 1 => j \in 1..m
      BY <3>2
    <3>7. /\ \A j \in 1..m : at[j] \in 1..(n - 1) /\ old[j] = seq[at[j]]
          /\ \A j, k \in 1..m : j < k => at[j] < at[k]
          /\ \A i \in 1..(n - 1) : seq[i] \in wanted <=> \E j \in 1..m : at[j] = i
      BY <2>2, <3>2 DEF TakenFrom
    <3> HIDE DEF new, old, m
    <3>8. \A j \in 1..(m + 1) : new[j] \in 1..n /\ f[n][j] = seq[new[j]]
      <4> TAKE j \in 1..(m + 1)
      <4>1. CASE j = m + 1
        BY <4>1, <3>3, <3>5, <2>1
      <4>2. CASE j # m + 1
        BY <4>2, <3>3, <3>5, <3>6, <3>7, <2>4
      <4> QED BY <4>1, <4>2
    <3>9. \A j, k \in 1..(m + 1) : j < k => new[j] < new[k]
      <4> SUFFICES ASSUME NEW j \in 1..(m + 1), NEW k \in 1..(m + 1), j < k
                   PROVE new[j] < new[k]
        OBVIOUS
      <4>1. j \in 1..m
        BY <3>2
      <4>2. new[j] = at[j] /\ at[j] \in 1..(n - 1)
        BY <3>3, <3>7, <4>1
      <4>3. CASE k = m + 1
        BY <4>2, <4>3, <3>3, <2>1
      <4>4. CASE k # m + 1
        BY <4>1, <4>2, <4>4, <3>3, <3>6, <3>7
      <4> QED BY <4>3, <4>4
    <3>10. \A i \in 1..n : seq[i] \in wanted <=> \E j \in 1..(m + 1) : new[j] = i
      <4> TAKE i \in 1..n
      <4>0. m + 1 \in 1..(m + 1) /\ \A j \in 1..m : j \in 1..(m + 1)
        BY <3>2
      <4>1. CASE i = n
        BY <4>0, <4>1, <2>7, <3>3
      <4>2. CASE i # n
        <5>1. i \in 1..(n - 1)
          BY <4>2, <2>3
        <5>2. ASSUME NEW j \in 1..(m + 1), new[j] = i PROVE \E k \in 1..m : at[k] = i
          BY <5>2, <4>2, <3>3, <3>6
        <5>3. ASSUME NEW k \in 1..m, at[k] = i PROVE \E j \in 1..(m + 1) : new[j] = i
          BY <5>3, <4>0, <3>3
        <5> QED BY <5>1, <5>2, <5>3, <3>7
      <4> QED BY <4>1, <4>2
    <3>11. TakenFrom(new, f[n], seq, wanted, n)
      BY <3>3, <3>5, <3>8, <3>9, <3>10 DEF TakenFrom
    <3> QED BY <2>1, <3>3, <3>11
  <2> QED BY <2>6, <2>7
<1>5. \A i \in 0..N : i \in Good
  <2> HIDE DEF Good, N
  <2> QED BY <1>2, <1>3, <1>4, PrefixInduction, Zenon
<1>6. N \in Good /\ N \in 0..N /\ f[N] \in Seq(S) /\ Kept(seq, wanted) = f[N]
  <2> HIDE DEF Good
  <2> QED BY <1>1, <1>2, <1>5 DEF KeptUpTo
<1> QED BY <1>6

\* What is kept are the wanted elements, each as often as it was there.
LEMMA KeptElements ==
  ASSUME NEW S, NEW seq \in Seq(S), NEW wanted
  PROVE  /\ Kept(seq, wanted) \in Seq(S)
         /\ Range(Kept(seq, wanted)) = Range(seq) \cap wanted
         /\ IsInjective(seq) => IsInjective(Kept(seq, wanted))
<1> DEFINE kept == Kept(seq, wanted)
<1>1. kept \in Seq(S) /\ DOMAIN kept = 1..Len(kept) /\ DOMAIN seq = 1..Len(seq)
  BY KeptPlaces
<1>2. PICK at \in Seq(Nat) : TakenFrom(at, kept, seq, wanted, Len(seq))
  BY KeptPlaces
<1> HIDE DEF kept
<1>3. /\ \A j \in DOMAIN kept : at[j] \in 1..Len(seq) /\ kept[j] = seq[at[j]]
      /\ \A j, k \in DOMAIN kept : j < k => at[j] < at[k]
      /\ \A i \in 1..Len(seq) : seq[i] \in wanted <=> \E j \in DOMAIN kept : at[j] = i
  BY <1>2 DEF TakenFrom
<1>4. Range(kept) = Range(seq) \cap wanted
  <2>1. ASSUME NEW x \in Range(kept) PROVE x \in Range(seq) /\ x \in wanted
    <3>1. PICK j \in DOMAIN kept : x = kept[j]
      BY DEF Range
    <3> QED BY <1>1, <1>3, <3>1 DEF Range
  <2>2. ASSUME NEW x \in Range(seq), x \in wanted PROVE x \in Range(kept)
    <3>1. PICK i \in 1..Len(seq) : x = seq[i]
      BY <1>1 DEF Range
    <3>2. PICK j \in DOMAIN kept : at[j] = i
      BY <1>3, <2>2, <3>1
    <3> QED BY <1>3, <3>1, <3>2 DEF Range
  <2> QED BY <2>1, <2>2
<1>5. ASSUME IsInjective(seq) PROVE IsInjective(kept)
  <2> SUFFICES ASSUME NEW j \in DOMAIN kept, NEW k \in DOMAIN kept, kept[j] = kept[k]
               PROVE  j = k
    BY DEF IsInjective
  <2>1. at[j] = at[k]
    BY <1>1, <1>3, <1>5 DEF IsInjective
  <2>2. j \in Int /\ k \in Int /\ at[j] \in Int
    BY <1>1, <1>3
  <2> QED BY <1>3, <2>1, <2>2
<1> QED BY <1>1, <1>4, <1>5 DEF kept

\* In a sequence without duplicates the first element is not in the rest.
LEMMA TailElements ==
  ASSUME NEW S, NEW seq \in Seq(S), IsInjective(seq), seq # <<>>
  PROVE  /\ Tail(seq) \in Seq(S) /\ IsInjective(Tail(seq))
         /\ Range(Tail(seq)) = Range(seq) \ {Head(seq)}
         /\ Head(seq) \in Range(seq)
<1> DEFINE N == Len(seq)
<1>1. /\ N \in Nat /\ N > 0 /\ DOMAIN seq = 1..N /\ Head(seq) = seq[1]
      /\ Tail(seq) \in Seq(S)
  OBVIOUS
<1>2. Len(Tail(seq)) = N - 1
  OBVIOUS
<1>3. DOMAIN Tail(seq) = 1..(N - 1)
  BY <1>1, <1>2
<1>4. \A i \in 1..(N - 1) : Tail(seq)[i] = seq[i + 1]
  BY <1>1, <1>2
<1>5. \A i \in 1..(N - 1) : i + 1 \in 1..N /\ i + 1 # 1
  BY <1>1
<1>6. \A i \in 1..N : i # 1 => i - 1 \in 1..(N - 1) /\ (i - 1) + 1 = i
  BY <1>1
<1>7. 1 \in 1..N
  BY <1>1
<1>8. \A i, j \in 1..N : seq[i] = seq[j] => i = j
  BY <1>1 DEF IsInjective
<1> HIDE DEF N
<1>9. IsInjective(Tail(seq))
  <2> SUFFICES ASSUME NEW i \in 1..(N - 1), NEW j \in 1..(N - 1), Tail(seq)[i] = Tail(seq)[j]
               PROVE  i = j
    BY <1>3 DEF IsInjective
  <2>1. i + 1 = j + 1
    BY <1>4, <1>5, <1>8
  <2> QED BY <1>1, <2>1
<1>10. ASSUME NEW x \in Range(Tail(seq)) PROVE x \in Range(seq) \ {Head(seq)}
  <2>1. PICK i \in 1..(N - 1) : x = seq[i + 1]
    BY <1>3, <1>4 DEF Range
  <2> QED BY <1>1, <1>5, <1>7, <1>8, <2>1 DEF Range
<1>11. ASSUME NEW x \in Range(seq), x # Head(seq) PROVE x \in Range(Tail(seq))
  <2>1. PICK i \in 1..N : x = seq[i]
    BY <1>1 DEF Range
  <2>2. x = Tail(seq)[i - 1] /\ i - 1 \in 1..(N - 1)
    BY <1>1, <1>4, <1>6, <1>11, <2>1
  <2> QED BY <1>3, <2>2 DEF Range
<1>12. Head(seq) \in Range(seq)
  BY <1>1, <1>7 DEF Range
<1> QED BY <1>1, <1>9, <1>10, <1>11, <1>12
=============================================================================
