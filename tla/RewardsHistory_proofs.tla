----------------------- MODULE RewardsHistory_proofs -----------------------
(***************************************************************************)
(* For any set of coinbases, any chain and any list of timestamps: the file *)
(* follows the history, and the backfill leaves no outdated split before    *)
(* the last change it has seen.                                             *)
(***************************************************************************)
EXTENDS RewardsHistory, FiniteSetTheorems, WellFoundedInduction, TLAPS

\* The cache is there from the backfill's first read to its end, and an hour is
\* filled from the cache that the purge compared the history with.
PhaseInv ==
  /\ backfill.pc \in {"begin", "done"} => cache = NoCache
  /\ backfill.pc \in {"prefetch", "fill"} => cache \in SUBSET Coinbases
  /\ backfill.pc = "begin" => backfill = NotBegun
  /\ backfill.pc = "prefetch" => backfill.compared = {}
  /\ backfill.pc = "fill" => backfill.compared = cache

\* What a live scrape holds names the split of its block, or was read from the
\* cache of a backfill that began before that block.
LiveInv ==
  /\ live.block <= head /\ backfill.latest <= head
  /\ \A s \in live.got : s.block <= live.block
  /\ \A s \in live.got :
        \/ s.split = Known(s.coinbase, s.block)
        \/ backfill.pc # "begin" /\ s.block > backfill.latest

-----------------------------------------------------------------------------
(* Blocks, hours and splits.                                                 *)

\* A nonempty set of blocks up to n has a last one.
LEMMA LatestIsLast ==
  ASSUME NEW n \in Nat, NEW S \in SUBSET (0..n), S # {}
  PROVE  Latest(S) \in S /\ \A x \in S : x <= Latest(S)
<1> DEFINE Distances == {n - b : b \in S}
           R == OpToRel(<, Nat)
<1>1. Distances \subseteq Nat /\ Distances # {}
  <2>1. \A b \in S : n - b \in Nat
    OBVIOUS
  <2>2. PICK b \in S : TRUE
    OBVIOUS
  <2>3. n - b \in Distances
    BY <2>2
  <2> QED BY <2>1, <2>3, Zenon
<1>2. \E d \in Distances : \A e \in Distances : ~ (<<e, d>> \in R)
  <2> HIDE DEF Distances
  <2> QED BY <1>1, NatLessThanWellFounded, WFMin
<1>3. PICK d \in Distances : \A e \in Distances : ~ (<<e, d>> \in R)
  BY <1>2
<1>4. \A e \in Distances : ~ (e < d)
  BY <1>1, <1>3 DEF OpToRel
<1>5. PICK b \in S : d = n - b
  BY <1>3
<1>6. ASSUME NEW x \in S PROVE x <= b
  <2>1. n - x \in Distances
    OBVIOUS
  <2>2. ~ (n - x < n - b)
    BY <1>4, <1>5, <2>1, Zenon
  <2>3. x \in Int /\ b \in Int
    OBVIOUS
  <2> QED BY <2>2, <2>3
<1> QED BY <1>5, <1>6 DEF Latest

\* The block search stays within the chain.
LEMMA BlockAtType ==
  ASSUME NEW to \in Nat, NEW h
  PROVE  BlockAt(h, to) \in 0..to
<1> DEFINE before == {b \in 0..to : TimeOf[b] <= h * TicksPerHour}
<1>1. before \in SUBSET (0..to)
  OBVIOUS
<1>2. CASE before = {}
  BY <1>2 DEF BlockAt
<1>3. CASE before # {}
  <2>1. Latest(before) \in before
    <3> HIDE DEF before
    <3> QED BY <1>1, <1>3, LatestIsLast
  <2> QED BY <1>3, <2>1 DEF BlockAt
<1> QED BY <1>2, <1>3

\* Hours count from zero.
LEMMA HourType ==
  ASSUME NEW b \in Blocks PROVE Hour(b) \in Nat
<1>1. TimeOf[b] \in Nat /\ TicksPerHour \in Nat /\ TicksPerHour > 0
  BY RewardsAssumption
<1> QED BY <1>1 DEF Hour

\* What the events tell is an allocation.
LEMMA KnownType ==
  ASSUME split \in [Coinbases -> Timelines], NEW c \in Coinbases, NEW b \in Blocks
  PROVE  Known(c, b) \in Allocations
<1>1. split[c][b] \in Allocations
  BY RewardsAssumption DEF Timelines, Blocks
<1> QED BY <1>1 DEF Known, Allocations

\* What a split's reader records is a snapshot.
LEMMA SeenType ==
  ASSUME TypeOK, NEW c \in Coinbases, NEW b \in Blocks
  PROVE  Seen(c, b) \in Snapshot
<1>1. Known(c, b) \in Allocations /\ Known(c, backfill.latest) \in Allocations
  BY KnownType DEF TypeOK
<1> QED BY <1>1 DEF Seen, SplitSeen, Snapshot

\* The chain a process starts on, and the file of the version before this one.
LEMMA LegacyType ==
  ASSUME head \in Blocks, split \in [Coinbases -> Timelines]
  PROVE  Legacy \in SUBSET Snapshot
<1>1. head \in Nat /\ 0..head \subseteq Blocks
  BY RewardsAssumption DEF Blocks
<1>2. \A h : BlockAt(h, head) \in Blocks
  BY <1>1, BlockAtType
<1>3. \A c \in Coinbases : Known(c, head) \in Allocations
  BY KnownType
<1> QED BY <1>2, <1>3 DEF Legacy, Snapshot

\* The hours that snapshots are dated in, and those the backfill has open.
LEMMA HoursType ==
  ASSUME TypeOK
  PROVE  FilledHours \subseteq Nat /\ OpenHours \subseteq Nat
<1>1. \A s \in history : Hour(s.block) \in Nat
  BY HourType DEF TypeOK, Snapshot
<1>2. backfill.hour \in Nat /\ Hour(backfill.latest) \in Nat
  BY HourType DEF TypeOK
<1> QED BY <1>1, <1>2 DEF FilledHours, OpenHours

\* Recording adds snapshots to the history and nothing else.
LEMMA RecordType ==
  ASSUME TypeOK, NEW S \in SUBSET Snapshot, Record(S)
  PROVE  /\ history' \in SUBSET Snapshot /\ timer' \in BOOLEAN
         /\ file' = file /\ saveFailed' = saveFailed
<1>1. Fresh(S) \subseteq S
  BY DEF Fresh
<1> QED BY <1>1 DEF TypeOK, Record

\* Every variable keeps its type.
LEMMA InitType == Init => TypeOK
<1> SUFFICES ASSUME Init PROVE TypeOK
  OBVIOUS
<1>1. head \in Blocks /\ split \in [Coinbases -> Timelines]
  BY DEF Init, Blocks
<1>2. file \in SUBSET Snapshot
  BY <1>1, LegacyType DEF Init
<1>3. 0 \in Blocks /\ 0 \in 0..MaxMisses /\ 0 \in 0..MaxFaults
  BY RewardsAssumption DEF Blocks
<1> QED BY <1>1, <1>2, <1>3 DEF Init, TypeOK, NotBegun, LiveOff

LEMMA FaultType == TypeOK /\ Fault => faults' \in 0..MaxFaults
BY RewardsAssumption DEF TypeOK, Fault

LEMMA LeaveOutType ==
  ASSUME TypeOK, NEW S, NEW b, MayLeaveOut(S, b) PROVE faults' \in 0..MaxFaults
BY FaultType DEF TypeOK, MayLeaveOut

\* A step of the chain or of the file.
LEMMA StorageType ==
  TypeOK /\ (NewBlock \/ Save \/ SaveFails) => TypeOK'
<1> SUFFICES ASSUME TypeOK, NewBlock \/ Save \/ SaveFails PROVE TypeOK'
  OBVIOUS
<1>1. CASE NewBlock
  <2>1. head' \in Blocks
    BY <1>1, RewardsAssumption DEF TypeOK, NewBlock, Blocks
  <2>2. split' \in [Coinbases -> Timelines]
    <3>1. PICK new \in [Coinbases -> Allocations] :
             split' = [c \in Coinbases |->
                          [b \in (-1)..MaxBlock |-> IF b > head THEN new[c] ELSE split[c][b]]]
      BY <1>1 DEF NewBlock
    <3> QED BY <3>1 DEF TypeOK, Timelines
  <2> QED BY <1>1, <2>1, <2>2 DEF TypeOK, NewBlock, storage
<1>2. CASE Save
  BY <1>2 DEF TypeOK, Save, chain
<1>3. CASE SaveFails
  BY <1>3, FaultType DEF TypeOK, SaveFails, chain
<1> QED BY <1>1, <1>2, <1>3

\* A step of the live scrape.
LEMMA LiveType ==
  ASSUME TypeOK,
         \/ LiveStart \/ LiveFails \/ LiveRecord
         \/ \E c \in Coinbases : LiveRead(c) \/ LiveSkip(c)
  PROVE  TypeOK'
<1>1. CASE LiveStart
  BY <1>1 DEF TypeOK, LiveStart, chain, storage
<1>2. CASE LiveFails
  <2>1. LiveOff \in [on : BOOLEAN, block : Blocks, todo : SUBSET Coinbases, got : SUBSET Snapshot]
    BY RewardsAssumption DEF LiveOff, Blocks
  <2> QED BY <1>2, <2>1, FaultType DEF TypeOK, LiveFails, chain, storage
<1>3. CASE LiveRecord
  <2>1. LiveOff \in [on : BOOLEAN, block : Blocks, todo : SUBSET Coinbases, got : SUBSET Snapshot]
    BY RewardsAssumption DEF LiveOff, Blocks
  <2>2. live.got \in SUBSET Snapshot /\ Record(live.got)
    BY <1>3 DEF TypeOK, LiveRecord
  <2>3. /\ history' \in SUBSET Snapshot /\ timer' \in BOOLEAN
        /\ file' = file /\ saveFailed' = saveFailed
    BY <2>2, RecordType
  <2> QED BY <1>3, <2>1, <2>3 DEF TypeOK, LiveRecord, chain
<1>4. ASSUME NEW c \in Coinbases, LiveRead(c) PROVE TypeOK'
  <2>1. Seen(c, live.block) \in Snapshot
    BY SeenType DEF TypeOK
  <2> QED BY <1>4, <2>1 DEF TypeOK, LiveRead, chain, storage
<1>5. ASSUME NEW c \in Coinbases, LiveSkip(c) PROVE TypeOK'
  BY <1>5, LeaveOutType DEF TypeOK, LiveSkip, chain, storage
<1> QED BY <1>1, <1>2, <1>3, <1>4, <1>5

\* A step of the backfill before it fills hours.
LEMMA PrepareType ==
  ASSUME TypeOK, PhaseInv,
         \/ BackfillBegin \/ BackfillBeginFails \/ Purge \/ BackfillEnd
         \/ \E c \in Coinbases : Prefetch(c) \/ PrefetchFails(c)
  PROVE  TypeOK'
<1>1. CASE BackfillBegin
  <2>1. backfill' \in [pc : {"begin", "prefetch", "fill", "done"}, latest : Blocks, hour : Nat,
                       filled : SUBSET Nat, todo : SUBSET Coinbases,
                       compared : SUBSET Coinbases, misses : 0..MaxMisses]
    <3>1. FilledHours \in SUBSET Nat /\ head \in Blocks /\ 0 \in 0..MaxMisses
      BY HoursType, RewardsAssumption DEF TypeOK
    <3>2. backfill' = [pc |-> backfill'.pc, latest |-> head, hour |-> 0, filled |-> FilledHours,
                       todo |-> Coinbases, compared |-> {}, misses |-> 0]
          /\ backfill'.pc \in {"done", "prefetch"}
      BY <1>1 DEF BackfillBegin, NotBegun
    <3> QED BY <3>1, <3>2
  <2>2. cache' \in (SUBSET Coinbases) \cup {NoCache}
    BY <1>1 DEF BackfillBegin
  <2> QED BY <1>1, <2>1, <2>2 DEF TypeOK, BackfillBegin, chain, storage
<1>2. CASE BackfillBeginFails
  BY <1>2, FaultType DEF TypeOK, BackfillBeginFails, chain, storage
<1>3. CASE Purge
  <2>1. backfill.pc = "prefetch" /\ history' \in SUBSET Snapshot
    BY <1>3 DEF TypeOK, Purge
  <2>2. timer' \in BOOLEAN
    BY <1>3, Zenon DEF TypeOK, Purge, ArmTimer
  <2>3. cache \in SUBSET Coinbases
    BY <1>3 DEF Purge, PhaseInv
  <2> QED BY <1>3, <2>1, <2>2, <2>3 DEF TypeOK, Purge, chain
<1>4. CASE BackfillEnd
  BY <1>4 DEF TypeOK, BackfillEnd, chain, storage
<1>5. ASSUME NEW c \in Coinbases, Prefetch(c) PROVE TypeOK'
  BY <1>5 DEF TypeOK, PhaseInv, Prefetch, chain, storage
<1>6. ASSUME NEW c \in Coinbases, PrefetchFails(c) PROVE TypeOK'
  BY <1>6, FaultType DEF TypeOK, PrefetchFails, chain, storage
<1> QED BY <1>1, <1>2, <1>3, <1>4, <1>5, <1>6

\* A step of the backfill on an hour, and a restart.
LEMMA FillType ==
  ASSUME TypeOK,
         \E h \in OpenHours : FillHour(h) \/ HourFails(h) \/ HourUnavailable(h)
  PROVE  TypeOK'
<1>0. PICK h \in OpenHours : FillHour(h) \/ HourFails(h) \/ HourUnavailable(h)
  OBVIOUS
<1>1. h \in Nat /\ h + 1 \in Nat /\ 0 \in 0..MaxMisses
  BY HoursType, RewardsAssumption
<1>2. CASE FillHour(h)
  <2>1. PICK skipped \in SUBSET Coinbases :
           /\ MayLeaveOut(skipped, BlockAt(h, backfill.latest))
           /\ Record({Seen(c, BlockAt(h, backfill.latest)) : c \in Coinbases \ skipped})
    BY <1>2 DEF FillHour
  <2>2. BlockAt(h, backfill.latest) \in Blocks
    <3>1. backfill.latest \in Nat /\ 0..backfill.latest \subseteq Blocks
      BY RewardsAssumption DEF TypeOK, Blocks
    <3> QED BY <3>1, BlockAtType
  <2>3. {Seen(c, BlockAt(h, backfill.latest)) : c \in Coinbases \ skipped} \in SUBSET Snapshot
    BY <2>2, SeenType
  <2>4. /\ history' \in SUBSET Snapshot /\ timer' \in BOOLEAN
        /\ file' = file /\ saveFailed' = saveFailed
    BY <2>1, <2>3, RecordType
  <2>5. faults' \in 0..MaxFaults
    BY <2>1, LeaveOutType
  <2> QED BY <1>1, <1>2, <2>4, <2>5 DEF TypeOK, FillHour, chain
<1>3. CASE HourFails(h)
  BY <1>1, <1>3, FaultType DEF TypeOK, HourFails, chain, storage
<1>4. CASE HourUnavailable(h)
  <2>1. backfill.misses + 1 < MaxMisses => backfill.misses + 1 \in 0..MaxMisses
    BY RewardsAssumption DEF TypeOK
  <2>2. /\ UNCHANGED <<chain, storage, live>> /\ faults' \in 0..MaxFaults
        /\ cache' \in (SUBSET Coinbases) \cup {NoCache}
    BY <1>4, FaultType DEF TypeOK, HourUnavailable, CacheAfterGivingUp
  <2>3. \/ /\ backfill.misses + 1 < MaxMisses
           /\ backfill' = [backfill EXCEPT !.hour = h + 1, !.misses = @ + 1]
        \/ backfill' = [backfill EXCEPT !.pc = "done"]
    BY <1>4 DEF HourUnavailable
  <2> QED BY <1>1, <2>1, <2>2, <2>3 DEF TypeOK, chain, storage
<1> QED BY <1>0, <1>2, <1>3, <1>4

LEMMA RestartType == TypeOK /\ Restart => TypeOK'
<1> SUFFICES ASSUME TypeOK, Restart PROVE TypeOK'
  OBVIOUS
<1>1. file' \in (SUBSET Snapshot) \cup {Torn} /\ history' \in SUBSET Snapshot
  BY DEF TypeOK, Restart, Loaded
<1>2. 0 \in Blocks /\ 0 \in 0..MaxMisses
  BY RewardsAssumption DEF Blocks
<1> QED BY <1>1, <1>2, FaultType DEF TypeOK, Restart, NotBegun, LiveOff, chain

\* The phases of the backfill and its cache.
LEMMA NextPhase ==
  TypeOK /\ PhaseInv /\ [Next]_vars => PhaseInv'
<1> SUFFICES ASSUME TypeOK, PhaseInv, [Next]_vars PROVE PhaseInv'
  OBVIOUS
<1>1. CASE UNCHANGED <<cache, backfill>>
  BY <1>1 DEF PhaseInv
<1>2. CASE BackfillBegin
  BY <1>2 DEF PhaseInv, BackfillBegin, NotBegun
<1>3. CASE BackfillBeginFails
  BY <1>3 DEF PhaseInv, BackfillBeginFails, NotBegun
<1>4. CASE Purge
  BY <1>4 DEF TypeOK, PhaseInv, Purge
<1>5. CASE BackfillEnd
  BY <1>5 DEF TypeOK, PhaseInv, BackfillEnd
<1>6. ASSUME NEW c \in Coinbases, Prefetch(c) \/ PrefetchFails(c) PROVE PhaseInv'
  BY <1>6 DEF TypeOK, PhaseInv, Prefetch, PrefetchFails
<1>7. ASSUME NEW h \in OpenHours, FillHour(h) \/ HourFails(h) \/ HourUnavailable(h) PROVE PhaseInv'
  BY <1>7 DEF TypeOK, PhaseInv, FillHour, HourFails, HourUnavailable, Filling, CacheAfterGivingUp
<1>8. CASE Restart
  BY <1>8 DEF PhaseInv, Restart, NotBegun
<1>9. CASE UNCHANGED vars
  BY <1>1, <1>9 DEF vars
<1>10. CASE \/ NewBlock \/ Save \/ SaveFails \/ LiveStart \/ LiveFails \/ LiveRecord
            \/ \E c \in Coinbases : LiveRead(c) \/ LiveSkip(c)
  BY <1>1, <1>10 DEF NewBlock, Save, SaveFails, LiveStart, LiveFails, LiveRecord, LiveRead, LiveSkip
<1> QED BY <1>2, <1>3, <1>4, <1>5, <1>6, <1>7, <1>8, <1>9, <1>10 DEF Next

\* The history's variables keep their types, whatever fails.
THEOREM RewardsTypeCorrect == Spec => [](TypeOK /\ PhaseInv)
<1>1. Init => TypeOK /\ PhaseInv
  BY InitType DEF Init, PhaseInv, NotBegun
<1>2. TypeOK /\ PhaseInv /\ [Next]_vars => (TypeOK /\ PhaseInv)'
  <2> SUFFICES ASSUME TypeOK, PhaseInv, [Next]_vars PROVE TypeOK'
    BY NextPhase
  <2>1. CASE UNCHANGED vars
    BY <2>1 DEF TypeOK, vars, chain, storage
  <2>2. CASE Next
    BY <2>2, StorageType, LiveType, PrepareType, FillType, RestartType DEF Next
  <2> QED BY <2>1, <2>2
<1> QED BY <1>1, <1>2, PTL DEF Spec

-----------------------------------------------------------------------------
(* The file.                                                                 *)

\* The file holds the history unless a write is due or the last one failed.
THEOREM HistoryIsSaved == Spec => []HistorySaved
<1>1. Init => HistorySaved
  <2> SUFFICES ASSUME Init PROVE HistorySaved
    OBVIOUS
  <2>1. TypeOK /\ file \in SUBSET Snapshot
    BY InitType DEF Init, TypeOK
  <2> QED BY <2>1, RewardsAssumption DEF Init, HistorySaved, Loaded
<1>2. TypeOK /\ HistorySaved /\ [Next]_vars => HistorySaved'
  <2> SUFFICES ASSUME TypeOK, HistorySaved, [Next]_vars PROVE HistorySaved'
    OBVIOUS
  <2>1. CASE UNCHANGED storage
    BY <2>1 DEF HistorySaved, Loaded, storage
  <2>2. ASSUME NEW S \in SUBSET Snapshot, Record(S) PROVE HistorySaved'
    BY <2>2 DEF HistorySaved, Loaded, Record
  <2>3. CASE Save
    BY <2>3, RewardsAssumption DEF TypeOK, Save, HistorySaved, Loaded
  <2>4. CASE SaveFails
    BY <2>4 DEF SaveFails, HistorySaved
  <2>5. CASE LiveRecord
    BY <2>2, <2>5 DEF TypeOK, LiveRecord
  <2>6. CASE Purge
    BY <2>6 DEF Purge, ArmTimer, HistorySaved, Loaded
  <2>7. ASSUME NEW h \in OpenHours, FillHour(h) PROVE HistorySaved'
    <3>1. PICK skipped \in SUBSET Coinbases :
             Record({Seen(c, BlockAt(h, backfill.latest)) : c \in Coinbases \ skipped})
      BY <2>7 DEF FillHour
    <3> QED BY <3>1 DEF HistorySaved, Loaded, Record
  <2>8. CASE Restart
    BY <2>8 DEF Restart, HistorySaved
  <2>9. CASE UNCHANGED vars
    BY <2>1, <2>9 DEF vars
  <2>10. CASE \/ NewBlock \/ LiveStart \/ LiveFails
              \/ \E c \in Coinbases : LiveRead(c) \/ LiveSkip(c)
              \/ BackfillBegin \/ BackfillBeginFails \/ BackfillEnd
              \/ \E c \in Coinbases : Prefetch(c) \/ PrefetchFails(c)
              \/ \E h \in OpenHours : HourFails(h) \/ HourUnavailable(h)
    BY <2>1, <2>10 DEF NewBlock, LiveStart, LiveFails, LiveRead, LiveSkip, BackfillBegin,
       BackfillBeginFails, BackfillEnd, Prefetch, PrefetchFails, HourFails, HourUnavailable
  <2> QED BY <2>3, <2>4, <2>5, <2>6, <2>7, <2>8, <2>9, <2>10 DEF Next
<1> QED BY <1>1, <1>2, RewardsTypeCorrect, PTL DEF Spec

-----------------------------------------------------------------------------
(* The attribution.                                                          *)

\* Splits up to the head stay what they are when the chain grows, and so does what
\* the events up to such a block tell.
LEMMA SplitsStay ==
  ASSUME TypeOK, NewBlock
  PROVE  /\ \A c \in Coinbases, b \in (-1)..MaxBlock : b <= head => split'[c][b] = split[c][b]
         /\ head' \in Nat /\ head < head'
<1>1. head \in Nat /\ MaxBlock \in Nat /\ head' = head + 1
  BY RewardsAssumption DEF TypeOK, NewBlock, Blocks
<1>2. PICK new \in [Coinbases -> Allocations] :
         split' = [c \in Coinbases |->
                      [b \in (-1)..MaxBlock |-> IF b > head THEN new[c] ELSE split[c][b]]]
  BY DEF NewBlock
<1> QED BY <1>1, <1>2

LEMMA EventsStay ==
  ASSUME TypeOK, NewBlock, NEW c \in Coinbases, NEW to \in Nat, to <= head
  PROVE  Changes(c, to)' = Changes(c, to) /\ Known(c, to)' = Known(c, to)
<1>1. head \in Nat /\ MaxBlock \in Nat /\ head <= MaxBlock
  BY RewardsAssumption DEF TypeOK, Blocks
<1>2. ASSUME NEW b \in 0..to
      PROVE  split'[c][b] = split[c][b] /\ split'[c][b - 1] = split[c][b - 1]
  <2>1. /\ b \in (-1)..MaxBlock /\ b <= head
        /\ b - 1 \in (-1)..MaxBlock /\ b - 1 <= head
    BY <1>1
  <2> QED BY <2>1, SplitsStay
<1>3. Changes(c, to)' = Changes(c, to)
  BY <1>2 DEF Changes
<1>4. split'[c][to] = split[c][to]
  BY <1>2
<1> QED BY <1>3, <1>4 DEF Known

\* The changes up to a block are between the start block and that one.
LEMMA ChangesType ==
  ASSUME NEW c \in Coinbases, NEW to \in Nat
  PROVE  Changes(c, to) \in SUBSET (0..to)
BY DEF Changes

\* Of a contract created since the start block the events tell the split in force.
LEMMA KnownIsInForce ==
  ASSUME NEW c \in Coinbases, NEW to \in Nat, split[c][-1] = NoSplit
  PROVE  Known(c, to) = split[c][to]
<1> SUFFICES ASSUME Changes(c, to) = {}, split[c][to] # NoSplit PROVE FALSE
  BY DEF Known
<1> DEFINE Some == {b \in 0..to : split[c][b] # NoSplit}
           R == OpToRel(<, Nat)
<1>1. Some \subseteq Nat /\ to \in Some
  OBVIOUS
<1>2. \E b \in Some : \A x \in Some : ~ (<<x, b>> \in R)
  <2> HIDE DEF Some
  <2>1. Some # {}
    BY <1>1
  <2> QED BY <1>1, <2>1, NatLessThanWellFounded, WFMin
<1>3. PICK b \in Some : \A x \in Some : ~ (<<x, b>> \in R)
  BY <1>2
<1>4. b \in 0..to /\ split[c][b] # NoSplit
  OBVIOUS
<1>5. split[c][b - 1] = NoSplit
  <2>1. CASE b = 0
    <3>1. b - 1 = -1
      BY <2>1
    <3> QED BY <3>1
  <2>2. CASE b # 0
    <3>1. b - 1 \in 0..to /\ b - 1 \in Nat /\ b - 1 < b
      BY <1>4, <2>2
    <3>2. <<b - 1, b>> \in R
      BY <1>4, <3>1 DEF OpToRel
    <3>3. ~ (b - 1 \in Some)
      BY <1>3, <3>2
    <3> QED BY <3>1, <3>3
  <2> QED BY <2>1, <2>2
<1>6. b \in Changes(c, to)
  BY <1>4, <1>5 DEF Changes
<1> QED BY <1>6

\* What is read at a block is what the events tell for it, or for an earlier block
\* of the cache.
LEMMA SeenSplit ==
  ASSUME TypeOK, PhaseInv, NEW c \in Coinbases, NEW b \in Blocks
  PROVE  LET s == Seen(c, b) IN
         /\ s.coinbase = c /\ s.block = b
         /\ \/ s.split = Known(c, b)
            \/ backfill.pc # "begin" /\ b > backfill.latest
<1>1. cache # NoCache => backfill.pc # "begin"
  BY DEF PhaseInv
<1>2. backfill.latest \in Int /\ b \in Int
  BY DEF TypeOK, Blocks
<1>3. \/ SplitSeen(c, b) = Known(c, b)
      \/ cache # NoCache /\ backfill.latest < b
  BY DEF SplitSeen
<1> QED BY <1>1, <1>2, <1>3 DEF Seen

LEMMA NextLive ==
  TypeOK /\ PhaseInv /\ LiveInv /\ [Next]_vars => LiveInv'
<1> SUFFICES ASSUME TypeOK, PhaseInv, LiveInv, [Next]_vars PROVE LiveInv'
  OBVIOUS
<1>0. head \in Nat /\ backfill.latest \in Nat /\ live.block \in Nat
  BY RewardsAssumption DEF TypeOK, Blocks
<1>1. CASE /\ UNCHANGED <<head, split, live>> /\ backfill'.latest = backfill.latest
           /\ backfill.pc # "begin" => backfill'.pc # "begin"
  BY <1>1 DEF LiveInv, Known, Changes
<1>2. CASE NewBlock
  <2>1. UNCHANGED <<live, backfill>>
    BY <1>2 DEF NewBlock
  <2>2. live.block <= head' /\ backfill.latest <= head'
    BY <1>0, <1>2, SplitsStay DEF LiveInv
  <2>3. ASSUME NEW s \in live.got
        PROVE  \/ s.split = Known(s.coinbase, s.block)'
               \/ backfill.pc # "begin" /\ s.block > backfill.latest
    <3>1. s \in Snapshot /\ s.block <= live.block
      BY DEF TypeOK, LiveInv
    <3>2. s.coinbase \in Coinbases /\ s.block \in Nat /\ s.block <= head
      BY <1>0, <3>1, RewardsAssumption DEF LiveInv, Snapshot, Blocks
    <3>3. Known(s.coinbase, s.block)' = Known(s.coinbase, s.block)
      BY <1>2, <3>2, EventsStay
    <3> QED BY <3>3 DEF LiveInv
  <2> QED BY <2>1, <2>2, <2>3 DEF LiveInv
<1>3. CASE LiveStart
  <2>1. UNCHANGED <<head, split, backfill>> /\ live'.block = head /\ live'.got = {}
    BY <1>3 DEF LiveStart, chain
  <2> QED BY <1>0, <2>1 DEF LiveInv
<1>4. CASE LiveFails \/ LiveRecord
  <2>1. UNCHANGED <<head, split, backfill>> /\ live' = LiveOff
    BY <1>4 DEF LiveFails, LiveRecord, chain
  <2> QED BY <1>0, <2>1 DEF LiveInv, LiveOff
<1>5. ASSUME NEW c \in Coinbases, LiveRead(c) PROVE LiveInv'
  <2>1. /\ UNCHANGED <<head, split, backfill>> /\ live'.block = live.block
        /\ live'.got = live.got \cup {Seen(c, live.block)}
    BY <1>5 DEF TypeOK, LiveRead, chain
  <2>2. LET s == Seen(c, live.block) IN
        /\ s.coinbase = c /\ s.block = live.block
        /\ \/ s.split = Known(c, live.block)
           \/ backfill.pc # "begin" /\ live.block > backfill.latest
    BY SeenSplit DEF TypeOK
  <2>3. Seen(c, live.block).block <= live.block
    BY <1>0, <2>2
  <2> QED BY <2>1, <2>2, <2>3 DEF LiveInv, Known, Changes
<1>6. ASSUME NEW c \in Coinbases, LiveSkip(c) PROVE LiveInv'
  <2>1. /\ UNCHANGED <<head, split, backfill>>
        /\ live'.block = live.block /\ live'.got = live.got
    BY <1>6 DEF TypeOK, LiveSkip, chain
  <2> QED BY <2>1 DEF LiveInv, Known, Changes
<1>7. CASE BackfillBegin
  <2>1. UNCHANGED <<head, split, live>> /\ backfill'.latest = head /\ backfill.pc = "begin"
    BY <1>7 DEF BackfillBegin, NotBegun, chain
  <2> QED BY <1>0, <2>1 DEF LiveInv, Known, Changes
<1>8. CASE BackfillBeginFails
  BY <1>1, <1>8 DEF TypeOK, BackfillBeginFails, chain
<1>9. CASE Purge \/ BackfillEnd
  BY <1>1, <1>9 DEF TypeOK, Purge, BackfillEnd, chain
<1>10. ASSUME NEW c \in Coinbases, Prefetch(c) \/ PrefetchFails(c) PROVE LiveInv'
  BY <1>1, <1>10 DEF TypeOK, Prefetch, PrefetchFails, chain
<1>11. ASSUME NEW h \in OpenHours, FillHour(h) \/ HourFails(h) \/ HourUnavailable(h) PROVE LiveInv'
  <2>1. UNCHANGED <<head, split, live>>
    BY <1>11 DEF FillHour, HourFails, HourUnavailable, chain
  <2>2. backfill'.latest = backfill.latest /\ backfill'.pc \in {"fill", "done"}
    BY <1>11 DEF TypeOK, FillHour, HourFails, HourUnavailable, Filling
  <2> QED BY <1>1, <2>1, <2>2
<1>12. CASE Restart
  <2>1. UNCHANGED <<head, split>> /\ live' = LiveOff /\ backfill' = NotBegun
    BY <1>12 DEF Restart, chain
  <2> QED BY <1>0, <2>1 DEF LiveInv, LiveOff, NotBegun
<1>13. CASE Save \/ SaveFails \/ UNCHANGED vars
  BY <1>1, <1>13 DEF Save, SaveFails, vars, chain
<1> QED BY <1>2, <1>3, <1>4, <1>5, <1>6, <1>7, <1>8, <1>9, <1>10, <1>11, <1>12, <1>13 DEF Next

\* Every snapshot of a compared coinbase from before the last of several events
\* names the split that the events tell.
EventsAttributed ==
  backfill.pc \in {"fill", "done"} =>
    \A s \in history :
      /\ s.coinbase \in backfill.compared
      /\ \E a, b \in Changes(s.coinbase, backfill.latest) : a < b /\ s.block < b
      => s.split = Known(s.coinbase, s.block)

\* Where the events tell the split in force, such a snapshot names that.
LEMMA AttributedInForce ==
  ASSUME TypeOK, EventsAttributed PROVE AttributedBeforeLastChange
<1>1. \A s \in history : s.coinbase \in Coinbases /\ s.block \in Nat
  BY RewardsAssumption DEF TypeOK, Snapshot, Blocks
<1>2. \A s \in history : split[s.coinbase][-1] = NoSplit
                            => Known(s.coinbase, s.block) = split[s.coinbase][s.block]
  BY <1>1, KnownIsInForce
<1> QED BY <1>2 DEF EventsAttributed, AttributedBeforeLastChange

\* Two events are two or more.
LEMMA TwoEvents ==
  ASSUME NEW c \in Coinbases, NEW to \in Nat, NEW a \in Changes(c, to), NEW b \in Changes(c, to),
         a < b
  PROVE  Cardinality(Changes(c, to)) >= 2
<1>1. Changes(c, to) \in SUBSET (0..to) /\ a # b
  BY ChangesType
<1>2. IsFiniteSet(Changes(c, to))
  <2>1. 0 \in Int /\ to \in Int
    OBVIOUS
  <2>2. IsFiniteSet(0..to)
    BY <2>1, FS_Interval
  <2> QED BY <1>1, <2>2, FS_Subset
<1>3. IsFiniteSet({b}) /\ Cardinality({b}) = 1
  BY FS_Singleton
<1>4. IsFiniteSet({b} \cup {a}) /\ Cardinality({b} \cup {a}) = 2
  <2>1. a \notin {b}
    BY <1>1
  <2>2. IsFiniteSet({b} \cup {a}) /\ Cardinality({b} \cup {a}) = Cardinality({b}) + 1
    BY <1>3, <2>1, FS_AddElement
  <2> QED BY <1>3, <2>2
<1>5. {b} \cup {a} \in SUBSET Changes(c, to)
  OBVIOUS
<1>6. Cardinality({b} \cup {a}) <= Cardinality(Changes(c, to))
  BY <1>2, <1>5, FS_Subset
<1>7. Cardinality(Changes(c, to)) \in Nat
  BY <1>2, FS_CardinalityType
<1> QED BY <1>4, <1>6, <1>7

\* The purge leaves nothing of a compared coinbase before the last of several events.
LEMMA PurgeAttributes ==
  ASSUME TypeOK, PhaseInv, Purge PROVE EventsAttributed'
<1>1. /\ history' = history \ Outdated /\ UNCHANGED <<head, split>>
      /\ backfill'.compared = cache /\ backfill'.latest = backfill.latest
  BY DEF TypeOK, Purge, chain
<1> SUFFICES ASSUME NEW s \in history \ Outdated, s.coinbase \in cache,
                    NEW a \in Changes(s.coinbase, backfill.latest),
                    NEW b \in Changes(s.coinbase, backfill.latest), a < b, s.block < b
             PROVE  FALSE
  BY <1>1 DEF EventsAttributed, Changes, Known
<1>2. s.coinbase \in Coinbases /\ s.block \in Nat /\ backfill.latest \in Nat
  BY RewardsAssumption DEF TypeOK, Snapshot, Blocks
<1>3. b <= Threshold(s.coinbase) /\ Threshold(s.coinbase) \in 0..backfill.latest /\ b \in Nat
  <2> DEFINE C == Changes(s.coinbase, backfill.latest)
  <2>1. C \in SUBSET (0..backfill.latest) /\ b \in C
    BY <1>2, ChangesType
  <2> HIDE DEF C
  <2>2. Latest(C) \in C /\ b <= Latest(C)
    BY <1>2, <2>1, LatestIsLast
  <2>3. Threshold(s.coinbase) = Latest(C)
    BY DEF Threshold, C
  <2>4. b \in 0..backfill.latest /\ Latest(C) \in 0..backfill.latest
    BY <2>1, <2>2
  <2> QED BY <1>2, <2>2, <2>3, <2>4
<1>4. s.block < Threshold(s.coinbase)
  BY <1>2, <1>3
<1>5. Cardinality(Changes(s.coinbase, backfill.latest)) >= 2
  BY <1>2, TwoEvents
<1> QED BY <1>4, <1>5 DEF Outdated

\* After a purge nothing is recorded that it would have removed, neither by the
\* backfill nor by a live scrape that read a stale cache.
THEOREM OutdatedSplitsAreGone == Spec => []AttributedBeforeLastChange
<1>1. Init => LiveInv /\ EventsAttributed
  BY RewardsAssumption DEF Init, LiveInv, EventsAttributed, LiveOff, NotBegun
<1>2. TypeOK /\ PhaseInv /\ LiveInv /\ EventsAttributed /\ [Next]_vars => EventsAttributed'
  <2> SUFFICES ASSUME TypeOK, PhaseInv, LiveInv, EventsAttributed, [Next]_vars
               PROVE  EventsAttributed'
    OBVIOUS
  <2>0. head \in Nat /\ backfill.latest \in Nat /\ backfill.latest <= head
    BY RewardsAssumption DEF TypeOK, Blocks, LiveInv
  <2>1. ASSUME UNCHANGED <<head, split>>, backfill'.latest = backfill.latest,
               backfill'.compared = backfill.compared,
               backfill'.pc \in {"fill", "done"} => backfill.pc \in {"fill", "done"},
               \A s \in history' \ history :
                  \/ s.split = Known(s.coinbase, s.block)
                  \/ s \in Snapshot /\ s.block > backfill.latest
        PROVE  EventsAttributed'
    <3> SUFFICES ASSUME backfill.pc \in {"fill", "done"}, NEW s \in history',
                        s.coinbase \in backfill.compared,
                        NEW a \in Changes(s.coinbase, backfill.latest),
                        NEW b \in Changes(s.coinbase, backfill.latest), a < b, s.block < b
                 PROVE  s.split = Known(s.coinbase, s.block)
      BY <2>1 DEF EventsAttributed, Changes, Known
    <3>1. CASE s \in history
      BY <3>1 DEF EventsAttributed
    <3>2. CASE s \notin history
      <4>1. CASE s \in Snapshot /\ s.block > backfill.latest
        <5>1. s.coinbase \in Coinbases /\ s.block \in Nat
          BY <4>1, RewardsAssumption DEF Snapshot, Blocks
        <5>2. b \in 0..backfill.latest
          BY <2>0, <5>1, ChangesType
        <5> QED BY <2>0, <4>1, <5>1, <5>2
      <4> QED BY <2>1, <3>2, <4>1
    <3> QED BY <3>1, <3>2
  <2>2. CASE NewBlock
    <3>1. UNCHANGED <<history, backfill>>
      BY <2>2 DEF NewBlock, storage
    <3>2. \A s \in history : s.coinbase \in Coinbases /\ s.block \in Nat
      BY RewardsAssumption DEF TypeOK, Snapshot, Blocks
    <3>3. \A s \in history :
             Changes(s.coinbase, backfill.latest)' = Changes(s.coinbase, backfill.latest)
      BY <2>0, <2>2, <3>1, <3>2, EventsStay
    <3>4. \A s \in history : s.block <= head =>
             Known(s.coinbase, s.block)' = Known(s.coinbase, s.block)
      BY <2>2, <3>2, EventsStay
    <3>5. ASSUME NEW s \in history, NEW b \in Changes(s.coinbase, backfill.latest), s.block < b
          PROVE  s.block <= head
      <4>1. b \in 0..backfill.latest
        BY <2>0, <3>2, ChangesType
      <4> QED BY <2>0, <3>2, <3>5, <4>1
    <3> SUFFICES ASSUME backfill.pc \in {"fill", "done"}, NEW s \in history,
                        s.coinbase \in backfill.compared,
                        NEW a \in Changes(s.coinbase, backfill.latest),
                        NEW b \in Changes(s.coinbase, backfill.latest), a < b, s.block < b
                 PROVE  s.split = Known(s.coinbase, s.block)'
      BY <3>1, <3>3 DEF EventsAttributed
    <3>6. s.split = Known(s.coinbase, s.block)
      BY DEF EventsAttributed
    <3> QED BY <3>4, <3>5, <3>6
  <2>3. CASE LiveRecord
    <3>1. /\ \A s \in history' \ history : s \in live.got
          /\ UNCHANGED <<head, split, backfill>>
      BY <2>3 DEF LiveRecord, Record, Fresh, chain
    <3> QED BY <2>1, <3>1 DEF LiveInv, TypeOK
  <2>4. CASE BackfillBegin
    <3>1. backfill'.compared = {}
      BY <2>4 DEF BackfillBegin, NotBegun
    <3> QED BY <3>1 DEF EventsAttributed
  <2>5. CASE BackfillBeginFails
    <3>1. backfill'.compared = {}
      BY <2>5 DEF BackfillBeginFails, PhaseInv, NotBegun
    <3> QED BY <3>1 DEF EventsAttributed
  <2>6. CASE Purge
    BY <2>6, PurgeAttributes
  <2>7. CASE BackfillEnd
    BY <2>1, <2>7 DEF TypeOK, BackfillEnd, chain, storage
  <2>8. ASSUME NEW c \in Coinbases, Prefetch(c) \/ PrefetchFails(c)
        PROVE  EventsAttributed'
    BY <2>1, <2>8 DEF TypeOK, Prefetch, PrefetchFails, chain, storage
  <2>9. ASSUME NEW h \in OpenHours, FillHour(h) PROVE EventsAttributed'
    <3>1. PICK skipped \in SUBSET Coinbases :
             Record({Seen(c, BlockAt(h, backfill.latest)) : c \in Coinbases \ skipped})
      BY <2>9 DEF FillHour
    <3>2. BlockAt(h, backfill.latest) \in Blocks /\ ~ (BlockAt(h, backfill.latest) > backfill.latest)
      <4>1. BlockAt(h, backfill.latest) \in 0..backfill.latest
        BY <2>0, BlockAtType
      <4> QED BY <2>0, <4>1, RewardsAssumption DEF TypeOK, Blocks
    <3>3. \A c \in Coinbases : LET s == Seen(c, BlockAt(h, backfill.latest)) IN
             s.split = Known(s.coinbase, s.block)
      BY <3>2, SeenSplit
    <3>4. \A s \in history' \ history : s.split = Known(s.coinbase, s.block)
      BY <3>1, <3>3 DEF Record, Fresh
    <3>5. /\ UNCHANGED <<head, split>> /\ backfill.pc = "fill"
          /\ backfill'.latest = backfill.latest /\ backfill'.compared = backfill.compared
      BY <2>9 DEF TypeOK, FillHour, Filling, chain
    <3> QED BY <2>1, <3>4, <3>5
  <2>10. ASSUME NEW h \in OpenHours, HourFails(h) \/ HourUnavailable(h)
         PROVE  EventsAttributed'
    <3>1. /\ UNCHANGED <<head, split, history>> /\ backfill.pc = "fill"
          /\ backfill'.latest = backfill.latest /\ backfill'.compared = backfill.compared
      BY <2>10 DEF TypeOK, HourFails, HourUnavailable, Filling, chain, storage
    <3> QED BY <2>1, <3>1
  <2>11. CASE Restart
    BY <2>11 DEF Restart, NotBegun, EventsAttributed
  <2>12. CASE \/ Save \/ SaveFails \/ LiveStart \/ LiveFails \/ UNCHANGED vars
              \/ \E c \in Coinbases : LiveRead(c) \/ LiveSkip(c)
    <3>1. UNCHANGED <<head, split, history, backfill>>
      BY <2>12 DEF Save, SaveFails, LiveStart, LiveFails, LiveRead, LiveSkip, vars, chain, storage
    <3> QED BY <2>1, <3>1
  <2> QED BY <2>2, <2>3, <2>4, <2>5, <2>6, <2>7, <2>8, <2>9, <2>10, <2>11, <2>12 DEF Next
<1>3. TypeOK /\ EventsAttributed => AttributedBeforeLastChange
  BY AttributedInForce
<1> QED BY <1>1, <1>2, <1>3, RewardsTypeCorrect, NextLive, PTL DEF Spec
=============================================================================
