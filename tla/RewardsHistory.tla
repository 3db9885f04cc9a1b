--------------------------- MODULE RewardsHistory ---------------------------
(* The staking rewards history of the server: StakingRewardsScraper's live     *)
(* scrape and its backfill, which run concurrently from the moment the         *)
(* scraper is initialised, the snapshots they record, and the debounced file   *)
(* that hands them to the next process.  A coinbase pays through a split       *)
(* contract, which tells its split in an event when it is created and whenever *)
(* it is updated; a snapshot should name the split that was active at its      *)
(* block.  Only events from the start block on are read.  Blocks count from    *)
(* that block, 0, and hours from that block's; -1 is all that was before.      *)
EXTENDS Integers, FiniteSets

CONSTANTS
    Coinbases,
    Splits,          \* allocations a split contract may have
    FirstSplit,      \* the allocation of a new split contract
    NoSplit,         \* no allocation: no contract yet, or none that is known
    MaxBlock,        \* bound on the chain
    TimeOf,          \* timestamp of each block, in ticks
    TicksPerHour,
    MaxMisses,       \* MAX_CONSECUTIVE_ERRORS
    MaxFaults,       \* bound on failed reads and writes and on restarts
    NoCache,         \* splitHistoryCache = null
    Torn             \* a file JSON.parse rejects

Blocks == 0..MaxBlock
Allocations == Splits \cup {NoSplit}
Timelines == [(-1)..MaxBlock -> Allocations]
Snapshot == [coinbase : Coinbases, block : Blocks, split : Allocations]

ASSUME RewardsAssumption ==
    /\ MaxBlock \in Nat /\ MaxFaults \in Nat /\ FirstSplit \in Splits /\ NoSplit \notin Splits
    /\ MaxMisses \in Nat \ {0} /\ TicksPerHour \in Nat \ {0}
    /\ TimeOf \in [Blocks -> Nat] /\ TimeOf[0] < TicksPerHour
    /\ \A b \in 1..MaxBlock : TimeOf[b - 1] < TimeOf[b]
    /\ \A S \in SUBSET Coinbases : S # NoCache
    /\ \A S \in SUBSET Snapshot : S # Torn

VARIABLES
    head,            \* the chain's last block
    split,           \* [Coinbases -> Timelines]: in force; the last one extends past head
    faults,
    history,         \* stakingRewardsHistory
    file, timer,     \* its file; rewardsSaveTimer is set
    saveFailed,      \* the last write failed
    cache,           \* splitHistoryCache: the coinbases it holds
    backfill,        \* the backfill of this process
    live             \* the live scrape in progress

chain == <<head, split>>
storage == <<history, file, timer, saveFailed>>
vars == <<chain, faults, storage, cache, backfill, live>>

Fault == faults < MaxFaults /\ faults' = faults + 1

\* alignTimestampToHour; the mistake is an hour too early.
HourBefore(b) == (TimeOf[b] \div TicksPerHour) - 1
Hour(b) == TimeOf[b] \div TicksPerHour
Latest(S) == CHOOSE b \in S : \A x \in S : x <= b
Earliest(S) == CHOOSE h \in S : \A x \in S : h <= x

\* The blocks of the SplitUpdated events from the start block up to a block; the first
\* one is the creation of the contract, unless that was before the start block.
Changes(c, to) == {b \in 0..to : split[c][b] # split[c][b - 1]}

\* The split these events name: none for an older contract that has not changed.
Known(c, to) == IF Changes(c, to) = {} THEN NoSplit ELSE split[c][to]

------------------------------------------------------------------------------
(* The chain (external).                                                       *)

\* What may follow a split: an update, or the creation of the contract.
Follows(old) == IF old = NoSplit THEN {NoSplit, FirstSplit} ELSE Splits

NewBlock ==
    /\ head < MaxBlock
    /\ head' = head + 1
    /\ \E new \in [Coinbases -> Allocations] :
          /\ \A c \in Coinbases : new[c] \in Follows(split[c][head])
          /\ split' = [c \in Coinbases |->
                          [b \in (-1)..MaxBlock |-> IF b > head THEN new[c] ELSE split[c][b]]]
    /\ UNCHANGED <<faults, storage, cache, backfill, live>>

------------------------------------------------------------------------------
(* The history and its file.                                                   *)

\* One snapshot per coinbase and block: the first one stays.
Fresh(S) == {s \in S : \A e \in history : <<e.coinbase, e.block>> # <<s.coinbase, s.block>>}

Record(S) ==
    /\ history' = history \cup Fresh(S)
    /\ timer' = (timer \/ Fresh(S) # {})
    /\ UNCHANGED <<file, saveFailed>>

\* The mistake is to arm the timer for new snapshots only.
ArmTimerForNew(removed) == timer
ArmTimer(removed) == (timer \/ removed # {})

Save ==
    /\ timer /\ timer' = FALSE
    /\ file' = history /\ saveFailed' = FALSE
    /\ UNCHANGED <<chain, faults, history, cache, backfill, live>>

SaveFails ==
    /\ timer /\ timer' = FALSE /\ Fault
    /\ saveFailed' = TRUE
    /\ UNCHANGED <<chain, history, file, cache, backfill, live>>

\* A file that cannot be parsed leaves the history empty.
Loaded(f) == IF f = Torn THEN {} ELSE f

------------------------------------------------------------------------------
(* The split a reader gets: from the cache when it holds the coinbase (its     *)
(* events end at the backfill's latest block), else read up to the block.      *)

SplitSeen(c, b) ==
    IF cache # NoCache /\ c \in cache /\ backfill.latest < b
    THEN Known(c, backfill.latest)
    ELSE Known(c, b)

Seen(c, b) == [coinbase |-> c, block |-> b, split |-> SplitSeen(c, b)]

------------------------------------------------------------------------------
(* scrape(): the block number, then each coinbase, then the recording.         *)

LiveOff == [on |-> FALSE, block |-> 0, todo |-> {}, got |-> {}]

LiveStart ==
    /\ ~live.on
    /\ live' = [on |-> TRUE, block |-> head, todo |-> Coinbases, got |-> {}]
    /\ UNCHANGED <<chain, faults, storage, cache, backfill>>

LiveRead(c) ==
    /\ c \in live.todo
    /\ live' = [live EXCEPT !.todo = @ \ {c}, !.got = @ \cup {Seen(c, live.block)}]
    /\ UNCHANGED <<chain, faults, storage, cache, backfill>>

\* A coinbase that fails, or whose code cannot be read, is left out, and so is one
\* without a contract if getCode says "0x"; if it says undefined, the test does not see it.
MayLeaveOut(S, b) ==
    IF \A c \in S : split[c][b] = NoSplit THEN UNCHANGED faults ELSE Fault

LiveSkip(c) ==
    /\ c \in live.todo /\ MayLeaveOut({c}, live.block)
    /\ live' = [live EXCEPT !.todo = @ \ {c}]
    /\ UNCHANGED <<chain, storage, cache, backfill>>

\* No block, or a historical-state error: the whole scrape throws.
LiveFails ==
    /\ live.on /\ Fault
    /\ live' = LiveOff
    /\ UNCHANGED <<chain, storage, cache, backfill>>

LiveRecord ==
    /\ live.on /\ live.todo = {}
    /\ Record(live.got)
    /\ live' = LiveOff
    /\ UNCHANGED <<chain, faults, cache, backfill>>

------------------------------------------------------------------------------
(* backfillHistory().                                                          *)

NotBegun == [pc |-> "begin", latest |-> 0, hour |-> 0, filled |-> {}, todo |-> {},
             compared |-> {}, misses |-> 0]

\* An hour counts as filled when any snapshot is dated in it.
FilledHours == {Hour(s.block) : s \in history}

\* The block number, the hours to fill, and an empty cache before the first read.
BackfillBegin ==
    /\ backfill.pc = "begin"
    /\ LET none == Cardinality(FilledHours) > Hour(head)
       IN /\ backfill' = [NotBegun EXCEPT !.pc = IF none THEN "done" ELSE "prefetch",
                              !.latest = head, !.filled = FilledHours, !.todo = Coinbases]
          /\ cache' = IF none THEN NoCache ELSE {}
    /\ UNCHANGED <<chain, faults, storage, live>>

BackfillBeginFails ==
    /\ backfill.pc = "begin" /\ Fault
    /\ backfill' = [backfill EXCEPT !.pc = "done"]
    /\ UNCHANGED <<chain, storage, cache, live>>

Prefetch(c) ==
    /\ backfill.pc = "prefetch" /\ c \in backfill.todo
    /\ backfill' = [backfill EXCEPT !.todo = @ \ {c}]
    /\ cache' = cache \cup {c}
    /\ UNCHANGED <<chain, faults, storage, live>>

PrefetchFails(c) ==
    /\ backfill.pc = "prefetch" /\ c \in backfill.todo /\ Fault
    /\ backfill' = [backfill EXCEPT !.todo = @ \ {c}]
    /\ UNCHANGED <<chain, storage, cache, live>>

\* The last event decides; the mistake is to stop at the first.
FirstChange(c) == Earliest(Changes(c, backfill.latest))
Threshold(c) == Latest(Changes(c, backfill.latest))

Outdated ==
    {s \in history : /\ s.coinbase \in cache
                     /\ Cardinality(Changes(s.coinbase, backfill.latest)) >= 2
                     /\ s.block < Threshold(s.coinbase)}

\* purgeStakingRewardsSnapshotsBeforeBlock for every coinbase with two events or more;
\* the hours the purged snapshots are dated in are open again.
Purge ==
    /\ backfill.pc = "prefetch" /\ backfill.todo = {}
    /\ history' = history \ Outdated
    /\ timer' = ArmTimer(Outdated)
    /\ backfill' = [backfill EXCEPT !.pc = "fill", !.compared = cache,
                       !.filled = @ \ {Hour(s.block) : s \in Outdated}]
    /\ UNCHANGED <<chain, faults, file, saveFailed, cache, live>>

OpenHours == {h \in backfill.hour..Hour(backfill.latest) : h \notin backfill.filled}

\* findBlockAtOrBeforeTimestamp: the last block not after the hour, else the first.
BlockAt(h, to) ==
    LET before == {b \in 0..to : TimeOf[b] <= h * TicksPerHour}
    IN IF before = {} THEN 0 ELSE Latest(before)

Filling(h) == backfill.pc = "fill" /\ OpenHours # {} /\ h = Earliest(OpenHours)

\* collectRewardsForBlock and the recording, one step: nothing it reads changes.
FillHour(h) ==
    /\ Filling(h)
    /\ \E skipped \in SUBSET Coinbases :
          /\ MayLeaveOut(skipped, BlockAt(h, backfill.latest))
          /\ Record({Seen(c, BlockAt(h, backfill.latest)) : c \in Coinbases \ skipped})
    /\ backfill' = [backfill EXCEPT !.hour = h + 1, !.misses = 0, !.filled = @ \cup {h}]
    /\ UNCHANGED <<chain, cache, live>>

HourFails(h) ==
    /\ Filling(h) /\ Fault
    /\ backfill' = [backfill EXCEPT !.hour = h + 1, !.misses = 0]
    /\ UNCHANGED <<chain, storage, cache, live>>

\* The finally of the loop clears the cache however it ends.
CacheKept == cache
CacheAfterGivingUp == NoCache

HourUnavailable(h) ==
    /\ Filling(h) /\ Fault
    /\ IF backfill.misses + 1 < MaxMisses
       THEN /\ backfill' = [backfill EXCEPT !.hour = h + 1, !.misses = @ + 1]
            /\ UNCHANGED cache
       ELSE /\ backfill' = [backfill EXCEPT !.pc = "done"]
            /\ cache' = CacheAfterGivingUp
    /\ UNCHANGED <<chain, storage, live>>

BackfillEnd ==
    /\ backfill.pc = "fill" /\ OpenHours = {}
    /\ backfill' = [backfill EXCEPT !.pc = "done"]
    /\ cache' = NoCache
    /\ UNCHANGED <<chain, faults, storage, live>>

------------------------------------------------------------------------------
\* The process dies, in the middle of a write or not, and the next one starts.
Restart ==
    /\ Fault
    /\ file' \in IF timer THEN {file, Torn} ELSE {file}
    /\ history' = Loaded(file') /\ timer' = FALSE /\ saveFailed' = FALSE
    /\ cache' = NoCache /\ backfill' = NotBegun /\ live' = LiveOff
    /\ UNCHANGED chain

\* A file of the version before this one: every hour with the then-latest split.
Legacy == {[coinbase |-> c, block |-> BlockAt(h, head), split |-> Known(c, head)] :
              c \in Coinbases, h \in 0..Hour(head)}

Init ==
    /\ head \in 0..MaxBlock
    /\ split \in [Coinbases -> Timelines]
    /\ \A c \in Coinbases : split[c][-1] \in {NoSplit, FirstSplit}
    /\ \A c \in Coinbases, b \in Blocks :
          split[c][b] \in IF b > head THEN {split[c][head]} ELSE Follows(split[c][b - 1])
    /\ file \in {{}, Legacy}
    /\ history = file /\ timer = FALSE /\ saveFailed = FALSE /\ faults = 0
    /\ cache = NoCache /\ backfill = NotBegun /\ live = LiveOff

BackfillNext ==
    \/ BackfillBegin \/ Purge \/ BackfillEnd
    \/ \E c \in Coinbases : Prefetch(c)
    \/ \E h \in OpenHours : FillHour(h)

Next ==
    \/ NewBlock
    \/ Save \/ SaveFails
    \/ LiveStart \/ LiveFails \/ LiveRecord
    \/ \E c \in Coinbases : LiveRead(c) \/ LiveSkip(c)
    \/ BackfillBegin \/ BackfillBeginFails \/ Purge \/ BackfillEnd
    \/ \E c \in Coinbases : Prefetch(c) \/ PrefetchFails(c)
    \/ \E h \in OpenHours : FillHour(h) \/ HourFails(h) \/ HourUnavailable(h)
    \/ Restart

Spec == Init /\ [][Next]_vars

\* The backfill's calls return.
FairSpec == Spec /\ WF_vars(BackfillNext)

------------------------------------------------------------------------------
(* Properties.                                                                 *)

TypeOK ==
    /\ head \in Blocks /\ split \in [Coinbases -> Timelines]
    /\ faults \in 0..MaxFaults
    /\ history \in SUBSET Snapshot /\ file \in (SUBSET Snapshot) \cup {Torn}
    /\ timer \in BOOLEAN /\ saveFailed \in BOOLEAN
    /\ cache \in (SUBSET Coinbases) \cup {NoCache}
    /\ backfill \in [pc : {"begin", "prefetch", "fill", "done"}, latest : Blocks, hour : Nat,
                     filled : SUBSET Nat, todo : SUBSET Coinbases,
                     compared : SUBSET Coinbases, misses : 0..MaxMisses]
    /\ live \in [on : BOOLEAN, block : Blocks, todo : SUBSET Coinbases, got : SUBSET Snapshot]

\* The invalidation of backfillHistory: once it has compared a coinbase's history
\* with its split events, of which there are two or more, every snapshot before the
\* last one names the split that the events tell for its block, whatever older
\* versions and stale live scrapes had recorded.  Of a contract that was created
\* since the start block that is the split in force.
AttributedBeforeLastChange ==
    backfill.pc \in {"fill", "done"} =>
        \A s \in history :
            /\ s.coinbase \in backfill.compared
            /\ \E a, b \in Changes(s.coinbase, backfill.latest) : a < b /\ s.block < b
            => /\ s.split = Known(s.coinbase, s.block)
               /\ split[s.coinbase][-1] = NoSplit => s.split = split[s.coinbase][s.block]

\* scheduleSaveStakingRewardsHistory: what the next process would load differs from
\* memory only while a write is due or after one has failed.
HistorySaved == Loaded(file) = history \/ timer \/ saveFailed

\* The finally of backfillHistory: the live scrape gets back to fresh splits,
\* although prefetches fail, hours fail and the backfill gives up.
CacheIsCleared == cache # NoCache ~> cache = NoCache

\* The comment on the backfill loop: "a gap-filler", so that a backfill that skips
\* nothing leaves a snapshot of every coinbase for every hour it had a contract.
GapsAreFilled ==
    (backfill.pc = "done" /\ faults = 0) =>
        \A c \in Coinbases, h \in 0..Hour(backfill.latest) :
            split[c][BlockAt(h, backfill.latest)] # NoSplit =>
            \E s \in history : s.coinbase = c /\ s.block = BlockAt(h, backfill.latest)
=============================================================================
