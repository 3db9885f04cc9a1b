--------------------------- MODULE AttesterTracking ---------------------------
(* One network of the server: how the state and the on-chain view kept for     *)
(* each attester follow the chain.  Three actors share attesterStates: the     *)
(* rollup scraper (views, every 60 s), the staking provider scraper (queue,    *)
(* then one state transition per attester, every 30 s) and the configuration   *)
(* reloader; a debounced timer writes the map to a file that the next process  *)
(* reads back.  Every await of the code is a boundary between two actions, so  *)
(* what was fetched may be stale when it is applied.                           *)
EXTENDS AttesterLifecycle, FiniteSets

CONSTANTS
    Attesters,       \* addresses that may appear in the keys files
    KeyFiles,        \* the attester sets that the keys files may hold
    MaxChain,        \* bound on the chain's moves
    MaxFailures,     \* bound on failed contract reads
    MaxDeaths,       \* bound on crashes and restarts of the process
    NoData,          \* null: nothing read, nothing known
    Torn             \* content of a file that JSON.parse rejects

ASSUME BoundsAssumption ==
    /\ MaxChain \in Nat /\ MaxFailures \in Nat /\ MaxDeaths \in Nat

ASSUME KeyFilesAssumption == KeyFiles \subseteq (SUBSET Attesters)

ASSUME NullAssumption ==
    /\ \A s \in SUBSET Attesters : s # NoData
    /\ \A r \in [att : Attesters, view : Views] : r # NoData
    /\ \A st \in [Attesters -> States \cup {NoState}], vw \in [Attesters -> Views] :
          [state |-> st, view |-> vw] # Torn

VARIABLES
    phase,           \* [Attesters -> Phases]: where the chain has the attester
    reached,         \* [Attesters -> SUBSET Phases]: history, every phase it was in
    chainMoves, failures, deaths,
    up,              \* the server process runs
    state, view,     \* attesterStates: entry.state and entry.onChainView
    queue,           \* stakingProviderData.queue, or NoData
    config,          \* scraperConfig.attesters
    rollupTodo,      \* attesters the current rollup scrape has still to read
    fetched,         \* a view that was read and is not yet stored, or NoData
    providerRead,    \* a queue that was read and is not yet stored, or NoData
    providerTodo,    \* attesters manageAttesterStates has still to process
    timer,           \* attesterSaveTimer is set
    saveFailed,      \* the last write of the file failed
    disk             \* content of the attester state file

chain == <<phase, reached, chainMoves>>
rollup == <<rollupTodo, fetched>>
provider == <<queue, providerRead, providerTodo>>
storage == <<timer, saveFailed, disk>>
vars == <<chain, failures, deaths, up, state, view, config, rollup, provider, storage>>

Phases == {"unregistered", "providerQueue", "entryQueue", "validating", "leaving", "exited"}

NoEntries == [state |-> [a \in Attesters |-> NoState], view |-> [a \in Attesters |-> "NoView"]]

\* What the next process gets from the file: a missing or unparsable file is empty.
Loaded == IF disk = Torn THEN NoEntries ELSE disk

\* serializeAttesterStates; the mistaken one writes the wrong field.
SnapshotOfStates == [state |-> state, view |-> state]
Snapshot == [state |-> state, view |-> view]

\* scheduleSaveAttesterStates, called when something changed: an armed timer is armed
\* anew.  The mistake is to cancel it whenever nothing changed.
ScheduleOrCancel(changed) == timer' = changed
ScheduleSave(changed) == timer' = (timer \/ changed)

Known == {a \in Attesters : state[a] # NoState}

------------------------------------------------------------------------------
(* The chain (external): the contracts the server reads.                       *)

ChainSuccessors(p) ==
    CASE p = "unregistered"  -> {"providerQueue", "entryQueue"}
      [] p = "providerQueue" -> {"entryQueue", "unregistered"}
      [] p = "entryQueue"    -> {"validating", "exited"}
      [] p = "validating"    -> {"leaving"}
      [] p = "leaving"       -> {"exited", "validating"}
      [] p = "exited"        -> {"providerQueue", "entryQueue"}

\* A call for an attester the rollup does not know may revert or return zeros.
ChainViews(p) ==
    CASE p \in {"unregistered", "providerQueue"} -> {"NoView", "NoneZero"}
      [] p = "entryQueue" -> {"NoneStaked"}
      [] p = "validating" -> {"Validating"}
      [] p = "leaving"    -> {"Leaving"}
      [] p = "exited"     -> {"NoneZero"}

ChainMove(a) ==
    /\ chainMoves < MaxChain
    /\ chainMoves' = chainMoves + 1
    /\ \E p \in ChainSuccessors(phase[a]) :
          /\ phase' = [phase EXCEPT ![a] = p]
          /\ reached' = [reached EXCEPT ![a] = @ \cup {p}]
    /\ UNCHANGED <<failures, deaths, up, state, view, config, rollup, provider, storage>>

------------------------------------------------------------------------------
(* RollupScraper.scrape, one getAttesterView at a time.  ScraperManager never  *)
(* starts a run while the previous one is in progress.                         *)

RollupStart ==
    /\ up /\ rollupTodo = {} /\ fetched = NoData
    /\ rollupTodo' = config
    /\ UNCHANGED <<chain, failures, deaths, up, state, view, config, fetched, provider, storage>>

RollupRead(a) ==
    /\ up /\ a \in rollupTodo /\ fetched = NoData
    /\ rollupTodo' = rollupTodo \ {a}
    /\ \E v \in ChainViews(phase[a]) : fetched' = [att |-> a, view |-> v]
    /\ UNCHANGED <<chain, failures, deaths, up, state, view, config, provider, storage>>

\* getAttesterView catches every error and returns null.
RollupReadFails(a) ==
    /\ up /\ a \in rollupTodo /\ fetched = NoData
    /\ failures < MaxFailures /\ failures' = failures + 1
    /\ rollupTodo' = rollupTodo \ {a}
    /\ fetched' = [att |-> a, view |-> "NoView"]
    /\ UNCHANGED <<chain, deaths, up, state, view, config, provider, storage>>

\* A Map iteration also visits the keys that are added while it is under way.
AlsoProcess(added) == IF providerTodo = {} THEN {} ELSE providerTodo \cup added

\* updateAttesterOnChainView: the entry is created if the map lacks it.
RollupApply ==
    /\ up /\ fetched # NoData
    /\ LET a == fetched.att IN
          /\ view' = [view EXCEPT ![a] = fetched.view]
          /\ state' = [state EXCEPT ![a] = IF @ = NoState THEN "NEW" ELSE @]
          /\ providerTodo' = AlsoProcess({a} \ Known)
    /\ fetched' = NoData
    /\ ScheduleSave(TRUE)
    /\ UNCHANGED <<chain, failures, deaths, up, config, rollupTodo, queue, providerRead,
                   saveFailed, disk>>

------------------------------------------------------------------------------
(* StakingProviderScraper.scrape.  A read that throws, or that finds no        *)
(* provider, ends the run and leaves the shared state as it was.               *)

Queued == {a \in Attesters : phase[a] = "providerQueue"}

ProviderRead ==
    /\ up /\ providerRead = NoData /\ providerTodo = {}
    /\ providerRead' = Queued
    /\ UNCHANGED <<chain, failures, deaths, up, state, view, config, rollup, queue,
                   providerTodo, storage>>

\* getProviderQueue skips an index it fails to read and goes on.
ProviderReadSkips ==
    /\ up /\ providerRead = NoData /\ providerTodo = {}
    /\ failures < MaxFailures /\ failures' = failures + 1
    /\ \E a \in Queued : providerRead' = Queued \ {a}
    /\ UNCHANGED <<chain, deaths, up, state, view, config, rollup, queue, providerTodo,
                   storage>>

\* updateStakingProviderData, then the first step of manageAttesterStates.
ProviderApply ==
    /\ up /\ providerRead # NoData
    /\ queue' = providerRead
    /\ providerRead' = NoData
    /\ providerTodo' = Known
    /\ UNCHANGED <<chain, failures, deaths, up, state, view, config, rollup, storage>>

\* isAttesterInProviderQueue: nobody is queued before the provider is known.
InProviderQueue(a) == queue # NoData /\ a \in queue

\* One iteration of manageAttesterStates, with updateAttesterState.
ProcessAttester(a) ==
    /\ up /\ a \in providerTodo
    /\ LET next == ProcessAttesterState(state[a], view[a], InProviderQueue(a)) IN
          /\ state' = [state EXCEPT ![a] = next]
          /\ ScheduleSave(next # state[a])
    /\ providerTodo' = providerTodo \ {a}
    /\ UNCHANGED <<chain, failures, deaths, up, view, config, rollup, queue, providerRead,
                   saveFailed, disk>>

------------------------------------------------------------------------------
(* Configuration, persistence and the life of the process.                     *)

\* initAttesterStatesFromCache: keys files carry no lastSeenState, so an entry
\* that exists is kept and one that does not starts as NEW.
InitFromCache(st, keys) ==
    [a \in Attesters |-> IF a \in keys /\ st[a] = NoState THEN "NEW" ELSE st[a]]

\* ConfigReloader.reload: entries are only added, the scraped list is replaced.
Reload(keys) ==
    /\ up /\ config' = keys
    /\ state' = InitFromCache(state, keys)
    /\ providerTodo' = AlsoProcess(keys \ Known)
    /\ ScheduleSave(keys \ Known # {})
    /\ UNCHANGED <<chain, failures, deaths, up, view, rollup, queue, providerRead,
                   saveFailed, disk>>

\* The timer of scheduleSaveAttesterStates fires.  A failed fs.writeFile leaves
\* the old file or a truncated one, is logged and is not tried again.
SaveSucceeds ==
    /\ up /\ timer
    /\ timer' = FALSE
    /\ disk' = Snapshot /\ saveFailed' = FALSE
    /\ UNCHANGED <<chain, failures, deaths, up, state, view, config, rollup, provider>>

SaveFails ==
    /\ up /\ timer
    /\ failures < MaxFailures /\ failures' = failures + 1
    /\ timer' = FALSE
    /\ disk' \in {disk, Torn} /\ saveFailed' = TRUE
    /\ UNCHANGED <<chain, deaths, up, state, view, config, rollup, provider>>

\* A kill, or the graceful shutdown, which ends in process.exit(0) without
\* flushing the timer.  Dying inside fs.writeFile leaves a truncated file.
Die ==
    /\ up /\ deaths < MaxDeaths
    /\ deaths' = deaths + 1
    /\ up' = FALSE
    /\ state' = NoEntries.state /\ view' = NoEntries.view
    /\ config' = {} /\ queue' = NoData
    /\ rollupTodo' = {} /\ fetched' = NoData
    /\ providerRead' = NoData /\ providerTodo' = {}
    /\ timer' = FALSE
    /\ disk' \in IF timer THEN {disk, Torn} ELSE {disk}
    /\ UNCHANGED <<chain, failures, saveFailed>>

\* initializeNetwork: load the file, then add the attesters of the keys files.
Start(keys) ==
    /\ ~up /\ up' = TRUE
    /\ state' = InitFromCache(Loaded.state, keys)
    /\ view' = Loaded.view
    /\ config' = keys
    /\ ScheduleSave(\E a \in keys : Loaded.state[a] = NoState)
    /\ saveFailed' = FALSE
    /\ UNCHANGED <<chain, failures, deaths, rollup, provider, disk>>

------------------------------------------------------------------------------
Init ==
    /\ phase \in [Attesters -> {"unregistered", "providerQueue", "validating"}]
    /\ reached = [a \in Attesters |-> {phase[a]}]
    /\ chainMoves = 0 /\ failures = 0 /\ deaths = 0
    /\ up = FALSE
    /\ state = NoEntries.state /\ view = NoEntries.view
    /\ queue = NoData /\ config = {}
    /\ rollupTodo = {} /\ fetched = NoData
    /\ providerRead = NoData /\ providerTodo = {}
    /\ timer = FALSE /\ saveFailed = FALSE /\ disk = NoEntries

Next ==
    \/ \E a \in Attesters : ChainMove(a)
    \/ RollupStart \/ RollupApply
    \/ \E a \in Attesters : RollupRead(a) \/ RollupReadFails(a)
    \/ ProviderRead \/ ProviderReadSkips \/ ProviderApply
    \/ \E a \in Attesters : ProcessAttester(a)
    \/ \E keys \in KeyFiles : Reload(keys) \/ Start(keys)
    \/ SaveSucceeds \/ SaveFails \/ Die

Spec == Init /\ [][Next]_vars

(* Fairness: setInterval starts every scraper again, a read eventually         *)
(* succeeds (failures are finitely many), and an awaited continuation runs.    *)
Fairness ==
    /\ WF_vars(RollupStart) /\ WF_vars(RollupApply)
    /\ WF_vars(ProviderRead) /\ WF_vars(ProviderApply)
    /\ \A a \in Attesters : WF_vars(RollupRead(a)) /\ WF_vars(ProcessAttester(a))

FairSpec == Spec /\ Fairness

------------------------------------------------------------------------------
TypeOK ==
    /\ phase \in [Attesters -> Phases]
    /\ reached \in [Attesters -> SUBSET Phases]
    /\ chainMoves \in Nat /\ failures \in Nat /\ deaths \in Nat
    /\ up \in BOOLEAN
    /\ state \in [Attesters -> States \cup {NoState}]
    /\ view \in [Attesters -> Views]
    /\ queue \in (SUBSET Attesters) \cup {NoData}
    /\ config \in SUBSET Attesters
    /\ rollupTodo \in SUBSET Attesters
    /\ fetched \in [att : Attesters, view : Views] \cup {NoData}
    /\ providerRead \in (SUBSET Attesters) \cup {NoData}
    /\ providerTodo \in SUBSET Attesters
    /\ timer \in BOOLEAN /\ saveFailed \in BOOLEAN
    /\ disk \in [state : [Attesters -> States \cup {NoState}], view : [Attesters -> Views]]
                \cup {Torn}

HasLeft(a) == reached[a] \cap {"leaving", "exited"} # {}

\* The phase that a state claims the attester has been in.
Claiming == {"IN_STAKING_PROVIDER_QUEUE", "ROLLUP_ENTRY_QUEUE", "ACTIVE"}

Claim(s) ==
    CASE s = "IN_STAKING_PROVIDER_QUEUE" -> "providerQueue"
      [] s = "ROLLUP_ENTRY_QUEUE" -> "entryQueue"
      [] s = "ACTIVE" -> "validating"

\* No state claims a stage the attester never reached, whatever was stale when it
\* was applied, and across restarts (state/transitions.ts, saved and reloaded).
Provenance ==
    \A a \in Attesters : state[a] \in Claiming => Claim(state[a]) \in reached[a]

\* An attester that was ACTIVE is reported NO_LONGER_ACTIVE by the transition
\* step only if it really began to leave: no failed or late read drops it.
ActiveLostOnlyIfLeft ==
    [][\A a \in Attesters :
          state[a] = "ACTIVE" /\ state'[a] = "NO_LONGER_ACTIVE" => HasLeft(a)]_vars

\* Memory differs from what a restart would load only while a save is pending
\* or the last one failed (every update of attesterStates schedules a save).
NoLostSave ==
    up /\ Snapshot # Loaded => timer \/ saveFailed

\* A configured attester that validates for good is ACTIVE for good.
SettlesActive ==
    \A a \in Attesters :
        <>[](up /\ a \in config /\ phase[a] = "validating") => <>[](state[a] = "ACTIVE")

\* A configured attester that exited for good is NO_LONGER_ACTIVE for good,
\* whichever state the server last had for it.
SettlesExited ==
    \A a \in Attesters :
        <>[](up /\ a \in config /\ phase[a] = "exited") => <>[](state[a] = "NO_LONGER_ACTIVE")
==============================================================================
