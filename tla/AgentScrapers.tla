---------------------------- MODULE AgentScrapers ----------------------------
(* The read-only agent that runs on every sequencer host.  Its scrapers share  *)
(* one in-memory state: local_keys reads the registered-keys files of the host *)
(* and is the only one that adds or drops entries; local_status,               *)
(* publisher_balances and entry_queue_eta enrich the entries they find, each   *)
(* across several awaits, while local_keys goes on; global_stats reads the     *)
(* chain-wide queues.  Operators edit files and the chain moves at any time,   *)
(* and every read may fail.  Positions count from 0, as in the code.  An       *)
(* iteration over a Map takes the entries in any order, and still visits one   *)
(* that is added under way.                                                    *)
EXTENDS AttesterLifecycle, Integers, Sequences, FiniteSets, TLC, SequencesExt, FiniteSetsExt

CONSTANTS
    Attesters, Publishers,
    DirectoryOrder,         \* registries, in the order readdir lists their files
    ScraperSets,            \* the sets of scrapers scheduled in a behaviour
    Contents,               \* what a registered-keys file may hold
    FilesAtStart, Chains,   \* the files and chains an agent may find at start
    ProviderSets,           \* the registries whose provider it may resolve
    MinEth,                 \* MIN_ETH_PER_ATTESTER
    None,
    MaxMoves, MaxEdits, MaxFaults   \* bounds on the environment

Registries == Range(DirectoryOrder)

ASSUME DirectoryAssumption == IsInjective(DirectoryOrder)
ASSUME NoneAssumption == None \notin Nat
ASSUME AmountAssumption == {MinEth, MaxMoves, MaxEdits, MaxFaults} \subseteq Nat

VARIABLES
    files,      \* [Registries -> Contents]; no file is an empty one
    chain,      \* provider queues, entry queue, rollup status, balances
    providers,  \* registries whose provider was resolved at start
    enabled,    \* scrapers of this process
    due,        \* --once: the scrapers still to run, in order; None otherwise
    keys, publishers, global,       \* the agent's state
    keysRun, statusRun, balanceRun, etaRun, globalRun,  \* runs, None when idle
    moves, edits, faults

world == <<files, chain, moves, edits>>
agent == <<providers, enabled>>
state == <<keys, publishers, global>>
vars == <<world, agent, due, state, keysRun, statusRun, balanceRun, etaRun, globalRun, faults>>

------------------------------------------------------------------------------
(* What the scrapers derive *)

\* buildScrapers, in registration order.
Scrapers == <<"local_keys", "local_status", "publisher_balances", "entry_queue_eta",
              "global_stats">>

Place(a, queue) ==
    LET found == {i \in DOMAIN queue : queue[i] = a} IN
    IF found = {} THEN None ELSE Min(found) - 1

TopUp(count, wei) == IF count * MinEth > wei THEN count * MinEth - wei ELSE 0

Known(map) == {x \in DOMAIN map : map[x] # None}

\* collectLocalPublishers, and the key entries that name each of them: an
\* attester that two files list counts twice.
Referring(read, p) ==
    {<<r, a>> \in Registries \X Attesters : a \in DOMAIN read[r] /\ p \in read[r][a].publishers}

\* selectNextMissingCoinbase, behind the next_missing_coinbase_eta gauge.
MissingCoinbase(map) == {a \in Known(map) : ~map[a].coinbase /\ map[a].eta # None}
NextMissing(map) ==
    IF MissingCoinbase(map) = {} THEN None ELSE Min({map[a].eta : a \in MissingCoinbase(map)})

------------------------------------------------------------------------------
(* Scheduling: two runs of one scraper never overlap, and --once runs each of  *)
(* them once, in order.                                                        *)

MayRun(s, run) ==
    /\ s \in enabled
    /\ run = None
    /\ due # None => due # <<>> /\ Head(due) = s

Over == due' = IF due = None THEN None ELSE Tail(due)

Fails == faults < MaxFaults /\ faults' = faults + 1

\* Nothing to enrich yet: the run returns at once.
Skips(s, run, map) ==
    /\ MayRun(s, run)
    /\ Known(map) = {}
    /\ Over
    /\ UNCHANGED <<world, agent, state, keysRun, statusRun, balanceRun, etaRun, globalRun, faults>>

StatusSkips == Skips("local_status", statusRun, keys)
BalanceSkips == Skips("publisher_balances", balanceRun, publishers)
EtaSkips == Skips("entry_queue_eta", etaRun, keys)

------------------------------------------------------------------------------
(* local_keys: one await per file, then everything at once *)

notKeys == <<statusRun, balanceRun, etaRun, globalRun>>

KeysStart ==
    /\ MayRun("local_keys", keysRun)
    /\ keysRun' = <<>>
    /\ UNCHANGED <<world, agent, due, state, notKeys, faults>>

KeysRead ==
    /\ keysRun # None
    /\ DOMAIN keysRun # Registries
    /\ LET r == DirectoryOrder[Cardinality(DOMAIN keysRun) + 1] IN
       keysRun' = (r :> files[r]) @@ keysRun
    /\ UNCHANGED <<world, agent, due, state, notKeys, faults>>

\* One file that cannot be read fails the run: no entry changes.
KeysFail ==
    /\ keysRun # None
    /\ DOMAIN keysRun # Registries
    /\ Fails
    /\ keysRun' = None
    /\ Over
    /\ UNCHANGED <<world, agent, state, notKeys>>

\* The identity of a new object, told from the one in the map and from the one
\* that a run holds a reference to across its await.
Fresh(entry, ref) ==
    Min((0..2) \ ((IF entry = None THEN {} ELSE {entry.object})
                  \cup (IF ref = None THEN {} ELSE {ref.object})))

Created(entry, ref, r, key) ==
    [object |-> Fresh(entry, ref), registry |-> r, coinbase |-> key.coinbase,
     publishers |-> key.publishers, lifecycle |-> "NEW", view |-> "NoView", place |-> None,
     position |-> None, eta |-> None]

\* The mistake the code's comment warns of: a new object with the old enrichment.
Replaced(entry, ref, r, key) ==
    [entry EXCEPT !.object = Fresh(entry, ref), !.registry = r, !.coinbase = key.coinbase,
                  !.publishers = key.publishers]

\* An entry that is there is mutated in place and keeps its enrichment.
Refreshed(entry, ref, r, key) ==
    [entry EXCEPT !.registry = r, !.coinbase = key.coinbase, !.publishers = key.publishers]

\* The reference an iteration holds to the entry of x.
RefTo(run, x) == IF run # None /\ run.current # None /\ run.current.of = x
                 THEN run.current ELSE None

\* An iteration under way also visits what is added behind it.
Forget(run, gone, added) ==
    IF run = None THEN None
    ELSE [run EXCEPT !.visited = @ \ gone, !.stale = (@ \ gone) \cup added]

Listing(read, a) == SelectSeq(DirectoryOrder, LAMBDA r : a \in DOMAIN read[r])

\* Of two files that list an attester, the one read last counts.
RefreshKeys(read) ==
    /\ keys' = [a \in Attesters |->
          IF Listing(read, a) = <<>> THEN None
          ELSE LET r == Last(Listing(read, a)) IN
               IF keys[a] = None
               THEN Created(None, RefTo(statusRun, a), r, read[r][a])
               ELSE Refreshed(keys[a], RefTo(statusRun, a), r, read[r][a])]
    /\ statusRun' = Forget(statusRun, Known(keys) \ Known(keys'), Known(keys') \ Known(keys))

RefreshPublishers(read) ==
    /\ publishers' = [p \in Publishers |->
          LET count == Cardinality(Referring(read, p)) IN
          IF count = 0 THEN None
          ELSE IF publishers[p] = None
          THEN [object |-> Fresh(None, RefTo(balanceRun, p)), wei |-> 0, topUp |-> 0,
                count |-> count]
          ELSE [publishers[p] EXCEPT !.count = count]]
    /\ balanceRun' = Forget(balanceRun, Known(publishers) \ Known(publishers'),
                            Known(publishers') \ Known(publishers))

KeysApply ==
    /\ keysRun # None
    /\ DOMAIN keysRun = Registries
    /\ RefreshKeys(keysRun)
    /\ RefreshPublishers(keysRun)
    /\ keysRun' = None
    /\ Over
    /\ UNCHANGED <<world, agent, global, etaRun, globalRun, faults>>

------------------------------------------------------------------------------
(* local_status: the provider queues of the registries in use, then one view   *)
(* per entry                                                                   *)

notStatus == <<keysRun, balanceRun, etaRun, globalRun>>

Resolved(rs) == rs \cap providers

StatusStart ==
    /\ MayRun("local_status", statusRun)
    /\ Known(keys) # {}
    /\ statusRun' = [toRead |-> Resolved({keys[a].registry : a \in Known(keys)}),
                     queues |-> <<>>, visited |-> {}, current |-> None, stale |-> Known(keys)]
    /\ UNCHANGED <<world, agent, due, state, notStatus, faults>>

\* getProviderQueue drops an index it cannot read and goes on; it fails when the
\* bounds, or the events of the Olla registry, cannot be read.
QueueRead(queue) ==
    {<<queue, faults>>} \cup
    (IF faults < MaxFaults
     THEN {<<RemoveAt(queue, i), faults + 1>> : i \in DOMAIN queue}
     ELSE {})

StatusReadsQueue(r) ==
    /\ statusRun # None
    /\ r \in statusRun.toRead
    /\ \E read \in QueueRead(chain.queue[r]) :
        /\ statusRun' = [statusRun EXCEPT !.toRead = @ \ {r}, !.queues = @ @@ (r :> read[1])]
        /\ faults' = read[2]
    /\ UNCHANGED <<world, agent, due, state, notStatus>>

StatusMissesQueue(r) ==
    /\ statusRun # None
    /\ r \in statusRun.toRead
    /\ Fails
    /\ statusRun' = [statusRun EXCEPT !.toRead = @ \ {r}]
    /\ UNCHANGED <<world, agent, due, state, notStatus>>

\* The loop captures the entry before it awaits the view.
StatusTakes(a) ==
    /\ statusRun # None
    /\ statusRun.toRead = {}
    /\ statusRun.current = None
    /\ a \in Known(keys) \ statusRun.visited
    /\ statusRun' = [statusRun EXCEPT !.visited = @ \cup {a},
                                      !.current = [of |-> a, object |-> keys[a].object]]
    /\ UNCHANGED <<world, agent, due, state, notStatus, faults>>

Attached(ref, map) == map[ref.of] # None /\ map[ref.of].object = ref.object

WithStatus(entry, view, place) ==
    [entry EXCEPT !.lifecycle = DeriveLifecycleState(view, place # None), !.view = view, !.place = place]

\* What is written to an object that has left the map is lost.
StatusWrites(view) ==
    LET ref == statusRun.current
        a == ref.of
        queue == IF Attached(ref, keys) /\ keys[a].registry \in DOMAIN statusRun.queues
                 THEN statusRun.queues[keys[a].registry]
                 ELSE <<>>
    IN  /\ keys' = IF Attached(ref, keys)
                   THEN [keys EXCEPT ![a] = WithStatus(@, view, Place(a, queue))]
                   ELSE keys
        /\ statusRun' = [statusRun EXCEPT !.current = None,
                                          !.stale = IF Attached(ref, keys) THEN @ \ {a} ELSE @]

StatusReadsView ==
    /\ statusRun # None
    /\ statusRun.current # None
    /\ StatusWrites(chain.rollup[statusRun.current.of])
    /\ UNCHANGED <<world, agent, due, publishers, global, notStatus, faults>>

StatusMissesView ==
    /\ statusRun # None
    /\ statusRun.current # None
    /\ Fails
    /\ StatusWrites("NoView")
    /\ UNCHANGED <<world, agent, due, publishers, global, notStatus>>

StatusEnds ==
    /\ statusRun # None
    /\ statusRun.toRead = {}
    /\ statusRun.current = None
    /\ Known(keys) \subseteq statusRun.visited
    /\ statusRun' = None
    /\ Over
    /\ UNCHANGED <<world, agent, state, notStatus, faults>>

------------------------------------------------------------------------------
(* publisher_balances *)

notBalance == <<keysRun, statusRun, etaRun, globalRun>>

BalanceStart ==
    /\ MayRun("publisher_balances", balanceRun)
    /\ Known(publishers) # {}
    /\ balanceRun' = [visited |-> {}, current |-> None, stale |-> Known(publishers)]
    /\ UNCHANGED <<world, agent, due, state, notBalance, faults>>

BalanceTakes(p) ==
    /\ balanceRun # None
    /\ balanceRun.current = None
    /\ p \in Known(publishers) \ balanceRun.visited
    /\ balanceRun' = [balanceRun EXCEPT
                        !.visited = @ \cup {p},
                        !.current = [of |-> p, object |-> publishers[p].object]]
    /\ UNCHANGED <<world, agent, due, state, notBalance, faults>>

\* The count is the one after the await.
WithBalance(entry, wei) == [entry EXCEPT !.wei = wei, !.topUp = TopUp(entry.count, wei)]

BalanceReads ==
    /\ balanceRun # None
    /\ balanceRun.current # None
    /\ LET ref == balanceRun.current
           wei == chain.wei[ref.of]
       IN  /\ publishers' = IF Attached(ref, publishers)
                            THEN [publishers EXCEPT ![ref.of] = WithBalance(@, wei)]
                            ELSE publishers
           /\ balanceRun' = [balanceRun EXCEPT
                                !.current = None,
                                !.stale = IF Attached(ref, publishers) THEN @ \ {ref.of} ELSE @]
    /\ UNCHANGED <<world, agent, due, keys, global, notBalance, faults>>

\* A balance that cannot be read leaves the old one.
BalanceMisses ==
    /\ balanceRun # None
    /\ balanceRun.current # None
    /\ Fails
    /\ balanceRun' = [balanceRun EXCEPT !.current = None, !.stale = @ \ {balanceRun.current.of}]
    /\ UNCHANGED <<world, agent, due, state, notBalance>>

BalanceEnds ==
    /\ balanceRun # None
    /\ balanceRun.current = None
    /\ Known(publishers) \subseteq balanceRun.visited
    /\ balanceRun' = None
    /\ Over
    /\ UNCHANGED <<world, agent, state, notBalance, faults>>

------------------------------------------------------------------------------
(* entry_queue_eta: getQueuedAttestersUntilAllFound scans the entry queue by   *)
(* index while the rollup may take attesters off its head                      *)

notEta == <<keysRun, statusRun, balanceRun, globalRun>>

EtaStart ==
    /\ MayRun("entry_queue_eta", etaRun)
    /\ Known(keys) # {}
    /\ etaRun' = [remaining |-> Known(keys), length |-> Len(chain.entry), index |-> 0,
                  scanned |-> <<>>, exact |-> TRUE]
    /\ UNCHANGED <<world, agent, due, state, notEta, faults>>

\* The mistake: the last index of the queue is left out.
ScanningShort(run) == run.index < run.length - 1 /\ run.remaining # {}

Scanning(run) == run.index < run.length /\ run.remaining # {}

\* An index beyond the queue cannot be read, and is passed over like any other.
EtaReads ==
    /\ etaRun # None
    /\ Scanning(etaRun)
    /\ LET i == etaRun.index + 1 IN
       IF i \in DOMAIN chain.entry
       THEN etaRun' = [etaRun EXCEPT !.index = i, !.scanned = Append(@, chain.entry[i]),
                                     !.remaining = @ \ {chain.entry[i]}]
       ELSE etaRun' = [etaRun EXCEPT !.index = i]
    /\ UNCHANGED <<world, agent, due, state, notEta, faults>>

EtaMisses ==
    /\ etaRun # None
    /\ Scanning(etaRun)
    /\ Fails
    /\ etaRun' = [etaRun EXCEPT !.index = @ + 1, !.exact = FALSE]
    /\ UNCHANGED <<world, agent, due, state, notEta>>

\* The queue timing is read after the scan; a failed read fails the run.
EtaFails ==
    /\ etaRun # None
    /\ Fails
    /\ etaRun' = None
    /\ Over
    /\ UNCHANGED <<world, agent, state, notEta>>

\* The mistake: an attester that left the queue keeps its place.
WithPositionIfQueued(entry, position) ==
    IF position = None THEN entry
    ELSE [entry EXCEPT !.position = position, !.eta = IF chain.flushes THEN position ELSE None]

\* The drain rate is unknown while the flush size is 0: a position, and no ETA.
WithPosition(entry, position) ==
    [entry EXCEPT !.position = position,
                  !.eta = IF chain.flushes THEN position ELSE None]

EtaApply ==
    /\ etaRun # None
    /\ ~Scanning(etaRun)
    /\ keys' = [a \in Attesters |-> IF keys[a] = None THEN None
                                    ELSE WithPosition(keys[a], Place(a, etaRun.scanned))]
    /\ etaRun' = None
    /\ Over
    /\ UNCHANGED <<world, agent, publishers, global, notEta, faults>>

------------------------------------------------------------------------------
(* global_stats *)

notGlobal == <<keysRun, statusRun, balanceRun, etaRun>>

\* The last attester's arrival, counted in attesters; none in an empty queue.
Arrival(length) == IF length > 0 /\ chain.flushes THEN length ELSE None

GlobalStart ==
    /\ MayRun("global_stats", globalRun)
    /\ LET length == Len(chain.entry) IN
       /\ global' = [global EXCEPT !.entry = [length |-> length, arrival |-> Arrival(length)]]
       /\ globalRun' = [left |-> providers, length |-> None]
    /\ UNCHANGED <<world, agent, due, keys, publishers, notGlobal, faults>>

GlobalFails ==
    /\ MayRun("global_stats", globalRun)
    /\ Fails
    /\ Over
    /\ UNCHANGED <<world, agent, state, notGlobal, globalRun>>

GlobalReadsLength(r) ==
    /\ globalRun # None
    /\ globalRun.length = None
    /\ r \in globalRun.left
    /\ globalRun' = [left |-> globalRun.left, length |-> [of |-> r, value |-> Len(chain.queue[r])]]
    /\ UNCHANGED <<world, agent, due, state, notGlobal, faults>>

GlobalReadsQueue ==
    /\ globalRun # None
    /\ globalRun.length # None
    /\ LET r == globalRun.length.of
           length == globalRun.length.value
       IN \E read \in QueueRead(chain.queue[r]) :
          /\ global' = [global EXCEPT !.queues[r] =
                          [length |-> length, queue |-> read[1],
                           arrival |-> IF length > 0 THEN global.entry.arrival ELSE None]]
          /\ globalRun' = [left |-> globalRun.left \ {r}, length |-> None]
          /\ faults' = read[2]
    /\ UNCHANGED <<world, agent, due, keys, publishers, notGlobal>>

\* A registry that cannot be read keeps what was read of it before.
GlobalMisses(r) ==
    /\ globalRun # None
    /\ r \in globalRun.left
    /\ globalRun.length # None => globalRun.length.of = r
    /\ Fails
    /\ globalRun' = [left |-> globalRun.left \ {r}, length |-> None]
    /\ UNCHANGED <<world, agent, due, state, notGlobal>>

GlobalEnds ==
    /\ globalRun # None
    /\ globalRun.left = {}
    /\ globalRun' = None
    /\ Over
    /\ UNCHANGED <<world, agent, state, notGlobal, faults>>

------------------------------------------------------------------------------
(* The operators' files and the chain *)

runs == <<keysRun, statusRun, balanceRun, etaRun, globalRun>>

Edit(r, content) ==
    /\ edits < MaxEdits
    /\ files[r] # content
    /\ files' = [files EXCEPT ![r] = content]
    /\ edits' = edits + 1
    /\ UNCHANGED <<chain, moves, agent, due, state, runs, faults>>

\* A registry drips the head of its queue into the entry queue, and the rollup
\* flushes the head of that one.
Waiting(a) == \E r \in Registries : a \in Range(chain.queue[r])

Moved ==
    {[chain EXCEPT !.queue[r] = Append(@, a)] : r \in Registries,
        a \in {b \in Attesters : chain.rollup[b] = "NoneZero" /\ ~Waiting(b)}} \cup
    {[chain EXCEPT !.queue[r] = Tail(@), !.entry = Append(@, Head(chain.queue[r])),
                   !.rollup[Head(chain.queue[r])] = "NoneStaked"] :
        r \in {q \in Registries : chain.queue[q] # <<>>}} \cup
    (IF chain.entry = <<>> THEN {}
     ELSE {[chain EXCEPT !.entry = Tail(@), !.rollup[Head(chain.entry)] = "Validating"]}) \cup
    {[chain EXCEPT !.rollup[a] = "Leaving"] :
        a \in {b \in Attesters : chain.rollup[b] = "Validating"}} \cup
    {[chain EXCEPT !.wei[p] = IF @ = 0 THEN MinEth ELSE @ - 1] : p \in Publishers}

Move ==
    /\ moves < MaxMoves
    /\ \E next \in Moved : chain' = next
    /\ moves' = moves + 1
    /\ etaRun' = IF etaRun = None \/ chain'.entry = chain.entry THEN etaRun
                 ELSE [etaRun EXCEPT !.exact = FALSE]
    /\ UNCHANGED <<files, edits, agent, due, state, notEta, faults>>

------------------------------------------------------------------------------

\* initAgentChain: a provider that cannot be resolved at start stays unresolved.
Init ==
    /\ files \in FilesAtStart
    /\ chain \in Chains
    /\ providers \in ProviderSets
    /\ \/ enabled \in ScraperSets /\ due = None
       \/ enabled = Range(Scrapers) /\ due = Scrapers
    /\ keys = [a \in Attesters |-> None]
    /\ publishers = [p \in Publishers |-> None]
    /\ global = [entry |-> None, queues |-> [r \in Registries |-> None]]
    /\ keysRun = None /\ statusRun = None /\ balanceRun = None
    /\ etaRun = None /\ globalRun = None
    /\ moves = 0 /\ edits = 0 /\ faults = 0

LocalKeys == KeysStart \/ KeysRead \/ KeysFail \/ KeysApply

LocalStatus ==
    \/ StatusSkips \/ StatusStart
    \/ \E r \in Registries : StatusReadsQueue(r) \/ StatusMissesQueue(r)
    \/ \E a \in Attesters : StatusTakes(a)
    \/ StatusReadsView \/ StatusMissesView \/ StatusEnds

PublisherBalances ==
    \/ BalanceSkips \/ BalanceStart
    \/ \E p \in Publishers : BalanceTakes(p)
    \/ BalanceReads \/ BalanceMisses \/ BalanceEnds

EntryQueueEta == EtaSkips \/ EtaStart \/ EtaReads \/ EtaMisses \/ EtaFails \/ EtaApply

GlobalStats ==
    \/ GlobalStart \/ GlobalFails
    \/ \E r \in Registries : GlobalReadsLength(r) \/ GlobalMisses(r)
    \/ GlobalReadsQueue \/ GlobalEnds

Next ==
    \/ LocalKeys \/ LocalStatus \/ PublisherBalances \/ EntryQueueEta \/ GlobalStats
    \/ \E r \in Registries, content \in Contents : Edit(r, content)
    \/ Move

\* Intervals keep firing and every request has a timeout.
Fairness ==
    /\ WF_vars(LocalKeys) /\ WF_vars(LocalStatus) /\ WF_vars(PublisherBalances)
    /\ WF_vars(EntryQueueEta) /\ WF_vars(GlobalStats)

Spec == Init /\ [][Next]_vars /\ Fairness

------------------------------------------------------------------------------
(* What the observable gauges export: a series for every entry there is, and   *)
(* none for what is absent.                                                    *)

Given(map, field) == {x \in Known(map) : map[x][field] # None}

LocalGauges ==
    [present |-> {<<keys[a].registry, a>> : a \in Known(keys)},
     coinbase |-> [a \in Known(keys) |-> keys[a].coinbase],
     lifecycle |-> [a \in Known(keys) |-> keys[a].lifecycle],
     queued |-> Given(keys, "place"),
     position |-> [a \in Given(keys, "position") |-> keys[a].position],
     nextMissing |-> NextMissing(keys),
     topUp |-> [p \in Known(publishers) |-> publishers[p].topUp]]

GlobalGauges ==
    [length |-> IF global.entry = None THEN {} ELSE {global.entry.length},
     arrival |-> IF global.entry = None THEN {} ELSE {global.entry.arrival} \ {None},
     queues |-> [r \in Known(global.queues) |-> global.queues[r].length],
     next |-> [r \in Given(global.queues, "arrival") |-> global.queues[r].arrival]]

------------------------------------------------------------------------------
(* Properties *)

\* A run leaves no entry behind: when one ends, every entry has been written since
\* the run began or since the entry was added, although local_keys refreshed,
\* dropped and added entries between its awaits (balances that could not be read
\* apart, which keep the old value).
EveryEntryIsReached ==
    [][/\ statusRun # None /\ statusRun' = None => statusRun.stale = {}
       /\ balanceRun # None /\ balanceRun' = None => balanceRun.stale = {}]_vars

KeysExact ==
    /\ LocalGauges.present =
        {<<Last(Listing(files, a)), a>> : a \in {b \in Attesters : Listing(files, b) # <<>>}}
    /\ \A a \in Known(keys) :
        LocalGauges.coinbase[a] = files[Last(Listing(files, a))][a].coinbase

StatusExact ==
    \A a \in Known(keys) :
        LET r == keys[a].registry
            queued == r \in providers /\ Place(a, chain.queue[r]) # None
        IN  /\ a \in LocalGauges.queued <=> queued
            /\ LocalGauges.lifecycle[a] = DeriveLifecycleState(chain.rollup[a], queued)

BalancesExact ==
    LocalGauges.topUp =
        [p \in {q \in Publishers : Referring(files, q) # {}} |->
            TopUp(Cardinality(Referring(files, p)), chain.wei[p])]

\* The alert names the arrival of the first attester of this host in the entry
\* queue that has no coinbase.
EtaExact ==
    LET uncovered == {i \in DOMAIN chain.entry :
                        LET a == chain.entry[i] IN a \in Known(keys) /\ ~keys[a].coinbase}
    IN  /\ LocalGauges.position =
            [a \in {b \in Known(keys) : Place(b, chain.entry) # None} |-> Place(a, chain.entry)]
        /\ LocalGauges.nextMissing = IF uncovered = {} \/ ~chain.flushes THEN None
                                     ELSE Min(uncovered) - 1

GlobalExact ==
    LET arrival == Arrival(Len(chain.entry)) IN
    GlobalGauges =
        [length |-> {Len(chain.entry)}, arrival |-> {arrival} \ {None},
         queues |-> [r \in providers |-> Len(chain.queue[r])],
         next |-> [r \in {q \in providers : chain.queue[q] # <<>> /\ arrival # None} |-> arrival]]

Exact ==
    /\ "local_keys" \in enabled => KeysExact
    /\ "local_status" \in enabled => StatusExact
    /\ "publisher_balances" \in enabled => BalancesExact
    /\ "entry_queue_eta" \in enabled => EtaExact
    /\ "global_stats" \in enabled => GlobalExact

\* Once the files, the chain and the endpoints are quiet, everything the agent
\* exports is what the files and the chain say, and stays so.  `agent --once` gets
\* there in its one pass over the scrapers, if nothing moved and nothing failed.
Converges ==
    <>[](\/ due = None /\ Exact
         \/ due = <<>> /\ (moves = 0 /\ edits = 0 /\ faults = 0 => Exact))

\* A scan during which the queue stood still and every index could be read finds
\* each attester it looks for at its position, although it stops early.
ScanIsExact ==
    [][etaRun # None /\ etaRun' = None /\ etaRun.exact /\ faults' = faults =>
        \A a \in Known(keys) \cap Known(keys') :
            a \in etaRun.remaining \cup Range(etaRun.scanned) =>
                keys'[a].position = Place(a, chain.entry)]_vars
==============================================================================
