---------------------------- MODULE CoinbaseCache ----------------------------
(* The coinbase cache and the commands around it.  CoinbaseScraper fills the   *)
(* cache from StakedWithProvider events; scrape-coinbases runs it for the      *)
(* attesters of the keys files, and the agent's rewards scraper, on the same   *)
(* file, for every attester of the provider.  scrape-coinbases --keys-file and *)
(* fill-coinbases copy coinbases into a registered-keys file, and              *)
(* evaluate-claim-rewards looks for rewards to claim.                          *)
EXTENDS OperatorWorld

CONSTANTS
    Servers,        \* hosts with a registered-keys file of the native registry
    Agent,          \* the agent, that scrapes by itself
    Zero,           \* the zero address
    Torn,           \* the cache file of a process that died while it wrote it
    LogRange,       \* blocks in one getLogs request for split contracts
    FirstBlocks,    \* STAKING_REWARDS_SPLIT_FROM_BLOCK: a block, or None
    Pending, Held,  \* [coinbase -> the recipient's share of what the rollup owes it, and
                    \*  of what it holds]
    Credited,       \* what the warehouse owes the recipient
    GasCost,        \* of the calls for one coinbase, in the same unit
    MaxBps, MaxCost         \* --max-accepted-percentage, --max-accepted-usd

Processes == Operators \cup {Agent}

ASSUME CacheAssumption ==
    /\ LogRange \in Nat \ {0}
    /\ Agent \notin Operators
    /\ {Pending, Held} \subseteq [DOMAIN Pending -> Nat]
    /\ {Credited, GasCost, MaxBps, MaxCost} \subseteq Nat
    /\ None \notin DOMAIN Pending \cup {Zero} /\ Zero \notin DOMAIN Pending /\ Torn # None
    /\ FirstBlocks \subseteq Nat \cup {None}
    /\ IsFiniteSet(Servers)

VARIABLES
    cache,      \* the cache file: a cache, Torn, or None when there is none
    files,      \* [Servers -> the validators of the registered-keys file]
    jobs,       \* [Processes -> a run, or None]
    claims      \* the calls of the last proposal to claim rewards

cacheVars == <<cache, files, jobs, claims>>

Block == Len(events)
AttestersIn(s) == {files[s][i].attester : i \in DOMAIN files[s]}

------------------------------------------------------------------------------
(* Mappings: what a scrape knows of an attester *)

Of(mappings, a) == {m \in mappings : m.attester = a}

\* Of two mappings of an attester the later one counts: a Map is built of them.
Latest(mappings, a) == CHOOSE m \in Of(mappings, a) : \A n \in Of(mappings, a) : n.block <= m.block

CachedCoinbase(mappings, a) ==
    IF Of(mappings, a) = {} THEN None ELSE Latest(mappings, a).coinbase

\* An empty list of attesters discovers all.
Matches(filter, a) == filter = {} \/ a \in filter

Mapping(b) ==
    [attester |-> events[b].attester, coinbase |-> events[b].coinbase, block |-> b]

\* scrapeRange: the provider's events in a range of blocks.
Scraped(from, to, filter) ==
    {Mapping(b) : b \in {n \in 1..Block : n \in from..to /\ Matches(filter, events[n].attester)}}

\* Two different coinbases are a conflict: nothing is merged.
MergeOne(mappings, new) ==
    IF mappings = None THEN None
    ELSE LET others == mappings \ Of(mappings, new.attester)
             old == CachedCoinbase(mappings, new.attester)
         IN  CASE old \in {None, Zero} \ {new.coinbase} -> others \cup {new}
               [] old = new.coinbase -> IF new.block > Latest(mappings, new.attester).block
                                        THEN others \cup {new} ELSE mappings
               [] old \notin {None, Zero, new.coinbase} -> IF new.coinbase = Zero THEN mappings
                                                          ELSE None

\* The new ones are merged in the order of their blocks.
Merge(mappings, new) ==
    LET merged[b \in 0..Block] ==
            IF b = 0 THEN {Latest(mappings, a) : a \in {m.attester : m \in mappings}}
            ELSE IF Mapping(b) \in new THEN MergeOne(merged[b - 1], Mapping(b))
            ELSE merged[b - 1]
    IN  merged[Block]

------------------------------------------------------------------------------
(* Scraping *)

Scrape(mode, filter, server, keys, from) ==
    [command |-> "scrape", mode |-> mode, filter |-> filter, server |-> server, keys |-> keys,
     base |-> None, from |-> from, to |-> None, mappings |-> {},
     phase |-> IF mode = "incremental" THEN "cache" ELSE "block"]

Begins(p, job) ==
    /\ jobs[p] = None
    /\ jobs' = [jobs EXCEPT ![p] = job]

Ends(p) == jobs' = [jobs EXCEPT ![p] = None]

Phase(p, command, phase) ==
    jobs[p] # None /\ jobs[p].command = command /\ jobs[p].phase = phase

\* Of every host's keys, or of those of the file to update.
ScrapeStarts(p) ==
    /\ p \in Operators
    /\ Gives("scrape-coinbases")
    /\ \E mode \in {"incremental", "full", "range"}, server \in Servers \cup {None} :
        LET filter == IF server = None THEN UNION {AttestersIn(s) : s \in Servers}
                      ELSE AttestersIn(server)
        IN  /\ server # None => filter # {}
            /\ \E from \in IF mode = "range" THEN 1..(Block + 1) ELSE {1} :
                Begins(p, Scrape(mode, filter, server,
                                 IF server = None THEN <<>> ELSE files[server], from))
    /\ UNCHANGED <<cache, files, claims, notGiven>>

\* The rewards scraper of the agent, on its interval.
AgentScrapes ==
    /\ Gives("agent")
    /\ Begins(Agent, Scrape("incremental", {}, None, <<>>, 1))
    /\ UNCHANGED <<cache, files, claims, notGiven>>

\* A cache that cannot be parsed fails the scrape.  Without one an incremental
\* scrape becomes a full one; a full one reads the cache after the events.
LoadCache(p) ==
    /\ Phase(p, "scrape", "cache")
    /\ CASE cache = Torn -> Ends(p)
         [] cache # Torn /\ jobs[p].mode = "full" ->
                jobs' = [jobs EXCEPT ![p].base = cache, ![p].phase = "save"]
         [] cache # Torn /\ jobs[p].mode = "incremental" ->
                jobs' = [jobs EXCEPT ![p].base = cache, ![p].phase = "block",
                                     ![p].mode = IF cache = None THEN "full" ELSE @,
                                     ![p].from = IF cache = None THEN @ ELSE cache.last + 1]
    /\ UNCHANGED <<cache, files, claims, worldVars>>

WithMappings(job, mappings, phase) == [job EXCEPT !.mappings = mappings, !.phase = phase]

\* The block number, and the events up to it.
ReadBlock(p) ==
    /\ Phase(p, "scrape", "block")
    /\ LET job == [jobs[p] EXCEPT !.to = Block] IN
       jobs' = [jobs EXCEPT ![p] =
            CASE job.mode = "range" ->
                    WithMappings(job, Scraped(job.from, Block, job.filter), "file")
              [] job.mode = "full" -> [job EXCEPT !.phase = "cache"]
              [] job.mode = "incremental" ->
                    IF job.from > Block THEN WithMappings(job, job.base.mappings, "file")
                    ELSE [job EXCEPT !.phase = "save"]]
    /\ UNCHANGED <<cache, files, claims, worldVars>>

Result(job) ==
    LET new == Scraped(job.from, job.to, job.filter) IN
    IF job.base = None THEN new ELSE Merge(job.base.mappings, new)

\* Observer: the attesters every scrape behind this cache has asked for.
Covered(job) ==
    LET asked == IF job.filter = {} THEN Attesters ELSE job.filter IN
    IF job.mode = "full" THEN asked ELSE asked \cap job.base.covered

\* The mistake: the events were read up to one block, and another one is noted.
SavedNow(job) == [last |-> Block, mappings |-> Result(job), covered |-> Covered(job)]

Saved(job) == [last |-> job.to, mappings |-> Result(job), covered |-> Covered(job)]

\* A conflict ends the command and leaves the cache alone.
Save(p) ==
    /\ Phase(p, "scrape", "save")
    /\ IF Result(jobs[p]) = None
       THEN Ends(p) /\ UNCHANGED cache
       ELSE /\ cache' = Saved(jobs[p])
            /\ jobs' = [jobs EXCEPT ![p] = WithMappings(@, Result(jobs[p]), "file")]
    /\ UNCHANGED <<files, claims, worldVars>>

TearCache(p) ==
    /\ Phase(p, "scrape", "save")
    /\ Result(jobs[p]) # None
    /\ Fails
    /\ cache' = Torn
    /\ Ends(p)
    /\ UNCHANGED <<files, claims, notFaults>>

\* updateKeysFileCoinbases
Corrected(keys, mappings) ==
    [i \in DOMAIN keys |->
        LET coinbase == CachedCoinbase(mappings, keys[i].attester) IN
        IF coinbase \in {None, Zero} THEN keys[i] ELSE [keys[i] EXCEPT !.coinbase = coinbase]]

\* The file as it was loaded, with the coinbases of the scrape.
UpdateFile(p) ==
    /\ Phase(p, "scrape", "file")
    /\ Ends(p)
    /\ files' = IF jobs[p].server = None THEN files
                ELSE LET new == Corrected(jobs[p].keys, jobs[p].mappings) IN
                     IF new = jobs[p].keys THEN files ELSE [files EXCEPT ![jobs[p].server] = new]
    /\ UNCHANGED <<cache, claims, worldVars>>

\* The operator removes a cache that cannot be read.
RemoveTorn ==
    /\ cache = Torn
    /\ cache' = None
    /\ UNCHANGED <<files, jobs, claims, worldVars>>

------------------------------------------------------------------------------
(* fill-coinbases *)

FillStarts(p) ==
    /\ p \in Operators
    /\ Gives("fill-coinbases")
    /\ \E s \in Servers :
        Begins(p, [command |-> "fill", phase |-> "cache", server |-> s, keys |-> files[s]])
    /\ UNCHANGED <<cache, files, claims, notGiven>>

\* The mistake: whatever is cached is filled in.
FilledWithAny(keys, mappings) ==
    [i \in DOMAIN keys |->
        IF keys[i].coinbase # None THEN keys[i]
        ELSE [keys[i] EXCEPT !.coinbase = CachedCoinbase(mappings, keys[i].attester)]]

\* A coinbase that is there is kept, whatever is cached.
Filled(keys, mappings) ==
    [i \in DOMAIN keys |->
        LET coinbase == CachedCoinbase(mappings, keys[i].attester) IN
        IF keys[i].coinbase # None \/ coinbase = Zero THEN keys[i]
        ELSE [keys[i] EXCEPT !.coinbase = coinbase]]

\* Without a cache, or with nothing to add, nothing is written.
FillReads(p) ==
    /\ Phase(p, "fill", "cache")
    /\ IF cache \in {None, Torn} \/ Filled(jobs[p].keys, cache.mappings) = jobs[p].keys
       THEN Ends(p)
       ELSE jobs' = [jobs EXCEPT ![p].keys = Filled(@, cache.mappings), ![p].phase = "write"]
    /\ UNCHANGED <<cache, files, claims, worldVars>>

FillWrites(p) ==
    /\ Phase(p, "fill", "write")
    /\ files' = [files EXCEPT ![jobs[p].server] = jobs[p].keys]
    /\ Ends(p)
    /\ UNCHANGED <<cache, claims, worldVars>>

------------------------------------------------------------------------------
(* evaluate-claim-rewards *)

\* getUniqueCoinbases: each coinbase with the first block it is mapped at.
Coinbases(mappings) == {m.coinbase : m \in mappings} \ {Zero}
FirstMapped(mappings, c) == Min({m.block : m \in {n \in mappings : n.coinbase = c}})

EvaluateStarts(p) ==
    /\ p \in Operators
    /\ Gives("evaluate-claim-rewards")
    /\ cache \notin {None, Torn}
    /\ \E configured \in FirstBlocks :
        Begins(p, [command |-> "evaluate", phase |-> "splits", mappings |-> cache.mappings,
                   configured |-> configured, splits |-> {}])
    /\ UNCHANGED <<cache, files, claims, notGiven>>

\* The mistake: the later of the two blocks.
LaterStart(configured, mappings) ==
    LET first == Min({FirstMapped(mappings, c) : c \in Coinbases(mappings)}) IN
    IF configured = None \/ configured < first THEN first ELSE configured

LogsFrom(configured, mappings) ==
    LET first == Min({FirstMapped(mappings, c) : c \in Coinbases(mappings)}) IN
    IF configured = None \/ configured > first THEN first ELSE configured

\* The ranges of blocks that are scanned one after the other.
Ranges(from, to) ==
    {cursor..Min({cursor + LogRange - 1, to}) :
        cursor \in {from + k * LogRange : k \in 0..to} \cap from..to}

\* A split contract is created when the first attester is staked with it.
CreatedAt(c) == Min({i \in 1..Block : events[i].coinbase = c})

\* getLatestSplits
FindSplits(p) ==
    /\ Phase(p, "evaluate", "splits")
    /\ LET coinbases == Coinbases(jobs[p].mappings)
           scanned == IF coinbases = {} THEN {}
                      ELSE UNION Ranges(LogsFrom(jobs[p].configured, jobs[p].mappings), Block)
       IN  jobs' = [jobs EXCEPT ![p].splits = {c \in coinbases : CreatedAt(c) \in scanned},
                                ![p].phase = "rows"]
    /\ UNCHANGED <<cache, files, claims, worldVars>>

\* Worth it when the gas is a small part of the rewards, or cheap.
Worth(reward, gas) == reward > 0 /\ ((gas * 10000) \div reward <= MaxBps \/ gas <= MaxCost)

\* Without its split nothing of a coinbase's rewards is known to be ours.
Owed(job, c) == IF c \in job.splits THEN Pending[c] + Held[c] ELSE 0

\* An estimate that fails counts as no gas at all.
Gas(c, failed) == IF c \in failed THEN 0 ELSE GasCost

Claimable(job, failed) == {c \in Coinbases(job.mappings) : Worth(Owed(job, c), Gas(c, failed))}

\* A coinbase is claimed for, when the rollup owes it anything, and then
\* distributed; one withdrawal follows.  None stands for the warehouse.
Calls(worth, withdraws) ==
    {<<"claim", c>> : c \in {d \in worth : Pending[d] > 0}}
    \cup {<<"distribute", c>> : c \in worth}
    \cup (IF withdraws \/ worth # {} THEN {<<"withdraw", None>>} ELSE {})

\* Without a call nothing is proposed.
ProposeClaims(p) ==
    /\ Phase(p, "evaluate", "rows")
    /\ \E failed \in SUBSET (Coinbases(jobs[p].mappings) \cup {None}) :
        LET calls == Calls(Claimable(jobs[p], failed), Worth(Credited, Gas(None, failed)))
        IN  claims' = IF calls = {} THEN claims ELSE calls
    /\ Ends(p)
    /\ UNCHANGED <<cache, files, worldVars>>

------------------------------------------------------------------------------

\* A request fails, or the process dies: what it has written stays.
JobDies(p) ==
    /\ jobs[p] # None
    /\ Fails
    /\ Ends(p)
    /\ UNCHANGED <<cache, files, claims, notFaults>>

CacheInit ==
    /\ cache = None /\ claims = {}
    /\ jobs = [p \in Processes |-> None]

CacheNext ==
    \/ AgentScrapes \/ RemoveTorn
    \/ \E p \in Processes :
        \/ ScrapeStarts(p) \/ LoadCache(p) \/ ReadBlock(p) \/ Save(p) \/ TearCache(p)
        \/ UpdateFile(p) \/ FillStarts(p) \/ FillReads(p) \/ FillWrites(p)
        \/ EvaluateStarts(p) \/ FindSplits(p) \/ ProposeClaims(p) \/ JobDies(p)
==============================================================================
