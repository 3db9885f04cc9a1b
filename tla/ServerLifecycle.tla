--------------------------- MODULE ServerLifecycle ---------------------------
(* The server process: it loads the configurations of all networks,            *)
(* initialises the networks one after the other, runs their scrapers           *)
(* periodically and shuts down on a signal.  A scraper run is a span of awaits *)
(* that overlaps everything else; what it fetches is abstracted to whether it  *)
(* ends well.                                                                  *)
EXTENDS Naturals, Sequences, FiniteSets, Functions, Selection

CONSTANTS
    NetworkOrder,      \* the networks, in the order findNetworkConfigs lists them
    KindOrder,         \* the kinds of scraper, in the order they are registered
    EntryQueue,        \* the kind whose statistics are kept in a file
    MaxFaults,         \* bound on configurations and inits that fail
    MaxScrapes,        \* [Networks -> Nat]: bound on entry queue statistics taken
    MaxRestarts,
    Torn               \* a statistics file that JSON.parse rejects

Networks == Range(NetworkOrder)
Kinds == Range(KindOrder)

ASSUME KindsAssumption == EntryQueue \in Kinds
ASSUME OrdersAssumption ==
    /\ NetworkOrder \in Seq(Networks) /\ IsInjective(NetworkOrder)
    /\ KindOrder \in Seq(Kinds) /\ IsInjective(KindOrder)
ASSUME BoundsAssumption ==
    MaxFaults \in Nat /\ MaxRestarts \in Nat /\ MaxScrapes \in [Networks -> Nat]
ASSUME TornAssumption == Torn \notin Nat

Scrapers == Networks \X Kinds
SafeSettings == {"off", "proposals", "incomplete"}

VARIABLES
    settings,      \* [Networks -> SafeSettings]: SAFE_ADDRESS, proposals enabled, keys
    stage,         \* how far startServer or its shutdown has come
    signalled,     \* history: SIGINT or SIGTERM arrived
    faults, restarts,
    faulted,       \* history: networks with a read that failed
    waiting,       \* networkConfigs still to initialise, in order
    network,       \* step of initializeNetwork for Head(waiting)
    skipped,       \* networks whose initialisation threw
    registered,    \* scraperConfigs of the manager, in order
    toInit,        \* scrapers whose init has still to run
    enabled, armed,    \* scrapers with enabled = true, with an interval
    scraping,      \* [Scrapers -> BOOLEAN]: the flag of start()'s closure
    inFlight,      \* [Scrapers -> Nat]: runs that have not ended
    watching, fileWatchers,   \* watchers that run; those kept for the shutdown
    polling, safeClients,     \* pending-list polls that run; kept clients
    handlers, callbacks,      \* publisherTopUpHandlers; balance callbacks
    taken,         \* entry queue statistics scraped so far, by network
    stats, timer,  \* entryQueueStats (0 is null) and its save timer
    saving,        \* the statistics being written to the file, 0 without a write
    saveFailed,    \* history: networks whose last write failed
    file

setup == <<settings, waiting, network, skipped, faulted>>
manager == <<registered, toInit, enabled, armed>>
runs == <<scraping, inFlight>>
resources == <<watching, fileWatchers, polling, safeClients, handlers, callbacks>>
storage == <<taken, stats, timer, saving, saveFailed, file>>
vars == <<stage, signalled, faults, restarts, setup, manager, runs, resources, storage>>

None == [n \in Networks |-> FALSE]
Zero == [n \in Networks |-> 0]

Fault == faults < MaxFaults /\ faults' = faults + 1

\* loadEntryQueueStatsFromFile: without a file, or with a torn one, they stay null.
Loaded(f) == IF f = Torn THEN 0 ELSE f

------------------------------------------------------------------------------
(* startServer: configurations, then the networks in turn.                     *)

\* loadAllAvailableNetworkConfigs leaves out what it cannot load.  With nothing left
\* startServer throws and the process ends.
LoadConfigs ==
    /\ stage = "start"
    /\ \E lost \in SUBSET Networks :
          /\ faults + Cardinality(lost) <= MaxFaults
          /\ faults' = faults + Cardinality(lost)
          /\ faulted' = lost
          /\ waiting' = Kept(NetworkOrder, Networks \ lost)
          /\ stage' = IF lost = Networks THEN "exited" ELSE "networks"
    /\ UNCHANGED <<settings, signalled, restarts, network, skipped, manager, runs, resources,
                   storage>>

\* A throw is caught, the network is skipped and the next one has its turn.
NetworkDone == waiting' = Tail(waiting) /\ network' = "reads"

\* The mistake: the exception leaves the loop.
SkipTheRest(n) == waiting' = <<>> /\ network' = "reads" /\ skipped' = skipped \cup {n}
Skip(n) == NetworkDone /\ skipped' = skipped \cup {n}

\* initNetworkState reads the statistics file; loadAndMergeKeysFiles or getNodeInfo
\* throws before anything is registered.
NetworkReadsFail(n) ==
    /\ stage = "networks" /\ waiting # <<>> /\ n = Head(waiting) /\ network = "reads"
    /\ Fault /\ faulted' = faulted \cup {n}
    /\ Skip(n)
    /\ stats' = [stats EXCEPT ![n] = Loaded(file[n])]
    /\ UNCHANGED <<settings, stage, signalled, restarts, manager, runs, resources, taken, timer,
                   saving, saveFailed, file>>

Ready(n) ==
    /\ handlers' = handlers \cup {n} /\ callbacks' = callbacks \cup {n}
    /\ fileWatchers' = fileWatchers \cup {n}

\* From the first getNodeInfo to the next await or throw: the watcher is started, the
\* scrapers are registered, and the Safe settings decide what follows.
NetworkRegisters(n) ==
    /\ stage = "networks" /\ waiting # <<>> /\ n = Head(waiting) /\ network = "reads"
    /\ stats' = [stats EXCEPT ![n] = Loaded(file[n])]
    /\ watching' = watching \cup {n}
    /\ registered' = registered \o [i \in DOMAIN KindOrder |-> <<n, KindOrder[i]>>]
    /\ CASE settings[n] = "off" ->
              NetworkDone /\ Ready(n) /\ UNCHANGED <<skipped, polling, safeClients>>
         [] settings[n] = "incomplete" ->
              Skip(n) /\ UNCHANGED <<handlers, callbacks, fileWatchers, polling, safeClients>>
         [] settings[n] = "proposals" ->
              network' = "safe" /\ UNCHANGED <<waiting, skipped, handlers, callbacks, fileWatchers,
                                               polling, safeClients>>
    /\ UNCHANGED <<settings, stage, signalled, faults, restarts, faulted, toInit, enabled, armed,
                   runs, taken, timer, saving, saveFailed, file>>

SafeReady(n) ==
    /\ stage = "networks" /\ waiting # <<>> /\ n = Head(waiting) /\ network = "safe"
    /\ NetworkDone /\ Ready(n)
    /\ polling' = polling \cup {n} /\ safeClients' = safeClients \cup {n}
    /\ UNCHANGED <<settings, stage, signalled, faults, restarts, skipped, faulted, manager, runs,
                   watching, storage>>

\* The second getNodeInfo throws.
SafeFails(n) ==
    /\ stage = "networks" /\ waiting # <<>> /\ n = Head(waiting) /\ network = "safe"
    /\ Fault /\ faulted' = faulted \cup {n}
    /\ Skip(n)
    /\ UNCHANGED <<settings, stage, signalled, restarts, manager, runs, resources, storage>>

------------------------------------------------------------------------------
(* ScraperManager                                                              *)

StartInit ==
    /\ stage = "networks" /\ waiting = <<>>
    /\ stage' = "initScrapers"
    /\ toInit' = registered /\ enabled' = Range(registered)
    /\ UNCHANGED <<signalled, faults, restarts, setup, registered, armed, runs, resources,
                   storage>>

InitScraper ==
    /\ stage = "initScrapers" /\ toInit # <<>>
    /\ toInit' = Tail(toInit)
    /\ UNCHANGED <<stage, signalled, faults, restarts, setup, registered, enabled, armed, runs,
                   resources, storage>>

\* A scraper whose init throws stays disabled.
InitScraperFails ==
    /\ stage = "initScrapers" /\ toInit # <<>>
    /\ Fault
    /\ toInit' = Tail(toInit)
    /\ enabled' = enabled \ {Head(toInit)}
    /\ UNCHANGED <<stage, signalled, restarts, setup, registered, armed, runs, resources, storage>>

\* The mistake: disabled scrapers are not left out.
ToArmAll == Range(registered)
ToArm == enabled

\* start: an interval and an immediate run for every enabled scraper, without an
\* await; then the signal handlers are installed.
StartScrapers ==
    /\ stage = "initScrapers" /\ toInit = <<>>
    /\ stage' = "serving"
    /\ armed' = ToArm
    /\ scraping' = [s \in Scrapers |-> s \in ToArm]
    /\ inFlight' = [s \in Scrapers |-> IF s \in ToArm THEN 1 ELSE 0]
    /\ UNCHANGED <<signalled, faults, restarts, setup, registered, toInit, enabled, resources,
                   storage>>

\* The mistake: the flag is not looked at.
MayAlwaysRun(s) == inFlight[s] < 2

\* The interval fires: a run starts unless the previous one is in progress.
MayRun(s) == ~scraping[s]

Tick(s) ==
    /\ s \in armed
    /\ MayRun(s)
    /\ scraping' = [scraping EXCEPT ![s] = TRUE]
    /\ inFlight' = [inFlight EXCEPT ![s] = @ + 1]
    /\ UNCHANGED <<stage, signalled, faults, restarts, setup, manager, resources, storage>>

\* The flag falls in finally; the mistaken one falls only after a good run.
ReleaseOnSuccess(s, ok) == scraping' = [scraping EXCEPT ![s] = ~ok]
Release(s, ok) == scraping' = [scraping EXCEPT ![s] = FALSE]

Ends(s, ok) ==
    /\ inFlight[s] > 0 /\ inFlight' = [inFlight EXCEPT ![s] = @ - 1]
    /\ Release(s, ok)

RunFails(s) ==
    /\ Ends(s, FALSE)
    /\ UNCHANGED <<stage, signalled, faults, restarts, setup, manager, resources, storage>>

\* The first run of the entry queue scraper returns at once (isFirstScrape).
RunSucceeds(s) ==
    /\ Ends(s, TRUE)
    /\ UNCHANGED <<stage, signalled, faults, restarts, setup, manager, resources, storage>>

\* The mistake: a save that is under way counts for the new statistics too.
ScheduleWhenIdle(n) == timer' = [timer EXCEPT ![n] = @ \/ saving[n] = 0]
ScheduleSave(n) == timer' = [timer EXCEPT ![n] = TRUE]

\* updateEntryQueueStats arms the save timer.  A run whose last contract read was
\* under way when the scraper was shut down still gets here.
EntryQueueScraped(n) ==
    /\ Ends(<<n, EntryQueue>>, TRUE)
    /\ taken[n] < MaxScrapes[n]
    /\ taken' = [taken EXCEPT ![n] = @ + 1]
    /\ stats' = [stats EXCEPT ![n] = taken[n] + 1]
    /\ ScheduleSave(n)
    /\ UNCHANGED <<stage, signalled, faults, restarts, setup, manager, resources, saving,
                   saveFailed, file>>

\* The timer starts a write that nobody awaits, of what is in memory now; null is not
\* written.  A write ends before the next one, ten minutes of scrape interval later.
SaveStarts(n) ==
    /\ timer[n] /\ timer' = [timer EXCEPT ![n] = FALSE]
    /\ saving[n] = 0 /\ saving' = [saving EXCEPT ![n] = stats[n]]
    /\ UNCHANGED <<stage, signalled, faults, restarts, setup, manager, runs, resources, taken,
                   stats, saveFailed, file>>

SaveEnds(n) ==
    /\ saving[n] # 0 /\ saving' = [saving EXCEPT ![n] = 0]
    /\ file' = [file EXCEPT ![n] = saving[n]]
    /\ saveFailed' = saveFailed \ {n}
    /\ UNCHANGED <<stage, signalled, faults, restarts, setup, manager, runs, resources, taken,
                   stats, timer>>

\* The error is caught and logged, and nothing tries again before the next scrape.
SaveFails(n) ==
    /\ saving[n] # 0 /\ saving' = [saving EXCEPT ![n] = 0]
    /\ Fault
    /\ \E f \in {file[n], Torn} : file' = [file EXCEPT ![n] = f]
    /\ saveFailed' = saveFailed \cup {n}
    /\ UNCHANGED <<stage, signalled, restarts, setup, manager, runs, resources, taken, stats,
                   timer>>

------------------------------------------------------------------------------
(* Signals and the graceful shutdown.                                          *)

Alive == stage \notin {"start", "exited"}

\* Until the server runs there is no handler and the signal ends the process.
SignalKills ==
    /\ stage \in {"networks", "initScrapers"}
    /\ signalled' = TRUE /\ stage' = "exited"
    /\ UNCHANGED <<faults, restarts, setup, manager, runs, resources, storage>>

\* shutdown, up to the await of shutdownHandlers.  A second signal finds
\* isShuttingDown set.  The balance callbacks stay registered.
Signal ==
    /\ stage = "serving"
    /\ signalled' = TRUE /\ stage' = "stopScrapers"
    /\ watching' = watching \ fileWatchers
    /\ handlers' = {}
    /\ UNCHANGED <<faults, restarts, setup, manager, runs, fileWatchers, polling, safeClients,
                   callbacks, storage>>

\* Mistakes: intervals left armed; a shutdown that waits for the runs in flight.
KeepIntervals == UNCHANGED armed
MayStopWhenIdle == \A s \in Scrapers : inFlight[s] = 0

ClearIntervals == armed' = {}
MayStop == TRUE

\* ScraperManager.shutdown clears the intervals, shuts every scraper down (an error
\* is caught) and waits for no run.
StopScrapers ==
    /\ stage = "stopScrapers" /\ stage' = "stopClients"
    /\ MayStop
    /\ ClearIntervals
    /\ stats' = [n \in Networks |-> IF <<n, EntryQueue>> \in Range(registered) THEN 0
                                    ELSE stats[n]]
    /\ polling' = polling \ safeClients
    /\ UNCHANGED <<signalled, faults, restarts, setup, registered, toInit, enabled, runs,
                   watching, fileWatchers, safeClients, handlers, callbacks, taken, timer,
                   saving, saveFailed, file>>

\* A write that was under way leaves the old file or a torn one.
LeaveFiles ==
    /\ \E torn \in SUBSET {n \in Networks : saving[n] # 0} :
          file' = [n \in Networks |-> IF n \in torn THEN Torn ELSE file[n]]
    /\ UNCHANGED <<taken, stats, timer, saving, saveFailed>>

\* The metrics servers are closed, or fail to be; process.exit(0) either way, with
\* no wait for a timer or a write.
Exit ==
    /\ stage = "stopClients" /\ stage' = "exited"
    /\ LeaveFiles
    /\ UNCHANGED <<signalled, faults, restarts, setup, manager, runs, resources>>

\* The process or its machine dies while the server runs or shuts down.
Crash ==
    /\ stage \in {"serving", "stopScrapers", "stopClients"} /\ stage' = "exited"
    /\ restarts < MaxRestarts
    /\ armed' = {}
    /\ LeaveFiles
    /\ UNCHANGED <<signalled, faults, restarts, setup, registered, toInit, enabled, runs, resources>>

\* systemd restarts the unit; only the files remain.
Restart ==
    /\ stage = "exited" /\ restarts < MaxRestarts
    /\ restarts' = restarts + 1
    /\ stage' = "start" /\ signalled' = FALSE /\ faulted' = {}
    /\ waiting' = <<>> /\ network' = "reads" /\ skipped' = {}
    /\ registered' = <<>> /\ toInit' = <<>> /\ enabled' = {} /\ armed' = {}
    /\ scraping' = [s \in Scrapers |-> FALSE] /\ inFlight' = [s \in Scrapers |-> 0]
    /\ watching' = {} /\ fileWatchers' = {} /\ polling' = {} /\ safeClients' = {}
    /\ handlers' = {} /\ callbacks' = {}
    /\ stats' = Zero /\ timer' = None /\ saving' = Zero /\ saveFailed' = {}
    /\ UNCHANGED <<settings, faults, taken, file>>

------------------------------------------------------------------------------
Init ==
    /\ settings \in [Networks -> SafeSettings]
    /\ stage = "start" /\ signalled = FALSE
    /\ faults = 0 /\ restarts = 0 /\ faulted = {}
    /\ waiting = <<>> /\ network = "reads" /\ skipped = {}
    /\ registered = <<>> /\ toInit = <<>> /\ enabled = {} /\ armed = {}
    /\ scraping = [s \in Scrapers |-> FALSE] /\ inFlight = [s \in Scrapers |-> 0]
    /\ watching = {} /\ fileWatchers = {} /\ polling = {} /\ safeClients = {}
    /\ handlers = {} /\ callbacks = {}
    /\ taken = Zero /\ stats = Zero /\ timer = None
    /\ saving = Zero /\ saveFailed = {} /\ file = Zero

Next ==
    \/ LoadConfigs
    \/ \E n \in Networks :
          NetworkReadsFail(n) \/ NetworkRegisters(n) \/ SafeReady(n) \/ SafeFails(n)
    \/ StartInit \/ InitScraper \/ InitScraperFails \/ StartScrapers
    \/ Alive /\ \E s \in Scrapers : Tick(s) \/ RunFails(s) \/ RunSucceeds(s)
    \/ Alive /\ \E n \in Networks : 
          EntryQueueScraped(n) \/ SaveStarts(n) \/ SaveEnds(n) \/ SaveFails(n)
    \/ SignalKills \/ Signal \/ StopScrapers \/ Exit \/ Crash \/ Restart

Spec == Init /\ [][Next]_vars

RunEnds(s) ==
    Alive /\ (RunFails(s) \/ RunSucceeds(s) \/ (s[2] = EntryQueue /\ EntryQueueScraped(s[1])))

(* Fairness: the process goes on with its own steps, awaits of the boot end one *)
(* way or the other, and intervals fire.  No run is assumed to end, no write     *)
(* either.                                                                      *)
Fairness ==
    /\ WF_vars(LoadConfigs)
    /\ \A n \in Networks :
          /\ WF_vars(NetworkReadsFail(n) \/ NetworkRegisters(n))
          /\ WF_vars(SafeReady(n) \/ SafeFails(n))
    /\ WF_vars(StartInit) /\ WF_vars(InitScraper \/ InitScraperFails) /\ WF_vars(StartScrapers)
    /\ \A s \in Scrapers : WF_vars(Alive /\ Tick(s))
    /\ WF_vars(StopScrapers) /\ WF_vars(Exit)

FairSpec == Spec /\ Fairness

------------------------------------------------------------------------------
TypeOK ==
    /\ settings \in [Networks -> SafeSettings]
    /\ stage \in {"start", "networks", "initScrapers", "serving", "stopScrapers",
                  "stopClients", "exited"}
    /\ signalled \in BOOLEAN /\ faults \in 0..MaxFaults /\ restarts \in 0..MaxRestarts
    /\ waiting \in Seq(Networks) /\ network \in {"reads", "safe"}
    /\ skipped \subseteq Networks /\ faulted \subseteq Networks
    /\ registered \in Seq(Scrapers) /\ IsInjective(registered)
    /\ toInit \in Seq(Scrapers) /\ enabled \subseteq Range(registered) /\ armed \subseteq enabled
    /\ scraping \in [Scrapers -> BOOLEAN] /\ inFlight \in [Scrapers -> Nat]
    /\ watching \subseteq Networks /\ fileWatchers \subseteq Networks
    /\ polling \subseteq Networks /\ safeClients \subseteq Networks
    /\ handlers \subseteq callbacks /\ callbacks \subseteq Networks
    /\ \A counts \in {taken, stats, saving} :
          counts \in [Networks -> Nat] /\ \A n \in Networks : counts[n] <= MaxScrapes[n]
    /\ file \in [Networks -> Nat \cup {Torn}]
    /\ \A n \in Networks : Loaded(file[n]) <= MaxScrapes[n]
    /\ timer \in [Networks -> BOOLEAN] /\ saveFailed \subseteq Networks

\* Two runs of one scraper never overlap, whatever a slow run, a failed one or the
\* shutdown leaves behind (scraper-manager.ts, "Guard against overlapping runs").
OneRunAtATime == \A s \in Scrapers : inFlight[s] <= 1

\* While the server serves, statistics that the file lacks have a save due or are
\* being written, or the last write failed: neither a scrape that comes in during the
\* write nor a torn file of an earlier life leaves them behind unnoticed
\* (state/index.ts, scheduleSaveEntryQueueStats, saveEntryQueueStatsToFile).
StatsReachFile ==
    stage = "serving" =>
        \A n \in Networks :
            stats[n] \notin {0, Loaded(file[n])} =>
                timer[n] \/ saving[n] = stats[n] \/ n \in saveFailed

\* Once the manager is shut down no run starts, although some may still be ending.
NoRunAfterStop ==
    [][stage = "stopClients" => \A s \in Scrapers : inFlight'[s] <= inFlight[s]]_vars

\* A scraper whose own runs end, well or with an exception, runs again and again,
\* even when every other scraper hangs (scraper-manager.ts, start).
KeepsScraping ==
    \A s \in Scrapers :
        <>[](s \in armed) /\ WF_vars(RunEnds(s)) =>
            []<>(inFlight[s] = 0) /\ []<>(inFlight[s] > 0)

\* server/index.ts, startServer: "one network failure doesn't affect others": a network
\* whose own reads succeed and whose settings are complete gets its handlers.
IsolatesErrors ==
    \A n \in Networks :
        stage = "start" ~>
            n \in handlers \cup faulted \/ settings[n] = "incomplete" \/ signalled

\* A signal ends the process even while runs hang (server/index.ts, shutdown).
ShutdownEnds == signalled ~> stage = "exited"

\* server/index.ts, startServer: "Skipping this network due to initialization error".
SkippedIsSkipped ==
    \A n \in skipped, k \in Kinds : inFlight[<<n, k>>] = 0
==============================================================================
