----------------------- MODULE ServerLifecycle_proofs -----------------------
(***************************************************************************)
(* For any list of networks and kinds of scraper: runs of one scraper never *)
(* overlap, none starts once the manager is shut down, and no statistics    *)
(* stay unsaved without a save that is due, under way or failed.            *)
(***************************************************************************)
EXTENDS ServerLifecycle, Prefixes, FiniteSetTheorems, TLAPS

\* The flag of start()'s closure says exactly whether a run is in flight.
FlagInv ==
  /\ scraping \in [Scrapers -> BOOLEAN] /\ inFlight \in [Scrapers -> Nat]
  /\ \A s \in Scrapers : inFlight[s] = IF scraping[s] THEN 1 ELSE 0

\* Between the manager's shutdown and the exit no interval is armed.
StopInv == stage = "stopClients" => armed = {}

\* Until the scrapers start nothing runs and nothing is written.
BootInv ==
  stage \in {"start", "networks", "initScrapers"} =>
    /\ armed = {} /\ \A s \in Scrapers : inFlight[s] = 0
    /\ timer = None /\ saving = Zero

\* Statistics in memory have a save due unless the file has them, or a write that is
\* under way will bring them, or the last write failed.  The second part is for the
\* scrape that comes in while older statistics are being written.
SaveInv ==
  /\ taken \in [Networks -> Nat] /\ stats \in [Networks -> Nat]
  /\ saving \in [Networks -> Nat] /\ file \in [Networks -> Nat \cup {Torn}]
  /\ timer \in [Networks -> BOOLEAN]
  /\ \A n \in Networks : stats[n] \notin {0, Loaded(file[n])} =>
        timer[n] \/ saving[n] = stats[n] \/ n \in saveFailed
  /\ \A n \in Networks : saving[n] # 0 /\ stats[n] \notin {0, saving[n]} => timer[n]

\* The steps of a write to the statistics file.
Saves(n) == SaveStarts(n) \/ SaveEnds(n) \/ SaveFails(n)

-----------------------------------------------------------------------------
(* The flag.                                                                 *)

LEMMA EndsFlag ==
  ASSUME FlagInv, NEW s \in Scrapers, NEW ok \in BOOLEAN, Ends(s, ok)
  PROVE  FlagInv'
<1>1. inFlight[s] = 1 /\ scraping[s]
  BY DEF FlagInv, Ends
<1>2. inFlight' = [inFlight EXCEPT ![s] = 0] /\ scraping' = [scraping EXCEPT ![s] = FALSE]
  BY <1>1 DEF Ends, Release
<1> QED BY <1>1, <1>2 DEF FlagInv

LEMMA StartFlag ==
  ASSUME StartScrapers PROVE FlagInv'
<1>1. /\ scraping' = [s \in Scrapers |-> s \in ToArm]
      /\ inFlight' = [s \in Scrapers |-> IF s \in ToArm THEN 1 ELSE 0]
  BY DEF StartScrapers
<1>2. scraping' \in [Scrapers -> BOOLEAN]
  <2>1. \A s \in Scrapers : (s \in ToArm) \in BOOLEAN
    BY SMT
  <2> QED BY <1>1, <2>1
<1>3. inFlight' \in [Scrapers -> Nat]
  BY <1>1
<1>4. ASSUME NEW s \in Scrapers PROVE inFlight'[s] = IF scraping'[s] THEN 1 ELSE 0
  BY <1>1, Zenon
<1> QED BY <1>2, <1>3, <1>4 DEF FlagInv

LEMMA TickFlag ==
  ASSUME FlagInv, NEW s \in Scrapers, Tick(s) PROVE FlagInv'
<1>1. inFlight[s] = 0 /\ ~scraping[s]
  BY DEF FlagInv, Tick, MayRun
<1>2. inFlight' = [inFlight EXCEPT ![s] = 1] /\ scraping' = [scraping EXCEPT ![s] = TRUE]
  BY <1>1 DEF Tick
<1> QED BY <1>1, <1>2 DEF FlagInv

\* Every other step leaves the runs alone, or ends the process with all of them.
LEMMA NextFlag ==
  FlagInv /\ [Next]_vars => FlagInv'
<1> SUFFICES ASSUME FlagInv, [Next]_vars PROVE FlagInv'
  OBVIOUS
<1>1. ASSUME UNCHANGED runs PROVE FlagInv'
  BY <1>1 DEF runs, FlagInv
<1>2. CASE LoadConfigs
  BY <1>1, <1>2 DEF LoadConfigs
<1>3. ASSUME NEW n \in Networks,
             NetworkReadsFail(n) \/ NetworkRegisters(n) \/ SafeReady(n) \/ SafeFails(n)
      PROVE  FlagInv'
  BY <1>1, <1>3 DEF NetworkReadsFail, NetworkRegisters, SafeReady, SafeFails
<1>4. CASE StartInit \/ InitScraper \/ InitScraperFails
  BY <1>1, <1>4 DEF StartInit, InitScraper, InitScraperFails
<1>5. CASE StartScrapers
  BY <1>5, StartFlag
<1>6. ASSUME NEW s \in Scrapers, Tick(s) \/ RunFails(s) \/ RunSucceeds(s) PROVE FlagInv'
  BY <1>6, TickFlag, EndsFlag DEF RunFails, RunSucceeds
<1>7. ASSUME NEW n \in Networks, EntryQueueScraped(n) PROVE FlagInv'
  <2>1. <<n, EntryQueue>> \in Scrapers
    BY KindsAssumption DEF Scrapers
  <2> QED BY <1>7, <2>1, EndsFlag DEF EntryQueueScraped
<1>8. ASSUME NEW n \in Networks, Saves(n) PROVE FlagInv'
  BY <1>1, <1>8 DEF Saves, SaveStarts, SaveEnds, SaveFails
<1>9. CASE SignalKills \/ Signal \/ StopScrapers \/ Exit \/ Crash
  BY <1>1, <1>9 DEF SignalKills, Signal, StopScrapers, Exit, Crash
<1>10. CASE Restart
  BY <1>10 DEF Restart, FlagInv
<1>11. CASE UNCHANGED vars
  BY <1>1, <1>11 DEF vars
<1> QED BY <1>2, <1>3, <1>4, <1>5, <1>6, <1>7, <1>8, <1>9, <1>10, <1>11 DEF Next, Saves

\* Runs of one scraper never overlap ("Guard against overlapping runs",
\* scraper-manager.ts), for any networks, kinds, failures, signals and restarts.
THEOREM RunsNeverOverlap == Spec => []OneRunAtATime
<1>1. Init => FlagInv
  BY DEF Init, FlagInv
<1>2. FlagInv => OneRunAtATime
  BY DEF FlagInv, OneRunAtATime
<1> QED BY <1>1, <1>2, NextFlag, PTL DEF Spec

-----------------------------------------------------------------------------
(* The shutdown.                                                             *)

LEMMA NextStop ==
  StopInv /\ [Next]_vars => StopInv'
<1> SUFFICES ASSUME StopInv, [Next]_vars PROVE StopInv'
  OBVIOUS
<1>1. ASSUME UNCHANGED <<stage, armed>> PROVE StopInv'
  BY <1>1 DEF StopInv
<1>2. CASE LoadConfigs
  BY <1>2 DEF LoadConfigs, StopInv
<1>3. ASSUME NEW n \in Networks,
             NetworkReadsFail(n) \/ NetworkRegisters(n) \/ SafeReady(n) \/ SafeFails(n)
      PROVE  StopInv'
  BY <1>1, <1>3 DEF NetworkReadsFail, NetworkRegisters, SafeReady, SafeFails, manager
<1>4. CASE StartInit \/ StartScrapers \/ SignalKills \/ Signal \/ Exit \/ Crash \/ Restart
  BY <1>4 DEF StartInit, StartScrapers, SignalKills, Signal, Exit, Crash, Restart, StopInv
<1>5. CASE InitScraper \/ InitScraperFails
  BY <1>1, <1>5 DEF InitScraper, InitScraperFails
<1>6. CASE StopScrapers
  BY <1>6 DEF StopScrapers, ClearIntervals, StopInv
<1>7. ASSUME NEW s \in Scrapers, Tick(s) \/ RunFails(s) \/ RunSucceeds(s) PROVE StopInv'
  BY <1>1, <1>7 DEF Tick, RunFails, RunSucceeds, manager
<1>8. ASSUME NEW n \in Networks, EntryQueueScraped(n) \/ Saves(n) PROVE StopInv'
  BY <1>1, <1>8 DEF EntryQueueScraped, Saves, SaveStarts, SaveEnds, SaveFails, manager
<1>9. CASE UNCHANGED vars
  BY <1>1, <1>9 DEF vars, manager
<1> QED BY <1>2, <1>3, <1>4, <1>5, <1>6, <1>7, <1>8, <1>9
   DEF Next, Saves

\* In that stage every step ends a run, or leaves all of them alone.
LEMMA StoppedStep ==
  ASSUME FlagInv, StopInv, [Next]_vars, stage = "stopClients", NEW s \in Scrapers
  PROVE  inFlight'[s] <= inFlight[s]
<1>1. ASSUME UNCHANGED runs PROVE inFlight'[s] <= inFlight[s]
  BY <1>1 DEF runs, FlagInv
<1>2. ASSUME NEW t \in Scrapers, NEW ok \in BOOLEAN, Ends(t, ok)
      PROVE  inFlight'[s] <= inFlight[s]
  <2>1. inFlight[t] \in Nat /\ inFlight[t] > 0 /\ inFlight[s] \in Nat
    BY <1>2 DEF FlagInv, Ends
  <2>2. inFlight'[s] = IF s = t THEN inFlight[t] - 1 ELSE inFlight[s]
    BY <1>2 DEF FlagInv, Ends
  <2> QED BY <2>1, <2>2
<1>3. CASE UNCHANGED vars \/ Exit \/ Crash
  BY <1>1, <1>3 DEF vars, Exit, Crash
<1>4. ASSUME NEW t \in Scrapers, Tick(t) PROVE FALSE
  BY <1>4 DEF StopInv, Tick
<1>5. ASSUME NEW t \in Scrapers, RunFails(t) \/ RunSucceeds(t)
      PROVE  inFlight'[s] <= inFlight[s]
  BY <1>2, <1>5 DEF RunFails, RunSucceeds
<1>6. ASSUME NEW n \in Networks, EntryQueueScraped(n) PROVE inFlight'[s] <= inFlight[s]
  <2>1. <<n, EntryQueue>> \in Scrapers
    BY KindsAssumption DEF Scrapers
  <2> QED BY <1>2, <1>6, <2>1 DEF EntryQueueScraped
<1>7. ASSUME NEW n \in Networks, Saves(n) PROVE inFlight'[s] <= inFlight[s]
  BY <1>1, <1>7 DEF Saves, SaveStarts, SaveEnds, SaveFails
<1>8. ~ (\/ LoadConfigs \/ StartInit \/ InitScraper \/ InitScraperFails \/ StartScrapers
         \/ SignalKills \/ Signal \/ StopScrapers \/ Restart)
  BY DEF LoadConfigs, StartInit, InitScraper, InitScraperFails, StartScrapers, SignalKills,
         Signal, StopScrapers, Restart
<1>9. ASSUME NEW n \in Networks PROVE
        ~ (NetworkReadsFail(n) \/ NetworkRegisters(n) \/ SafeReady(n) \/ SafeFails(n))
  BY DEF NetworkReadsFail, NetworkRegisters, SafeReady, SafeFails
<1> QED BY <1>3, <1>4, <1>5, <1>6, <1>7, <1>8, <1>9
   DEF Next, Saves

\* Once the manager is shut down no run starts, although runs in flight may go on
\* (ScraperManager.shutdown), for any networks and kinds of scraper.
THEOREM NothingStartsAfterStop == Spec => NoRunAfterStop
<1>1. Init => FlagInv /\ StopInv
  BY DEF Init, FlagInv, StopInv
<1>2. FlagInv /\ StopInv /\ [Next]_vars =>
        [stage = "stopClients" => \A s \in Scrapers : inFlight'[s] <= inFlight[s]]_vars
  BY StoppedStep
<1> QED BY <1>1, <1>2, NextFlag, NextStop, PTL DEF Spec, NoRunAfterStop

-----------------------------------------------------------------------------
(* The statistics file.                                                      *)

LEMMA NextBoot ==
  BootInv /\ [Next]_vars => BootInv'
<1> SUFFICES ASSUME BootInv, [Next]_vars PROVE BootInv'
  OBVIOUS
<1> DEFINE booting == stage \in {"start", "networks", "initScrapers"}
<1>1. ASSUME UNCHANGED <<armed, inFlight, timer, saving>>, booting' => booting PROVE BootInv'
  BY <1>1 DEF BootInv
<1>2. CASE LoadConfigs
  BY <1>1, <1>2 DEF LoadConfigs, manager, runs, storage
<1>3. ASSUME NEW n \in Networks, NetworkReadsFail(n) \/ NetworkRegisters(n) PROVE BootInv'
  BY <1>1, <1>3 DEF NetworkReadsFail, NetworkRegisters, manager, runs
<1>4. ASSUME NEW n \in Networks, SafeReady(n) \/ SafeFails(n) PROVE BootInv'
  BY <1>1, <1>4 DEF SafeReady, SafeFails, manager, runs, storage
<1>5. CASE StartInit \/ InitScraper \/ InitScraperFails
  BY <1>1, <1>5 DEF StartInit, InitScraper, InitScraperFails, runs, storage
<1>6. CASE StartScrapers \/ SignalKills \/ Signal \/ StopScrapers \/ Exit \/ Crash
  BY <1>6 DEF StartScrapers, SignalKills, Signal, StopScrapers, Exit, Crash, BootInv
<1>7. ASSUME NEW s \in Scrapers, Tick(s) \/ RunFails(s) \/ RunSucceeds(s) PROVE BootInv'
  <2>1. s \in armed \/ inFlight[s] > 0
    BY <1>7 DEF Tick, RunFails, RunSucceeds, Ends
  <2>2. ~booting
    BY <2>1 DEF BootInv
  <2>3. stage' = stage
    BY <1>7 DEF Tick, RunFails, RunSucceeds
  <2> QED BY <2>2, <2>3 DEF BootInv
<1>8. ASSUME NEW n \in Networks, EntryQueueScraped(n) PROVE BootInv'
  <2>1. inFlight[<<n, EntryQueue>>] > 0 /\ <<n, EntryQueue>> \in Scrapers
    BY <1>8, KindsAssumption DEF EntryQueueScraped, Ends, Scrapers
  <2>2. ~booting /\ stage' = stage
    BY <1>8, <2>1 DEF EntryQueueScraped, BootInv
  <2> QED BY <2>2 DEF BootInv
<1>9. ASSUME NEW n \in Networks, Saves(n) PROVE BootInv'
  <2>1. timer[n] \/ saving[n] # 0
    BY <1>9 DEF Saves, SaveStarts, SaveEnds, SaveFails
  <2>2. ~booting /\ stage' = stage
    BY <1>9, <2>1 DEF Saves, SaveStarts, SaveEnds, SaveFails, BootInv, None, Zero
  <2> QED BY <2>2 DEF BootInv
<1>10. CASE Restart
  BY <1>10 DEF Restart, BootInv
<1>11. CASE UNCHANGED vars
  BY <1>1, <1>11 DEF vars, manager, runs, storage
<1> QED BY <1>2, <1>3, <1>4, <1>5, <1>6, <1>7, <1>8, <1>9, <1>10, <1>11 DEF Next, Saves

LEMMA StartSaves ==
  ASSUME SaveInv, NEW n \in Networks, SaveStarts(n) PROVE SaveInv'
<1>1. /\ timer' = [timer EXCEPT ![n] = FALSE] /\ saving' = [saving EXCEPT ![n] = stats[n]]
      /\ UNCHANGED <<taken, stats, saveFailed, file>>
  BY DEF SaveStarts
<1>2. saving' \in [Networks -> Nat] /\ timer' \in [Networks -> BOOLEAN]
  BY <1>1 DEF SaveInv
<1>3. \A m \in Networks : saving'[m] = IF m = n THEN stats[n] ELSE saving[m]
  BY <1>1 DEF SaveInv
<1>4. \A m \in Networks : m # n => timer'[m] = timer[m]
  BY <1>1 DEF SaveInv
<1> QED BY <1>1, <1>2, <1>3, <1>4 DEF SaveInv

LEMMA EndSaves ==
  ASSUME SaveInv, NEW n \in Networks, SaveEnds(n) PROVE SaveInv'
<1>1. /\ saving' = [saving EXCEPT ![n] = 0] /\ file' = [file EXCEPT ![n] = saving[n]]
      /\ saveFailed' = saveFailed \ {n} /\ saving[n] # 0
      /\ UNCHANGED <<taken, stats, timer>>
  BY DEF SaveEnds
<1>2. saving' \in [Networks -> Nat] /\ file' \in [Networks -> Nat \cup {Torn}]
  BY <1>1 DEF SaveInv
<1>3. Loaded(file'[n]) = saving[n] /\ saving'[n] = 0
  BY <1>1, TornAssumption DEF SaveInv, Loaded
<1>4. \A m \in Networks : m # n => saving'[m] = saving[m] /\ file'[m] = file[m]
  BY <1>1 DEF SaveInv
<1>5. ASSUME NEW m \in Networks, stats[m] \notin {0, Loaded(file'[m])}
      PROVE  timer[m] \/ saving'[m] = stats[m] \/ m \in saveFailed'
  <2>1. CASE m = n
    BY <1>1, <1>3, <1>5, <2>1 DEF SaveInv
  <2>2. CASE m # n
    BY <1>1, <1>4, <1>5, <2>2 DEF SaveInv
  <2> QED BY <2>1, <2>2
<1>6. \A m \in Networks : saving'[m] # 0 /\ stats[m] \notin {0, saving'[m]} => timer[m]
  BY <1>3, <1>4 DEF SaveInv
<1> QED BY <1>1, <1>2, <1>5, <1>6 DEF SaveInv

LEMMA FailSaves ==
  ASSUME SaveInv, NEW n \in Networks, SaveFails(n) PROVE SaveInv'
<1>1. PICK f \in {file[n], Torn} : file' = [file EXCEPT ![n] = f]
  BY DEF SaveFails
<1>2. /\ saving' = [saving EXCEPT ![n] = 0] /\ saveFailed' = saveFailed \cup {n}
      /\ UNCHANGED <<taken, stats, timer>>
  BY DEF SaveFails
<1>3. saving' \in [Networks -> Nat] /\ file' \in [Networks -> Nat \cup {Torn}]
  BY <1>1, <1>2 DEF SaveInv
<1>4. saving'[n] = 0 /\ \A m \in Networks : m # n => saving'[m] = saving[m] /\ file'[m] = file[m]
  BY <1>1, <1>2 DEF SaveInv
<1> QED BY <1>2, <1>3, <1>4 DEF SaveInv

\* A file is torn only where statistics are being written: those, or newer ones with
\* their timer set, are what is in memory.
LEMMA DeathSaves ==
  ASSUME SaveInv, LeaveFiles PROVE SaveInv'
<1>1. PICK torn \in SUBSET {n \in Networks : saving[n] # 0} :
        file' = [n \in Networks |-> IF n \in torn THEN Torn ELSE file[n]]
  BY DEF LeaveFiles
<1>2. UNCHANGED <<taken, stats, timer, saving, saveFailed>>
  BY DEF LeaveFiles
<1>3. file' \in [Networks -> Nat \cup {Torn}]
  BY <1>1 DEF SaveInv
<1>4. ASSUME NEW n \in Networks, stats[n] \notin {0, Loaded(file'[n])}
      PROVE  timer[n] \/ saving[n] = stats[n] \/ n \in saveFailed
  <2>1. CASE n \in torn
    BY <1>1, <1>4, <2>1 DEF SaveInv
  <2>2. CASE n \notin torn
    BY <1>1, <1>4, <2>2 DEF SaveInv
  <2> QED BY <2>1, <2>2
<1> QED BY <1>2, <1>3, <1>4 DEF SaveInv

LEMMA LoadSaves ==
  ASSUME SaveInv, BootInv, NEW n \in Networks, NetworkReadsFail(n) \/ NetworkRegisters(n)
  PROVE  SaveInv'
<1>1. /\ stats' = [stats EXCEPT ![n] = Loaded(file[n])]
      /\ UNCHANGED <<taken, timer, saving, saveFailed, file>>
  BY DEF NetworkReadsFail, NetworkRegisters
<1>2. \A m \in Networks : saving[m] = 0
  BY DEF NetworkReadsFail, NetworkRegisters, BootInv, Zero
<1>3. Loaded(file[n]) \in Nat
  BY DEF Loaded, SaveInv
<1>4. stats' \in [Networks -> Nat] /\ stats'[n] = Loaded(file[n])
  BY <1>1, <1>3 DEF SaveInv
<1>5. \A m \in Networks : m # n => stats'[m] = stats[m]
  BY <1>1 DEF SaveInv
<1> QED BY <1>1, <1>2, <1>4, <1>5 DEF SaveInv

LEMMA NextSave ==
  SaveInv /\ BootInv /\ [Next]_vars => SaveInv'
<1> SUFFICES ASSUME SaveInv, BootInv, [Next]_vars PROVE SaveInv'
  OBVIOUS
<1>1. ASSUME UNCHANGED storage PROVE SaveInv'
  BY <1>1 DEF storage, SaveInv
<1>2. CASE LoadConfigs \/ StartInit \/ InitScraper \/ InitScraperFails \/ StartScrapers
  BY <1>1, <1>2 DEF LoadConfigs, StartInit, InitScraper, InitScraperFails, StartScrapers
<1>3. ASSUME NEW n \in Networks, NetworkReadsFail(n) \/ NetworkRegisters(n) PROVE SaveInv'
  BY <1>3, LoadSaves
<1>4. ASSUME NEW n \in Networks, SafeReady(n) \/ SafeFails(n) PROVE SaveInv'
  BY <1>1, <1>4 DEF SafeReady, SafeFails
<1>5. ASSUME NEW s \in Scrapers, Tick(s) \/ RunFails(s) \/ RunSucceeds(s) PROVE SaveInv'
  BY <1>1, <1>5 DEF Tick, RunFails, RunSucceeds
<1>6. ASSUME NEW n \in Networks, EntryQueueScraped(n) PROVE SaveInv'
  BY <1>6 DEF EntryQueueScraped, ScheduleSave, SaveInv
<1>7. ASSUME NEW n \in Networks, Saves(n) PROVE SaveInv'
  BY <1>7, StartSaves, EndSaves, FailSaves DEF Saves
<1>8. CASE SignalKills \/ Signal
  BY <1>1, <1>8 DEF SignalKills, Signal
<1>9. CASE Exit \/ Crash
  BY <1>9, DeathSaves DEF Exit, Crash
<1>10. CASE StopScrapers
  BY <1>10 DEF StopScrapers, SaveInv
<1>11. CASE Restart
  BY <1>11 DEF Restart, Zero, None, SaveInv
<1>12. CASE UNCHANGED vars
  BY <1>1, <1>12 DEF vars
<1> QED
  BY <1>2, <1>3, <1>4, <1>5, <1>6, <1>7, <1>8, <1>9, <1>10, <1>11, <1>12 DEF Next, Saves

\* A scrape is lost only to a death that comes before its write ends, or to a write that
\* failed (scheduleSaveEntryQueueStats, saveEntryQueueStatsToFile,
\* loadEntryQueueStatsFromFile), for any networks, crashes and restarts.
THEOREM StatsAreSaved == Spec => []StatsReachFile
<1>1. Init => SaveInv /\ BootInv
  BY DEF Init, SaveInv, BootInv, Zero, None, Loaded
<1>2. SaveInv => StatsReachFile
  BY DEF SaveInv, StatsReachFile
<1> QED BY <1>1, <1>2, NextSave, NextBoot, PTL DEF Spec

-----------------------------------------------------------------------------
(* Types.  That no scraper is registered twice needs to know which networks  *)
(* are still to come: none of them has a scraper, but the one whose Safe      *)
(* client is being made.                                                      *)

StageInv ==
  /\ stage \in {"start", "networks", "initScrapers", "serving", "stopScrapers",
                "stopClients", "exited"}
  /\ settings \in [Networks -> SafeSettings]
  /\ signalled \in BOOLEAN /\ faults \in 0..MaxFaults /\ restarts \in 0..MaxRestarts
  /\ skipped \subseteq Networks /\ faulted \subseteq Networks

QueueInv ==
  /\ waiting \in Seq(Networks) /\ IsInjective(waiting)
  /\ registered \in Seq(Scrapers) /\ IsInjective(registered)
  /\ network \in {"reads", "safe"}
  /\ stage = "start" => registered = <<>> /\ network = "reads"
  /\ \A s \in Range(registered) :
        s[1] \in Range(waiting) => network = "safe" /\ s[1] = Head(waiting)

ManagerInv ==
  /\ toInit \in Seq(Scrapers)
  /\ enabled \subseteq Range(registered) /\ armed \subseteq enabled
  /\ stage \in {"start", "networks", "initScrapers"} => armed = {}

ResourceInv ==
  /\ watching \subseteq Networks /\ fileWatchers \subseteq Networks
  /\ polling \subseteq Networks /\ safeClients \subseteq Networks
  /\ handlers \subseteq callbacks /\ callbacks \subseteq Networks

\* Statistics that the bound on scrapes allows.
Statistics == {counts \in [Networks -> Nat] : \A n \in Networks : counts[n] <= MaxScrapes[n]}
Files ==
  {f \in [Networks -> Nat \cup {Torn}] : \A n \in Networks : Loaded(f[n]) <= MaxScrapes[n]}

StorageInv ==
  /\ taken \in Statistics /\ stats \in Statistics /\ saving \in Statistics
  /\ file \in Files
  /\ timer \in [Networks -> BOOLEAN] /\ saveFailed \subseteq Networks

TypeInv == StageInv /\ QueueInv /\ ManagerInv /\ ResourceInv /\ StorageInv /\ FlagInv

LEMMA NetworksAreFinite == IsFiniteSet(Networks)
<1>1. DOMAIN NetworkOrder = 1..Len(NetworkOrder) /\ Len(NetworkOrder) \in Nat
  BY OrdersAssumption
<1>2. IsFiniteSet(1..Len(NetworkOrder))
  BY <1>1, FS_Interval
<1>3. NetworkOrder \in Surjection(1..Len(NetworkOrder), Networks)
  <2>1. NetworkOrder \in [1..Len(NetworkOrder) -> Networks]
    BY OrdersAssumption
  <2>2. \A n \in Networks : \E i \in 1..Len(NetworkOrder) : NetworkOrder[i] = n
    BY <1>1 DEF Networks, Range
  <2> QED BY <2>1, <2>2 DEF Surjection
<1> QED BY <1>2, <1>3, FS_Surjection

LEMMA NextStage ==
  StageInv /\ [Next]_vars => StageInv'
<1> SUFFICES ASSUME StageInv, [Next]_vars PROVE StageInv'
  OBVIOUS
<1>0. MaxFaults \in Nat /\ MaxRestarts \in Nat /\ faults \in Nat /\ restarts \in Nat
  BY BoundsAssumption DEF StageInv
<1>1. ASSUME UNCHANGED <<stage, settings, signalled, faults, restarts, skipped, faulted>>
      PROVE  StageInv'
  BY <1>1 DEF StageInv
<1>2. ASSUME Fault PROVE faults' \in 0..MaxFaults
  BY <1>0, <1>2 DEF Fault
<1>3. CASE LoadConfigs
  <2>1. PICK lost \in SUBSET Networks :
          /\ faults + Cardinality(lost) <= MaxFaults
          /\ faults' = faults + Cardinality(lost)
          /\ faulted' = lost
          /\ stage' = IF lost = Networks THEN "exited" ELSE "networks"
    BY <1>3 DEF LoadConfigs
  <2>2. Cardinality(lost) \in Nat
    BY NetworksAreFinite, FS_Subset, FS_CardinalityType
  <2>3. faults' \in 0..MaxFaults
    BY <1>0, <2>1, <2>2
  <2>4. UNCHANGED <<settings, signalled, restarts, skipped>>
    BY <1>3 DEF LoadConfigs
  <2> QED BY <2>1, <2>3, <2>4 DEF StageInv
<1>4. ASSUME NEW n \in Networks, NetworkReadsFail(n) \/ SafeFails(n) PROVE StageInv'
  <2>1. faults' \in 0..MaxFaults
    BY <1>2, <1>4 DEF NetworkReadsFail, SafeFails
  <2> QED BY <1>4, <2>1 DEF NetworkReadsFail, SafeFails, Skip, StageInv
<1>5. ASSUME NEW n \in Networks, NetworkRegisters(n) PROVE StageInv'
  <2>1. skipped' \subseteq Networks
    <3>1. settings[n] \in SafeSettings
      BY DEF StageInv
    <3> QED BY <1>5, <3>1 DEF NetworkRegisters, Skip, StageInv, SafeSettings
  <2> QED BY <1>5, <2>1 DEF NetworkRegisters, StageInv
<1>6. ASSUME NEW n \in Networks, SafeReady(n) PROVE StageInv'
  BY <1>1, <1>6 DEF SafeReady
<1>7. CASE StartInit \/ InitScraper \/ StartScrapers \/ SignalKills \/ Signal \/ StopScrapers
           \/ Exit \/ Crash
  BY <1>7 DEF StartInit, InitScraper, StartScrapers, SignalKills, Signal, StopScrapers, Exit,
     Crash, setup, StageInv
<1>8. CASE InitScraperFails
  <2>1. faults' \in 0..MaxFaults
    BY <1>2, <1>8 DEF InitScraperFails
  <2> QED BY <1>8, <2>1 DEF InitScraperFails, setup, StageInv
<1>9. ASSUME NEW s \in Scrapers, Tick(s) \/ RunFails(s) \/ RunSucceeds(s) PROVE StageInv'
  BY <1>1, <1>9 DEF Tick, RunFails, RunSucceeds, setup
<1>10. ASSUME NEW n \in Networks, EntryQueueScraped(n) \/ SaveStarts(n) \/ SaveEnds(n)
       PROVE  StageInv'
  BY <1>1, <1>10 DEF EntryQueueScraped, SaveStarts, SaveEnds, setup
<1>10a. ASSUME NEW n \in Networks, SaveFails(n) PROVE StageInv'
  <2>1. faults' \in 0..MaxFaults
    BY <1>2, <1>10a DEF SaveFails
  <2> QED BY <1>10a, <2>1 DEF SaveFails, setup, StageInv
<1>11. CASE Restart
  <2>1. restarts' \in 0..MaxRestarts
    BY <1>0, <1>11 DEF Restart
  <2> QED BY <1>11, <2>1 DEF Restart, StageInv
<1>12. CASE UNCHANGED vars
  BY <1>1, <1>12 DEF vars, setup
<1> QED
  BY <1>3, <1>4, <1>5, <1>6, <1>7, <1>8, <1>9, <1>10, <1>10a, <1>11, <1>12 DEF Next

\* The scrapers that registering network n adds.
ScrapersOf(n) == [i \in DOMAIN KindOrder |-> <<n, KindOrder[i]>>]

LEMMA Registering ==
  ASSUME QueueInv, NEW n \in Networks, n \in Range(waiting), network = "reads",
         registered' = registered \o ScrapersOf(n)
  PROVE  /\ registered' \in Seq(Scrapers) /\ IsInjective(registered')
         /\ \A s \in Range(registered') : s \in Range(registered) \/ s[1] = n
         /\ Range(registered) \subseteq Range(registered')
<1> DEFINE new == ScrapersOf(n)
           K == Len(KindOrder)
           R == Len(registered)
<1>1. K \in Nat /\ DOMAIN KindOrder = 1..K /\ \A i \in 1..K : KindOrder[i] \in Kinds
  BY OrdersAssumption
<1>2. /\ new \in Seq(Scrapers) /\ Len(new) = K /\ DOMAIN new = 1..K
      /\ \A i \in 1..K : new[i] = <<n, KindOrder[i]>>
  <2>1. ASSUME NEW i \in 1..K PROVE <<n, KindOrder[i]>> \in Scrapers
    BY <1>1 DEF Scrapers
  <2> HIDE DEF K
  <2> QED BY <1>1, <2>1 DEF ScrapersOf
<1>3. \A i, j \in 1..K : KindOrder[i] = KindOrder[j] => i = j
  BY <1>1, OrdersAssumption DEF IsInjective
<1>4. R \in Nat /\ registered \in Seq(Scrapers) /\ DOMAIN registered = 1..R
  BY DEF QueueInv
<1> HIDE DEF new, K
<1>5. registered' = registered \o new
  BY DEF new
<1>6. registered' \in Seq(Scrapers) /\ Len(registered') = R + K
  BY <1>2, <1>4, <1>5
<1>7. DOMAIN registered' = 1..(R + K)
  BY <1>6
<1>8. /\ \A i \in 1..R : registered'[i] = registered[i]
      /\ \A i \in 1..(R + K) : i \notin 1..R => registered'[i] = new[i - R]
  BY <1>1, <1>2, <1>4, <1>5
<1> HIDE DEF R
<1>9. \A i \in 1..(R + K) : i \notin 1..R => i - R \in 1..K
  BY <1>1, <1>4
<1>10. \A i \in 1..R : registered[i][1] # n
  <2>1. \A i \in 1..R : registered[i] \in Range(registered)
    BY <1>4 DEF Range
  <2> QED BY <2>1 DEF QueueInv
<1>11. \A i \in 1..(R + K) : i \notin 1..R => registered'[i] = <<n, KindOrder[i - R]>>
  BY <1>2, <1>8, <1>9
<1>11a. ASSUME NEW i \in 1..(R + K), i \notin 1..R
       PROVE  registered'[i][1] = n /\ registered'[i][2] = KindOrder[i - R]
  <2> DEFINE k == KindOrder[i - R]
  <2>1. registered'[i] = <<n, k>>
    BY <1>11, <1>11a
  <2> HIDE DEF k
  <2>2. registered'[i][1] = n /\ registered'[i][2] = k
    BY <2>1
  <2> QED BY <2>2 DEF k
<1>12. IsInjective(registered')
  <2> SUFFICES ASSUME NEW i \in 1..(R + K), NEW j \in 1..(R + K),
                      registered'[i] = registered'[j]
               PROVE  i = j
    BY <1>7 DEF IsInjective
  <2>1. CASE i \in 1..R /\ j \in 1..R
    <3>1. registered[i] = registered[j]
      BY <1>8, <2>1
    <3> QED BY <2>1, <3>1, <1>4 DEF QueueInv, IsInjective
  <2>2. CASE i \notin 1..R /\ j \notin 1..R
    <3>1. KindOrder[i - R] = KindOrder[j - R] /\ i - R \in 1..K /\ j - R \in 1..K
      BY <1>9, <1>11a, <2>2
    <3>2. i - R = j - R
      BY <1>3, <3>1
    <3> QED BY <1>1, <1>4, <3>2
  <2>3. ASSUME NEW k \in 1..R, NEW l \in 1..(R + K), l \notin 1..R
        PROVE  registered'[k] # registered'[l]
    <3>1. registered'[k] = registered[k] /\ registered[k][1] # n
      BY <1>8, <1>10
    <3>2. registered'[l][1] = n
      BY <1>11a, <2>3
    <3> QED BY <3>1, <3>2, Zenon
  <2>4. CASE i \in 1..R /\ j \notin 1..R
    BY <2>3, <2>4, Zenon
  <2>5. CASE i \notin 1..R /\ j \in 1..R
    BY <2>3, <2>5, Zenon
  <2> QED BY <2>1, <2>2, <2>4, <2>5
<1>13. ASSUME NEW s \in Range(registered') PROVE s \in Range(registered) \/ s[1] = n
  <2>1. PICK i \in 1..(R + K) : s = registered'[i]
    BY <1>7 DEF Range
  <2>2. CASE i \in 1..R
    BY <1>4, <1>8, <2>1, <2>2 DEF Range
  <2>3. CASE i \notin 1..R
    BY <1>11a, <2>1, <2>3
  <2> QED BY <2>2, <2>3
<1>14. Range(registered) \subseteq Range(registered')
  <2>1. \A i \in 1..R : i \in 1..(R + K)
    BY <1>1, <1>4
  <2> QED BY <1>4, <1>7, <1>8, <2>1 DEF Range
<1> QED BY <1>6, <1>12, <1>13, <1>14

LEMMA RegistersQueue ==
  ASSUME QueueInv, StageInv, NEW n \in Networks, NetworkRegisters(n)
  PROVE  QueueInv' /\ Range(registered) \subseteq Range(registered')
<1>1. waiting # <<>> /\ n = Head(waiting) /\ network = "reads" /\ stage = "networks"
  BY DEF NetworkRegisters
<1>2. waiting \in Seq(Networks) /\ IsInjective(waiting)
  BY DEF QueueInv
<1>3. /\ Tail(waiting) \in Seq(Networks) /\ IsInjective(Tail(waiting))
      /\ Range(Tail(waiting)) = Range(waiting) \ {Head(waiting)}
      /\ Head(waiting) \in Range(waiting)
  BY <1>1, <1>2, TailElements
<1>4. registered' = registered \o ScrapersOf(n)
  BY DEF NetworkRegisters, ScrapersOf
<1>5. /\ registered' \in Seq(Scrapers) /\ IsInjective(registered')
      /\ \A s \in Range(registered') : s \in Range(registered) \/ s[1] = n
      /\ Range(registered) \subseteq Range(registered')
  BY <1>1, <1>3, <1>4, Registering
<1>6. \A s \in Range(registered) : s[1] \notin Range(waiting)
  BY <1>1 DEF QueueInv
<1>7. stage' = "networks"
  BY <1>1 DEF NetworkRegisters
<1>8. NetworkDone \/ (network' = "safe" /\ waiting' = waiting)
  <2>1. settings[n] \in SafeSettings
    BY DEF StageInv
  <2> QED BY <2>1 DEF NetworkRegisters, Skip, SafeSettings
<1>9. CASE NetworkDone
  <2>1. waiting' = Tail(waiting) /\ network' = "reads"
    BY <1>9 DEF NetworkDone
  <2> QED BY <1>1, <1>3, <1>5, <1>6, <1>7, <2>1 DEF QueueInv
<1>10. CASE network' = "safe" /\ waiting' = waiting
  BY <1>1, <1>2, <1>5, <1>6, <1>7, <1>10 DEF QueueInv
<1> QED BY <1>5, <1>8, <1>9, <1>10

LEMMA NextQueue ==
  StageInv /\ QueueInv /\ [Next]_vars => QueueInv'
<1> SUFFICES ASSUME StageInv, QueueInv, [Next]_vars PROVE QueueInv'
  OBVIOUS
<1>1. ASSUME UNCHANGED <<waiting, registered, network>>, stage' # "start" \/ UNCHANGED stage
      PROVE  QueueInv'
  BY <1>1 DEF QueueInv
<1>2. CASE LoadConfigs
  <2>1. PICK lost \in SUBSET Networks :
          /\ waiting' = Kept(NetworkOrder, Networks \ lost)
          /\ stage' = IF lost = Networks THEN "exited" ELSE "networks"
    BY <1>2 DEF LoadConfigs
  <2>2. waiting' \in Seq(Networks) /\ IsInjective(waiting')
    BY <2>1, OrdersAssumption, KeptElements
  <2>3. registered' = <<>> /\ network' = "reads" /\ stage' # "start"
    BY <1>2, <2>1 DEF LoadConfigs, manager, QueueInv
  <2>4. registered' \in Seq(Scrapers) /\ IsInjective(registered') /\ Range(registered') = {}
    <3>1. DOMAIN <<>> = {} /\ <<>> \in Seq(Scrapers)
      OBVIOUS
    <3> QED BY <2>3, <3>1 DEF Range, IsInjective
  <2> QED BY <2>2, <2>3, <2>4 DEF QueueInv
<1>3. ASSUME NEW n \in Networks, NetworkReadsFail(n) \/ SafeReady(n) \/ SafeFails(n)
      PROVE  QueueInv'
  <2>1. /\ waiting # <<>> /\ waiting' = Tail(waiting) /\ network' = "reads"
        /\ registered' = registered /\ stage' = "networks"
    BY <1>3 DEF NetworkReadsFail, SafeReady, SafeFails, Skip, NetworkDone, manager
  <2>2. waiting \in Seq(Networks) /\ IsInjective(waiting)
    BY DEF QueueInv
  <2>3. /\ Tail(waiting) \in Seq(Networks) /\ IsInjective(Tail(waiting))
        /\ Range(Tail(waiting)) = Range(waiting) \ {Head(waiting)}
    BY <2>1, <2>2, TailElements
  <2> QED BY <2>1, <2>3 DEF QueueInv
<1>4. ASSUME NEW n \in Networks, NetworkRegisters(n) PROVE QueueInv'
  BY <1>4, RegistersQueue
<1>5. CASE StartInit \/ InitScraper \/ InitScraperFails \/ StartScrapers
           \/ SignalKills \/ Signal \/ StopScrapers \/ Exit \/ Crash
  BY <1>1, <1>5 DEF StartInit, InitScraper, InitScraperFails, StartScrapers, SignalKills, Signal,
     StopScrapers, Exit, Crash, setup, manager
<1>6. ASSUME NEW s \in Scrapers, Tick(s) \/ RunFails(s) \/ RunSucceeds(s) PROVE QueueInv'
  BY <1>1, <1>6 DEF Tick, RunFails, RunSucceeds, setup, manager
<1>7. ASSUME NEW n \in Networks, EntryQueueScraped(n) \/ Saves(n) PROVE QueueInv'
  BY <1>1, <1>7 DEF EntryQueueScraped, Saves, SaveStarts, SaveEnds, SaveFails, setup, manager
<1>8. CASE Restart
  <2>1. waiting' = <<>> /\ network' = "reads" /\ registered' = <<>>
    BY <1>8 DEF Restart
  <2>2. DOMAIN <<>> = {} /\ <<>> \in Seq(Scrapers) /\ <<>> \in Seq(Networks)
    OBVIOUS
  <2> QED BY <2>1, <2>2 DEF QueueInv, Range, IsInjective
<1>9. CASE UNCHANGED vars
  BY <1>1, <1>9 DEF vars, setup, manager
<1> QED BY <1>2, <1>3, <1>4, <1>5, <1>6, <1>7, <1>8, <1>9
   DEF Next, Saves

LEMMA NextManager ==
  StageInv /\ QueueInv /\ ManagerInv /\ [Next]_vars => ManagerInv'
<1> SUFFICES ASSUME StageInv, QueueInv, ManagerInv, [Next]_vars PROVE ManagerInv'
  OBVIOUS
<1>1. ASSUME UNCHANGED manager, armed = {} \/ UNCHANGED stage
             \/ stage' \notin {"start", "networks", "initScrapers"}
      PROVE  ManagerInv'
  BY <1>1 DEF manager, ManagerInv
<1>2. CASE LoadConfigs
  BY <1>1, <1>2 DEF LoadConfigs, ManagerInv
<1>3. ASSUME NEW n \in Networks, NetworkReadsFail(n) \/ SafeReady(n) \/ SafeFails(n)
      PROVE  ManagerInv'
  BY <1>1, <1>3 DEF NetworkReadsFail, SafeReady, SafeFails
<1>4. ASSUME NEW n \in Networks, NetworkRegisters(n) PROVE ManagerInv'
  <2>1. Range(registered) \subseteq Range(registered')
    BY <1>4, RegistersQueue
  <2> QED BY <1>4, <2>1 DEF NetworkRegisters, ManagerInv
<1>5. CASE StartInit
  BY <1>5 DEF StartInit, ManagerInv, QueueInv
<1>6. ASSUME InitScraper \/ InitScraperFails PROVE ManagerInv'
  <2>1. toInit' \in Seq(Scrapers)
    BY <1>6 DEF InitScraper, InitScraperFails, ManagerInv
  <2>2. armed' = {} /\ enabled' \subseteq enabled /\ registered' = registered
    BY <1>6 DEF InitScraper, InitScraperFails, ManagerInv
  <2> QED BY <2>1, <2>2 DEF ManagerInv
<1>7. CASE StartScrapers
  BY <1>7 DEF StartScrapers, ToArm, ManagerInv
<1>8. ASSUME NEW s \in Scrapers, Tick(s) \/ RunFails(s) \/ RunSucceeds(s) PROVE ManagerInv'
  BY <1>1, <1>8 DEF Tick, RunFails, RunSucceeds
<1>9. ASSUME NEW n \in Networks, EntryQueueScraped(n) \/ Saves(n) PROVE ManagerInv'
  BY <1>1, <1>9 DEF EntryQueueScraped, Saves, SaveStarts, SaveEnds, SaveFails
<1>10. CASE SignalKills \/ Signal \/ Exit
  BY <1>1, <1>10 DEF SignalKills, Signal, Exit
<1>11. CASE StopScrapers \/ Crash
  BY <1>11 DEF StopScrapers, ClearIntervals, Crash, ManagerInv
<1>12. CASE Restart
  <2>1. toInit' = <<>> /\ enabled' = {} /\ armed' = {}
    BY <1>12 DEF Restart
  <2>2. <<>> \in Seq(Scrapers)
    OBVIOUS
  <2> QED BY <2>1, <2>2 DEF ManagerInv
<1>13. CASE UNCHANGED vars
  BY <1>1, <1>13 DEF vars
<1> QED BY <1>2, <1>3, <1>4, <1>5, <1>6, <1>7, <1>8, <1>9, <1>10, <1>11, <1>12, <1>13
   DEF Next, Saves

LEMMA NextResource ==
  StageInv /\ ResourceInv /\ [Next]_vars => ResourceInv'
<1> SUFFICES ASSUME StageInv, ResourceInv, [Next]_vars PROVE ResourceInv'
  OBVIOUS
<1>1. ASSUME UNCHANGED resources PROVE ResourceInv'
  BY <1>1 DEF resources, ResourceInv
<1>2. CASE LoadConfigs \/ StartInit \/ InitScraper \/ InitScraperFails \/ StartScrapers
           \/ SignalKills \/ Exit \/ Crash
  BY <1>1, <1>2 DEF LoadConfigs, StartInit, InitScraper, InitScraperFails, StartScrapers,
     SignalKills, Exit, Crash
<1>3. ASSUME NEW n \in Networks, NetworkReadsFail(n) \/ SafeFails(n) PROVE ResourceInv'
  BY <1>1, <1>3 DEF NetworkReadsFail, SafeFails
<1>4. ASSUME NEW n \in Networks, NetworkRegisters(n) PROVE ResourceInv'
  <2>1. settings[n] \in SafeSettings
    BY DEF StageInv
  <2>2. Ready(n) \/ UNCHANGED <<handlers, callbacks, fileWatchers>>
    BY <1>4, <2>1 DEF NetworkRegisters, SafeSettings
  <2>3. UNCHANGED <<polling, safeClients>> /\ watching' = watching \cup {n}
    BY <1>4, <2>1 DEF NetworkRegisters, SafeSettings
  <2> QED BY <2>2, <2>3 DEF Ready, ResourceInv
<1>5. ASSUME NEW n \in Networks, SafeReady(n) PROVE ResourceInv'
  BY <1>5 DEF SafeReady, Ready, ResourceInv
<1>6. CASE Signal \/ StopScrapers \/ Restart
  BY <1>6 DEF Signal, StopScrapers, Restart, ResourceInv
<1>7. ASSUME NEW s \in Scrapers, Tick(s) \/ RunFails(s) \/ RunSucceeds(s) PROVE ResourceInv'
  BY <1>1, <1>7 DEF Tick, RunFails, RunSucceeds
<1>8. ASSUME NEW n \in Networks, EntryQueueScraped(n) \/ Saves(n) PROVE ResourceInv'
  BY <1>1, <1>8 DEF EntryQueueScraped, Saves, SaveStarts, SaveEnds, SaveFails
<1>9. CASE UNCHANGED vars
  BY <1>1, <1>9 DEF vars
<1> QED BY <1>2, <1>3, <1>4, <1>5, <1>6, <1>7, <1>8, <1>9
   DEF Next, Saves

\* Statistics with one network's replaced.
LEMMA Replaced ==
  ASSUME NEW counts \in Statistics, NEW n \in Networks, NEW c \in Nat, c <= MaxScrapes[n]
  PROVE  [counts EXCEPT ![n] = c] \in Statistics
BY DEF Statistics

\* Files with one network's replaced.
LEMMA ReplacedFile ==
  ASSUME NEW files \in Files, NEW n \in Networks, NEW f \in Nat \cup {Torn},
         Loaded(f) <= MaxScrapes[n]
  PROVE  [files EXCEPT ![n] = f] \in Files
BY DEF Files

LEMMA NextStorage ==
  StorageInv /\ [Next]_vars => StorageInv'
<1> SUFFICES ASSUME StorageInv, [Next]_vars PROVE StorageInv'
  OBVIOUS
<1>0. \A n \in Networks : MaxScrapes[n] \in Nat
  BY BoundsAssumption
<1>1. ASSUME UNCHANGED storage PROVE StorageInv'
  BY <1>1 DEF storage, StorageInv
<1>2. CASE LoadConfigs \/ StartInit \/ InitScraper \/ InitScraperFails \/ StartScrapers
           \/ SignalKills \/ Signal
  BY <1>1, <1>2 DEF LoadConfigs, StartInit, InitScraper, InitScraperFails, StartScrapers,
     SignalKills, Signal
<1>3. ASSUME NEW n \in Networks, NetworkReadsFail(n) \/ NetworkRegisters(n) PROVE StorageInv'
  <2>1. /\ stats' = [stats EXCEPT ![n] = Loaded(file[n])]
        /\ UNCHANGED <<taken, timer, saving, saveFailed, file>>
    BY <1>3 DEF NetworkReadsFail, NetworkRegisters
  <2>2. Loaded(file[n]) \in Nat /\ Loaded(file[n]) <= MaxScrapes[n]
    BY DEF StorageInv, Files, Loaded
  <2>3. stats' \in Statistics
    BY <2>1, <2>2, Replaced DEF StorageInv
  <2> QED BY <2>1, <2>3 DEF StorageInv
<1>4. ASSUME NEW n \in Networks, SafeReady(n) \/ SafeFails(n) PROVE StorageInv'
  BY <1>1, <1>4 DEF SafeReady, SafeFails
<1>5. ASSUME NEW s \in Scrapers, Tick(s) \/ RunFails(s) \/ RunSucceeds(s) PROVE StorageInv'
  BY <1>1, <1>5 DEF Tick, RunFails, RunSucceeds
<1>6. ASSUME NEW n \in Networks, EntryQueueScraped(n) PROVE StorageInv'
  <2>1. /\ taken[n] < MaxScrapes[n]
        /\ taken' = [taken EXCEPT ![n] = @ + 1]
        /\ stats' = [stats EXCEPT ![n] = taken[n] + 1]
        /\ timer' = [timer EXCEPT ![n] = TRUE] /\ UNCHANGED <<saving, saveFailed, file>>
    BY <1>6 DEF EntryQueueScraped, ScheduleSave
  <2>2. taken[n] \in Nat /\ taken[n] + 1 \in Nat /\ taken[n] + 1 <= MaxScrapes[n]
    <3>1. taken[n] \in Nat
      BY DEF StorageInv, Statistics
    <3> QED BY <1>0, <2>1, <3>1
  <2>3. taken' \in Statistics /\ stats' \in Statistics
    BY <2>1, <2>2, Replaced DEF StorageInv
  <2> QED BY <2>1, <2>3 DEF StorageInv
<1>7. ASSUME NEW n \in Networks, SaveStarts(n) PROVE StorageInv'
  <2>1. /\ timer' = [timer EXCEPT ![n] = FALSE] /\ saving' = [saving EXCEPT ![n] = stats[n]]
        /\ UNCHANGED <<taken, stats, saveFailed, file>>
    BY <1>7 DEF SaveStarts
  <2>2. stats[n] \in Nat /\ stats[n] <= MaxScrapes[n]
    BY DEF StorageInv, Statistics
  <2>3. saving' \in Statistics
    BY <2>1, <2>2, Replaced DEF StorageInv
  <2> QED BY <2>1, <2>3 DEF StorageInv
<1>7a. ASSUME NEW n \in Networks, SaveEnds(n) \/ SaveFails(n) PROVE StorageInv'
  <2>1. /\ saving' = [saving EXCEPT ![n] = 0] /\ UNCHANGED <<taken, stats, timer>>
        /\ saveFailed' \subseteq saveFailed \cup {n}
    BY <1>7a DEF SaveEnds, SaveFails
  <2>2. PICK f \in {saving[n], file[n], Torn} : file' = [file EXCEPT ![n] = f]
    BY <1>7a DEF SaveEnds, SaveFails
  <2>3. saving[n] \in Nat /\ saving[n] <= MaxScrapes[n]
    BY DEF StorageInv, Statistics
  <2>4. f \in Nat \cup {Torn} /\ Loaded(f) <= MaxScrapes[n]
    BY <1>0, <2>3 DEF StorageInv, Files, Loaded
  <2>5. saving' \in Statistics
    <3>1. 0 \in Nat /\ 0 <= MaxScrapes[n]
      BY <1>0
    <3> QED BY <2>1, <3>1, Replaced DEF StorageInv
  <2>6. file' \in Files
    BY <2>2, <2>4, ReplacedFile DEF StorageInv
  <2> QED BY <2>1, <2>5, <2>6 DEF StorageInv
<1>7b. CASE Exit \/ Crash
  <2>1. PICK torn \in SUBSET {n \in Networks : saving[n] # 0} :
          file' = [n \in Networks |-> IF n \in torn THEN Torn ELSE file[n]]
    BY <1>7b DEF Exit, Crash, LeaveFiles
  <2>2. \A n \in Networks : file'[n] \in Nat \cup {Torn} /\ Loaded(file'[n]) <= MaxScrapes[n]
    BY <1>0, <2>1 DEF StorageInv, Files, Loaded
  <2>3. file' \in Files
    BY <2>1, <2>2 DEF Files
  <2> QED BY <1>7b, <2>3 DEF Exit, Crash, LeaveFiles, StorageInv
<1>8. CASE StopScrapers
  <2>1. /\ stats' = [n \in Networks |-> IF <<n, EntryQueue>> \in Range(registered) THEN 0
                                       ELSE stats[n]]
        /\ UNCHANGED <<taken, timer, saving, saveFailed, file>>
    BY <1>8 DEF StopScrapers
  <2>2. ASSUME NEW n \in Networks PROVE stats'[n] \in Nat /\ stats'[n] <= MaxScrapes[n]
    <3>1. stats[n] \in Nat /\ stats[n] <= MaxScrapes[n] /\ MaxScrapes[n] \in Nat
      BY <1>0 DEF StorageInv, Statistics
    <3>2. stats'[n] = 0 \/ stats'[n] = stats[n]
      BY <2>1
    <3> QED BY <3>1, <3>2
  <2>3. stats' = [n \in Networks |-> stats'[n]]
    BY <2>1
  <2>4. stats' \in [Networks -> Nat]
    BY <2>2, <2>3
  <2>5. stats' \in Statistics
    BY <2>2, <2>4 DEF Statistics
  <2> QED BY <2>1, <2>5 DEF StorageInv
<1>9. CASE Restart
  <2>1. Zero \in Statistics /\ None \in [Networks -> BOOLEAN]
    BY <1>0 DEF Zero, None, Statistics
  <2> QED BY <1>9, <2>1 DEF Restart, StorageInv
<1>10. CASE UNCHANGED vars
  BY <1>1, <1>10 DEF vars
<1> QED BY <1>2, <1>3, <1>4, <1>5, <1>6, <1>7, <1>7a, <1>7b, <1>8, <1>9, <1>10 DEF Next

LEMMA InitTypes == Init => TypeInv
<1> SUFFICES ASSUME Init PROVE TypeInv
  OBVIOUS
<1>1. MaxFaults \in Nat /\ MaxRestarts \in Nat /\ \A n \in Networks : MaxScrapes[n] \in Nat
  BY BoundsAssumption
<1>2. DOMAIN <<>> = {} /\ <<>> \in Seq(Scrapers) /\ <<>> \in Seq(Networks)
  OBVIOUS
<1>3. StageInv
  <2>1. 0 \in 0..MaxFaults /\ 0 \in 0..MaxRestarts
    BY <1>1
  <2> QED BY <2>1 DEF Init, StageInv
<1>4. QueueInv
  BY <1>2 DEF Init, QueueInv, Range, IsInjective
<1>5. ManagerInv /\ ResourceInv
  BY <1>2 DEF Init, ManagerInv, ResourceInv
<1>6. StorageInv
  BY <1>1 DEF Init, StorageInv, Zero, None, Statistics, Files, Loaded
<1>7. FlagInv
  BY DEF Init, FlagInv
<1> QED BY <1>3, <1>4, <1>5, <1>6, <1>7 DEF TypeInv

\* Every variable keeps its type, no scraper is registered twice, only registered
\* scrapers are enabled and only enabled ones have an interval, for any networks and
\* kinds of scraper (server/index.ts, startServer; ScraperManager.register, init, start).
THEOREM ServerTypeCorrect == Spec => []TypeOK
<1>1. TypeInv /\ [Next]_vars => TypeInv'
  BY NextStage, NextQueue, NextManager, NextResource, NextStorage, NextFlag DEF TypeInv
<1>2. TypeInv => TypeOK
  BY DEF TypeInv, TypeOK, StageInv, QueueInv, ManagerInv, ResourceInv, StorageInv, FlagInv,
     Statistics, Files
<1> QED BY <1>1, <1>2, InitTypes, PTL DEF Spec
=============================================================================
