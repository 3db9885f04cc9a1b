----------------------------- MODULE KeysReload ------------------------------
(* One network's registered keys files and the configuration a running server  *)
(* derives from them.  An operator replaces files at any time; the server      *)
(* reads them one await at a time, at boot and again whenever a polling        *)
(* watcher reports a change.  The module shows when the lists the scrapers use *)
(* follow the directory, and names the changes that are dropped.               *)
EXTENDS Naturals, Sequences, FiniteSets, TLC, Functions, Selection

CONSTANTS
    FileOrder,      \* the paths, in the order of discoverKeysFiles' sort
    Keystores,      \* what a readable file may hold: sequences of validators
    NoCoinbase,
    Absent, Broken, \* no such file; a file that cannot be parsed
    MaxWrites, MaxFailures, MaxRestarts

Files == Range(FileOrder)
Validators == UNION {Range(k) : k \in Keystores}
Publishers == UNION {Range(v.publishers) : v \in Validators}

ASSUME FilesAssumption == FileOrder \in Seq(Files) /\ IsInjective(FileOrder)
ASSUME KeystoresAssumption ==
    /\ Keystores \subseteq Seq(Validators) /\ {Absent, Broken} \cap Keystores = {}
    /\ \A v \in Validators : v.publishers \in Seq(Publishers)
    /\ Absent # Broken
ASSUME BoundsAssumption ==
    MaxWrites \in Nat /\ MaxFailures \in Nat /\ MaxRestarts \in Nat

VARIABLES
    dir,            \* [Files -> Keystores \cup {Absent, Broken}]
    writes, failures, restarts,
    phase,          \* of initializeNetwork: "booting", "nodeInfo", "watching", "skipped"
    scanned,        \* the watcher took its first look at the directory
    changed,        \* files that changed since the watcher last looked at them
    timers,         \* [Files -> Nat]: delayed reloads, by the file that caused them
    isReloading,
    loading,        \* loadAndMergeKeysFiles: "no", "listing" or "reading"
    todo,           \* keySources still to read, in order
    merged,         \* attesterMap and publisherMap built so far
    config,         \* attesters and publishers of scraperConfig
    scraped,        \* publishers the PublisherScraper was constructed with
    dropped,        \* history: files whose change nobody will act on
    covers          \* history: files of dropped that the current load has read

external == <<dir, writes, failures, restarts>>
watcher == <<scanned, changed, timers>>
load == <<isReloading, loading, todo, merged, covers>>
running == <<config, scraped>>
vars == <<external, phase, watcher, load, running, dropped>>

Nothing == [attesters |-> <<>>, publishers |-> <<>>]

------------------------------------------------------------------------------
(* loadAndMergeKeysFiles: the last file wins for an attester; a publisher      *)
(* keeps the first file's serverId and counts every validator that names it.   *)

Put(map, key, value) ==
    [k \in DOMAIN map \cup {key} |-> IF k = key THEN value ELSE map[k]]

\* The mistake: the validator that introduces a publisher is not counted.
AddPublisherUncounted(pubs, p, file) ==
    IF p \in DOMAIN pubs THEN [pubs EXCEPT ![p].attesterCount = @ + 1]
    ELSE Put(pubs, p, [serverId |-> file, attesterCount |-> 0])

AddPublisher(pubs, p, file) ==
    LET entry == IF p \in DOMAIN pubs THEN pubs[p]
                 ELSE [serverId |-> file, attesterCount |-> 0]
    IN  Put(pubs, p, [entry EXCEPT !.attesterCount = @ + 1])

AddPublishers(pubs, names, file) ==
    LET added[i \in 0..Len(names)] ==
            IF i = 0 THEN pubs ELSE AddPublisher(added[i - 1], names[i], file)
    IN  added[Len(names)]

MergeValidator(m, v, file) ==
    [attesters |-> Put(m.attesters, v.attester, v.coinbase),
     publishers |-> AddPublishers(m.publishers, v.publishers, file)]

MergeFile(m, file) ==
    LET validators == dir[file]
        read[i \in 0..Len(validators)] ==
            IF i = 0 THEN m ELSE MergeValidator(read[i - 1], validators[i], file)
    IN  read[Len(validators)]

Present == {f \in Files : dir[f] # Absent}

\* discoverKeysFiles, sorted by path.
Discovered == Kept(FileOrder, Present)

\* The reads that this load has made make up for changes that were dropped.
Observed(files) ==
    /\ covers' = covers \cup (dropped \cap files)
    /\ dropped' = dropped \ files

List ==
    /\ loading = "listing"
    /\ todo' = Discovered
    /\ loading' = "reading"
    /\ Observed(Files \ Present)
    /\ UNCHANGED <<external, phase, watcher, isReloading, merged, running>>

\* One iteration: loadKeysFile, then the merge of its validators.
ReadFile ==
    /\ loading = "reading" /\ todo # <<>>
    /\ dir[Head(todo)] \in Keystores
    /\ merged' = MergeFile(merged, Head(todo))
    /\ todo' = Tail(todo)
    /\ Observed({Head(todo)})
    /\ UNCHANGED <<external, phase, watcher, isReloading, loading, running>>

\* reload releases the flag however it ends; the mistaken one only on success.
StopLoading == loading' = "no" /\ todo' = <<>> /\ merged' = Nothing /\ covers' = {}

AbandonKeepingFlag(lost) == StopLoading /\ UNCHANGED isReloading /\ dropped' = lost
Abandon(lost) == StopLoading /\ isReloading' = FALSE /\ dropped' = lost

\* reload catches what loadAndMergeKeysFiles throws and applies nothing; at boot
\* the network is skipped.
LoadThrows(lost) ==
    /\ Abandon(dropped \cup covers \cup lost)
    /\ phase' = IF phase = "booting" THEN "skipped" ELSE phase
    /\ UNCHANGED <<dir, writes, restarts, watcher, running>>

\* The file is gone since it was listed, or its content does not parse.
ReadUnusable ==
    /\ loading = "reading" /\ todo # <<>>
    /\ dir[Head(todo)] \in {Absent, Broken}
    /\ LoadThrows({})
    /\ UNCHANGED failures

\* fs.readFile or fs.readdir fails for a reason that passes.
ReadFails ==
    /\ loading = "listing" \/ todo # <<>>
    /\ failures < MaxFailures /\ failures' = failures + 1
    /\ LoadThrows(Files)

(* initializeNetwork: no file at all is accepted with a warning.  The lists are *)
(* kept over the await of getNodeInfo; only then is the watcher started.        *)
BootLoaded ==
    /\ phase = "booting" /\ loading = "reading" /\ todo = <<>>
    /\ phase' = "nodeInfo"
    /\ loading' = "no" /\ covers' = {}
    /\ UNCHANGED <<external, watcher, isReloading, todo, merged, config, scraped, dropped>>

NodeInfoAnswers ==
    /\ phase = "nodeInfo"
    /\ phase' = "watching"
    /\ config' = merged
    /\ scraped' = DOMAIN merged.publishers
    /\ merged' = Nothing
    /\ UNCHANGED <<external, watcher, isReloading, loading, todo, covers, dropped>>

\* getNodeInfo throws: startServer skips the network.
NodeInfoThrows ==
    /\ phase = "nodeInfo"
    /\ failures < MaxFailures /\ failures' = failures + 1
    /\ phase' = "skipped"
    /\ merged' = Nothing
    /\ UNCHANGED <<dir, writes, restarts, watcher, isReloading, loading, todo, covers, running,
                   dropped>>

\* systemd restarts the process.
Restart ==
    /\ restarts < MaxRestarts /\ restarts' = restarts + 1
    /\ phase' = "booting" /\ loading' = "listing"
    /\ isReloading' = FALSE /\ todo' = <<>> /\ merged' = Nothing /\ covers' = {}
    /\ scanned' = FALSE /\ changed' = {} /\ timers' = [f \in Files |-> 0]
    /\ config' = Nothing /\ scraped' = {} /\ dropped' = {}
    /\ UNCHANGED <<dir, writes, failures>>

------------------------------------------------------------------------------
(* The operator (external) replaces or removes files.  A file that changes     *)
(* before the watcher's first look is not news to the watcher (ignoreInitial). *)

Read(f) ==
    \/ phase \in {"nodeInfo", "watching"}
    \/ loading = "reading" /\ f \notin Range(todo)

Write(f, content) ==
    /\ writes < MaxWrites /\ writes' = writes + 1
    /\ content # dir[f] /\ dir' = [dir EXCEPT ![f] = content]
    /\ IF scanned
       THEN changed' = changed \cup {f} /\ UNCHANGED dropped
       ELSE UNCHANGED changed /\ dropped' = IF Read(f) THEN dropped \cup {f} ELSE dropped
    /\ UNCHANGED <<failures, restarts, phase, scanned, timers, load, running>>

\* KeysFileWatcher.start: chokidar's initial scan of the data directory.
FirstScan ==
    /\ phase = "watching" /\ ~scanned
    /\ scanned' = TRUE
    /\ UNCHANGED <<external, phase, changed, timers, load, running, dropped>>

\* A poll finds the file added, changed or removed: onKeysFileChange sets a timer
\* of its own for every event.
Notice(f) ==
    /\ f \in changed
    /\ changed' = changed \ {f}
    /\ timers' = [timers EXCEPT ![f] = @ + 1]
    /\ UNCHANGED <<external, phase, scanned, load, running, dropped>>

------------------------------------------------------------------------------
(* ConfigReloader.reload                                                       *)

Fire(f) == timers[f] > 0 /\ timers' = [timers EXCEPT ![f] = @ - 1]

ReloadStarts(f) ==
    /\ Fire(f) /\ ~isReloading
    /\ isReloading' = TRUE /\ loading' = "listing"
    /\ UNCHANGED <<external, phase, scanned, changed, todo, merged, covers, running, dropped>>

\* isReloading: the reload is refused, reported as failed and not tried again.  Only
\* a load that is really under way excuses the loss.
ReloadRefused(f) ==
    /\ Fire(f) /\ isReloading
    /\ dropped' = IF loading = "no" THEN dropped ELSE dropped \cup {f}
    /\ UNCHANGED <<external, phase, scanned, changed, load, running>>

\* No keys files found after reload.
ReloadEmpty ==
    /\ phase = "watching" /\ loading = "listing" /\ Present = {}
    /\ LoadThrows({})
    /\ UNCHANGED failures

\* The mistake: the new lists are added to the old ones.
ExtendLists(m) ==
    [attesters |-> m.attesters @@ config.attesters,
     publishers |-> m.publishers @@ config.publishers]
ReplaceLists(m) == m

ReloadApplies ==
    /\ phase = "watching" /\ loading = "reading" /\ todo = <<>>
    /\ config' = ReplaceLists(merged)
    /\ StopLoading /\ isReloading' = FALSE
    /\ UNCHANGED <<external, phase, watcher, scraped, dropped>>

------------------------------------------------------------------------------
Init ==
    /\ dir \in [Files -> Keystores \cup {Absent}]
    /\ writes = 0 /\ failures = 0 /\ restarts = 0
    /\ phase = "booting" /\ loading = "listing"
    /\ isReloading = FALSE /\ todo = <<>> /\ merged = Nothing /\ covers = {}
    /\ scanned = FALSE /\ changed = {} /\ timers = [f \in Files |-> 0]
    /\ config = Nothing /\ scraped = {} /\ dropped = {}

Next ==
    \/ List \/ ReadFile \/ ReadUnusable \/ ReadFails
    \/ BootLoaded \/ NodeInfoAnswers \/ NodeInfoThrows \/ Restart
    \/ \E f \in Files, c \in Keystores \cup {Absent, Broken} : Write(f, c)
    \/ FirstScan
    \/ \E f \in Files : Notice(f) \/ ReloadStarts(f) \/ ReloadRefused(f)
    \/ ReloadEmpty \/ ReloadApplies

Spec == Init /\ [][Next]_vars

(* Fairness: chokidar polls every 5 s, timers fire, and file reads and the     *)
(* node's answer complete.                                                     *)
Fairness ==
    /\ WF_vars(List) /\ WF_vars(ReadFile) /\ WF_vars(ReadUnusable) /\ WF_vars(ReloadEmpty)
    /\ WF_vars(BootLoaded) /\ WF_vars(NodeInfoAnswers) /\ WF_vars(FirstScan)
    /\ WF_vars(ReloadApplies)
    /\ \A f \in Files :
          WF_vars(Notice(f)) /\ WF_vars(ReloadStarts(f)) /\ WF_vars(ReloadRefused(f))

FairSpec == Spec /\ Fairness

------------------------------------------------------------------------------
(* What the directory means, file by file, without reading in order.           *)

Places == UNION {{f} \X DOMAIN dir[f] : f \in {g \in Files : dir[g] \in Keystores}}
Validator(p) == dir[p[1]][p[2]]
Namings == UNION {{p} \X DOMAIN Validator(p).publishers : p \in Places}
Named(q) == Validator(q[1]).publishers[q[2]]

Rank(f) == CHOOSE n \in DOMAIN FileOrder : FileOrder[n] = f
Before(p, q) == Rank(p[1]) < Rank(q[1]) \/ (p[1] = q[1] /\ p[2] < q[2])

LastPlace(a) ==
    CHOOSE p \in Places :
        /\ Validator(p).attester = a
        /\ \A q \in Places : Validator(q).attester = a => ~Before(p, q)
NamingFiles(u) == {q[1][1] : q \in {r \in Namings : Named(r) = u}}
FirstFile(u) ==
    CHOOSE f \in NamingFiles(u) : \A g \in NamingFiles(u) : Rank(f) <= Rank(g)

Meaning ==
    [attesters |->
        [a \in {Validator(p).attester : p \in Places} |-> Validator(LastPlace(a)).coinbase],
     publishers |->
        [u \in {Named(q) : q \in Namings} |->
            [serverId |-> FirstFile(u),
             attesterCount |-> Cardinality({q \in Namings : Named(q) = u})]]]

Usable == Present # {} /\ \A f \in Present : dir[f] # Broken

\* Nothing is left to notice, to wait for or to read.
Quiet ==
    /\ phase = "watching" /\ scanned
    /\ changed = {} /\ loading = "no" /\ \A f \in Files : timers[f] = 0

IsMap(map, D, R) == DOMAIN map \subseteq D /\ map \in [DOMAIN map -> R]

IsConfig(c) ==
    /\ c = [attesters |-> c.attesters, publishers |-> c.publishers]
    /\ IsMap(c.attesters, {v.attester : v \in Validators}, {v.coinbase : v \in Validators})
    /\ IsMap(c.publishers, Publishers, [serverId : Files, attesterCount : Nat \ {0}])

TypeOK ==
    /\ dir \in [Files -> Keystores \cup {Absent, Broken}]
    /\ writes \in 0..MaxWrites /\ failures \in 0..MaxFailures /\ restarts \in 0..MaxRestarts
    /\ phase \in {"booting", "nodeInfo", "watching", "skipped"}
    /\ scanned \in BOOLEAN /\ changed \subseteq Files
    /\ timers \in [Files -> 0..MaxWrites]
    /\ isReloading \in BOOLEAN
    /\ loading \in {"no", "listing", "reading"} /\ todo \in Seq(Files)
    /\ IsConfig(merged) /\ IsConfig(config)
    /\ scraped \subseteq Publishers
    /\ dropped \subseteq Files /\ covers \subseteq Files

\* When the directory is quiet and readable and no change was dropped, the lists in
\* use are what the directory means: last file for an attester, first file and total
\* count for a publisher (loadAndMergeKeysFiles, ConfigReloader.reload).
FollowsDirectory == Quiet /\ Usable /\ dropped = {} => config = Meaning

\* Once the operator stops, the server ends up with what a readable directory means
\* unless a change was dropped: no failed or refused reload blocks the later ones.
CatchesUp ==
    <>[](phase = "watching" /\ Usable /\ dropped = {}) => <>[](config = Meaning)
==============================================================================
