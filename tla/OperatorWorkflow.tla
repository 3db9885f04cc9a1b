--------------------------- MODULE OperatorWorkflow ---------------------------
(* The operators' workflow: keys are stored, deployed to the servers, added to *)
(* a registry, staked on chain, and their coinbases collected.  This module    *)
(* adds prepare-deployment, that makes new keys files out of what the other    *)
(* commands left, the deployment of those files and the chain.                 *)
EXTENDS SecretUpload, CoinbaseCache

CONSTANTS
    Splits,         \* [attester -> coinbases it may be staked with]
    Fallback,       \* AZTEC_STAKING_PROVIDER_REWARDS_RECIPIENT, or None
    Available,      \* contents of an available-publishers file
    Situations,     \* what behaviours start from, and the commands given in them
    MaxEvents

Coinbase == DOMAIN Pending
File == Seq([attester : Attesters, coinbase : Coinbase \cup {None, Zero, Fallback},
             publisher : Publishers \cup {None}])
Events == Seq([attester : Attesters, coinbase : Coinbase \cup {Zero}])

\* A keys file names an attester once, and sends its rewards nowhere but to a
\* contract it was staked with or to the fallback, never to the zero address.
Sound(file, staked) ==
    /\ IsInjective([i \in DOMAIN file |-> file[i].attester])
    /\ \A i \in DOMAIN file :
        \/ file[i].coinbase \in {None, Fallback}
        \/ \E e \in Range(staked) :
            e = [attester |-> file[i].attester, coinbase |-> file[i].coinbase] /\ e.coinbase # Zero

ASSUME WorkflowAssumption ==
    /\ Splits \in [Attesters -> SUBSET (Coinbase \cup {Zero})]
    /\ Available \subseteq [Servers -> Seq(Publishers)]
    /\ \A s \in Situations :
        /\ s.urls \in BOOLEAN
        /\ s.providers \subseteq Registries /\ s.queues \in [Registries -> Seq(Attesters)]
        /\ s.events \in Events /\ s.addresses \subseteq Publishers
        /\ s.files \in [Servers -> File] /\ \A h \in Servers : Sound(s.files[h], s.events)

VARIABLES
    outputs     \* [Servers -> the versions of its file that were prepared]

vars == <<worldVars, uploadVars, cacheVars, outputs>>

------------------------------------------------------------------------------
(* prepare-deployment *)

Validator(attester, coinbase, publisher) ==
    [attester |-> attester, coinbase |-> coinbase, publisher |-> publisher]

\* Named twice, by two servers or by one.
Shared(publishers) ==
    LET places == UNION {{<<s, i>> : i \in DOMAIN publishers[s]} : s \in Servers} IN
    {p \in Publishers : Cardinality({l \in places : publishers[l[1]][l[2]] = p}) > 1}

\* Duplicates in the production file, in the new one, or across them.
AllDistinct(production, new) ==
    IsInjective([i \in DOMAIN production |-> production[i].attester] \o new)

\* What is there, else what is cached, else the fallback.  A cache that cannot be
\* read is as good as none.
ChosenCoinbase(existing, attester) ==
    LET cached == IF cache \in {None, Torn} THEN None
                  ELSE CachedCoinbase(cache.mappings, attester)
    IN  CASE existing # None -> existing
          [] existing = None /\ cached # None -> cached
          [] existing = None /\ cached = None -> Fallback

Merged(production, new) ==
    [i \in DOMAIN production |->
        Validator(production[i].attester,
                  ChosenCoinbase(production[i].coinbase, production[i].attester), None)]
    \o [i \in DOMAIN new |-> Validator(new[i], ChosenCoinbase(None, new[i]), None)]

\* Round robin.
Assigned(validators, publishers) ==
    [i \in DOMAIN validators |->
        [validators[i] EXCEPT !.publisher = publishers[((i - 1) % Len(publishers)) + 1]]]

\* Every refusal comes before the first file is written.  The versions are
\* chosen before it, too.
PrepareStarts(p) ==
    /\ p \in Operators
    /\ Gives("prepare-deployment")
    /\ publicKeys # None
    /\ \E s \in Servers, publishers \in Available :
        LET validators == Merged(files[s], publicKeys)
            used == SetToSeq({t \in Servers : publishers[t] # <<>>})
        IN  /\ UNION {Range(publishers[t]) : t \in Servers} \subseteq addresses
            /\ Shared(publishers) = {}
            /\ AllDistinct(files[s], publicKeys)
            /\ used # <<>>
            /\ \A i \in DOMAIN validators : validators[i].coinbase # Zero
            /\ Begins(p, [command |-> "prepare", phase |-> "write",
                          todo |-> [i \in DOMAIN used |->
                            [server |-> used[i], version |-> Len(outputs[used[i]]) + 1,
                             validators |-> Assigned(validators, publishers[used[i]])]]])
    /\ UNCHANGED <<cache, files, claims, uploadVars, notGiven, outputs>>

\* One file after the other.
PrepareWrites(p) ==
    /\ Phase(p, "prepare", "write")
    /\ LET file == Head(jobs[p].todo)
           versions == outputs[file.server]
       IN  outputs' = [outputs EXCEPT ![file.server] =
            IF file.version \in DOMAIN versions
            THEN [versions EXCEPT ![file.version] = file.validators]
            ELSE Append(versions, file.validators)]
    /\ jobs' = [jobs EXCEPT ![p] =
            IF Len(jobs[p].todo) = 1 THEN None ELSE [jobs[p] EXCEPT !.todo = Tail(jobs[p].todo)]]
    /\ UNCHANGED <<cache, files, claims, uploadVars, worldVars>>

------------------------------------------------------------------------------
(* What happens around the commands *)

\* The operators copy the last version to the server.
Deploy(s) ==
    /\ outputs[s] # <<>>
    /\ files[s] # Last(outputs[s])
    /\ files' = [files EXCEPT ![s] = Last(outputs[s])]
    /\ UNCHANGED <<cache, jobs, claims, uploadVars, worldVars, outputs>>

\* The Safe's owners execute the next proposal; the registry reverts one that
\* names a queued attester.
Execute ==
    /\ proposals # <<>>
    /\ proposals' = Tail(proposals)
    /\ LET call == Head(proposals) IN
       queues' = IF Range(call.attesters) \cap Range(queues[call.registry]) # {} THEN queues
                 ELSE [queues EXCEPT ![call.registry] = @ \o call.attesters]
    /\ UNCHANGED <<secrets, signer, generated, uploads, overlapped, cacheVars, outputs, commands,
                   urls, given, providers, events, publicKeys, addresses, faults>>

\* The native registry stakes the head of its queue.
Stake ==
    /\ Len(events) < MaxEvents
    /\ queues["native"] # <<>>
    /\ LET a == Head(queues["native"]) IN
       \E c \in Splits[a] : events' = Append(events, [attester |-> a, coinbase |-> c])
    /\ queues' = [queues EXCEPT !["native"] = Tail(@)]
    /\ UNCHANGED <<uploadVars, cacheVars, outputs, commands, urls, given, providers, publicKeys,
                   addresses, faults>>

Init ==
    /\ \E s \in Situations :
        /\ commands = s.commands /\ urls = s.urls /\ providers = s.providers /\ queues = s.queues
        /\ events = s.events /\ addresses = s.addresses /\ files = s.files
    /\ publicKeys = None /\ given = 0 /\ faults = 0
    /\ UploadInit
    /\ CacheInit
    /\ outputs = [s \in Servers |-> <<>>]

Next ==
    \/ \E o \in Operators : UploadNext(o) /\ UNCHANGED <<cacheVars, outputs>>
    \/ CacheNext /\ UNCHANGED <<uploadVars, outputs>>
    \/ \E p \in Operators : PrepareStarts(p) \/ PrepareWrites(p)
    \/ \E s \in Servers : Deploy(s)
    \/ Execute \/ Stake

Spec == Init /\ [][Next]_vars

------------------------------------------------------------------------------
(* Properties *)

Keyed == [group : {"att-eth", "att-bls"}, key : Attesters] \cup [group : {"pub-eth"}, key : Publishers]

TypeOK ==
    /\ given \in 0..MaxCommands /\ faults \in 0..MaxFaults /\ urls \in BOOLEAN
    /\ \A n \in DOMAIN secrets :
        /\ Entry(n.group, n.key) \in Keyed
        /\ n.id \in (IF n.group = "pub-eth" THEN {None} ELSE Nat)
        /\ secrets[n] \in Nat
    /\ signer \subseteq DOMAIN secrets
    /\ addresses \cup generated \subseteq Publishers
    /\ publicKeys \in {None, FileAttesters}
    /\ \A o \in Operators : uploads[o] # None =>
        /\ Range(uploads[o].todo) \subseteq Keyed
        /\ uploads[o].name \in {None} \cup DOMAIN secrets \/ uploads[o].phase = "create"
    /\ cache \in {None, Torn} \/
        /\ cache.last \in 0..Block /\ cache.covered \subseteq Attesters
        /\ \A m \in cache.mappings : m.attester \in Attesters /\ m.block \in 1..Block
    /\ claims \subseteq {"claim", "distribute", "withdraw"} \X (Coinbase \cup {None})
    /\ \A s \in Servers : files[s] \in File /\ outputs[s] \in Seq(File)

\* The public keys file is written only when both keys of each of its attesters
\* are stored with a version, and an address of a generated publisher is written
\* down only when its key is stored: whatever died before, and wherever
\* (process-private-keys, new-publisher-keys).  When the signers' URLs are
\* configured and no request failed, the signers have loaded them.
StoredWhenWritten ==
    /\ publicKeys # None => \A a \in Range(FileAttesters), g \in {"att-eth", "att-bls"} :
        /\ Stored(Entry(g, a))
        /\ urls /\ faults = 0 => Named(Entry(g, a)) \cap signer # {}
    /\ \A p \in addresses : Stored(Entry("pub-eth", p))

\* Commands that are given one after the other, each of which may have died
\* anywhere, store a key under one name and in one version, and give no number
\* twice (getExistingSecretInfo, ensureSecretExists, addSecretVersions).
RerunsAddNothing ==
    overlapped \/ \A n, m \in DOMAIN secrets :
        /\ secrets[n] <= 1
        /\ n # m => <<n.group, n.key>> # <<m.group, m.key>>
        /\ n # m /\ n.group = m.group /\ n.group # "pub-eth" => n.id # m.id

\* Of the attesters that every scrape behind it asked for, the cache knows each
\* one that was staked up to its last block, and it maps nobody but to a coinbase
\* he was staked with, at the block where that happened: however scrapes overlap,
\* overtake each other, die or begin again (CoinbaseScraper).
CacheIsExact ==
    cache \in {None, Torn} \/
        /\ {events[i].attester : i \in 1..cache.last} \cap cache.covered \subseteq
                {m.attester : m \in cache.mappings}
        /\ \A m \in cache.mappings : events[m.block] = [attester |-> m.attester, coinbase |-> m.coinbase]

\* Every keys file, on a server or prepared for one, is sound, however the
\* commands that make, fill and correct it overlap or die (prepare-deployment,
\* fill-coinbases, updateKeysFileCoinbases).
FilesAreSound ==
    \A s \in Servers : \A file \in {files[s]} \cup Range(outputs[s]) : Sound(file, events)

\* The search for split contracts finds each one that is cached at the block it
\* was created at, or that was created after the configured first block: in
\* whatever ranges of blocks it is made (getLatestSplits).
ClaimsFindSplits ==
    \A p \in Operators : Phase(p, "evaluate", "rows") =>
        \A c \in Coinbases(jobs[p].mappings) :
            \/ FirstMapped(jobs[p].mappings, c) = CreatedAt(c)
            \/ jobs[p].configured # None /\ jobs[p].configured <= CreatedAt(c)
            => c \in jobs[p].splits
==============================================================================
