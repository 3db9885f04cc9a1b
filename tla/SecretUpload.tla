----------------------------- MODULE SecretUpload -----------------------------
(* The commands that handle private keys: process-private-keys stores the      *)
(* attester keys of a file in the secret manager (and, on demand, those of its *)
(* publishers), new-publisher-keys generates and stores publisher keys, and    *)
(* get-add-keys proposes a file's attesters to a registry.  A command is a     *)
(* sequence of requests; it may die at each of them, and operators run it      *)
(* again, or two of them at once.                                              *)
EXTENDS OperatorWorld

CONSTANTS
    KeyFile,        \* the private keys file: its validators, in order
    ChunkSize       \* attesters in one addKeysToProvider call

ASSUME UploadAssumption ==
    /\ ChunkSize \in Nat \ {0}
    /\ KeyFile \in Seq([attester : Attesters, publishers : Seq(Publishers)])

VARIABLES
    secrets,    \* versions of each secret, by name
    signer,     \* the keys the web3signers have loaded
    generated,  \* publishers whose keys were generated
    proposals,  \* addKeysToProvider calls that wait for the Safe's owners
    uploads,    \* [Operators -> a run, or None]
    overlapped  \* observer: a command was given while another one was under way

uploadVars == <<secrets, signer, generated, proposals, uploads, overlapped>>

------------------------------------------------------------------------------
(* Names and entries *)

Entry(group, key) == [group |-> group, key |-> key]

FileAttesters == [i \in DOMAIN KeyFile |-> KeyFile[i].attester]

\* addSecretVersions takes the entries group by group.
Entries(withPublishers) ==
    [i \in DOMAIN KeyFile |-> Entry("att-eth", KeyFile[i].attester)]
    \o [i \in DOMAIN KeyFile |-> Entry("att-bls", KeyFile[i].attester)]
    \o IF withPublishers
       THEN FlattenSeq([i \in DOMAIN KeyFile |->
                [j \in DOMAIN KeyFile[i].publishers |->
                    Entry("pub-eth", KeyFile[i].publishers[j])]])
       ELSE <<>>

\* createSecretId: only the secrets of attesters are numbered.
SecretName(entry, id) ==
    [group |-> entry.group, id |-> IF entry.group = "pub-eth" THEN None ELSE id, key |-> entry.key]

InGroup(group) == {n \in DOMAIN secrets : n.group = group}

Named(entry) == {n \in InGroup(entry.group) : n.key = entry.key}

Stored(entry) == \E n \in Named(entry) : secrets[n] > 0

\* The mistake: the number of the last one.
NextIdIsLast(group) ==
    IF group = "pub-eth" THEN None ELSE Max({-1} \cup {n.id : n \in InGroup(group)})

NextId(group) ==
    IF group = "pub-eth" THEN None ELSE Max({-1} \cup {n.id : n \in InGroup(group)}) + 1

------------------------------------------------------------------------------
(* Runs *)

Run(command, todo, registry) ==
    [command |-> command, todo |-> todo, registry |-> registry, phase |-> "list",
     group |-> None, names |-> {}, nextId |-> None, name |-> None,
     keys |-> {e.key : e \in Range(todo)}, unchecked |-> RegistryOrder, found |-> {},
     chunks |-> <<>>]

Starts(o, run) ==
    /\ uploads[o] = None
    /\ uploads' = [uploads EXCEPT ![o] = run]
    /\ overlapped' = (overlapped \/ \E other \in Operators : uploads[other] # None)

\* Nothing is sent before the file was loaded and every key was derived from it.
ProcessStarts(o) ==
    /\ Gives("process-private-keys")
    /\ \E withPublishers \in BOOLEAN, r \in Registries :
        /\ withPublishers => \A i \in DOMAIN KeyFile : KeyFile[i].publishers # <<>>
        /\ Starts(o, Run("process-private-keys", Entries(withPublishers), r))
    /\ UNCHANGED <<secrets, signer, generated, proposals, notGiven>>

\* The keys are random: no other run ever has them.
NewPublishersStart(o) ==
    /\ Gives("new-publisher-keys")
    /\ \E new \in SUBSET (Publishers \ generated) \ {{}} :
        LET order == SetToSeq(new) IN
        /\ generated' = generated \cup new
        /\ Starts(o, Run("new-publisher-keys",
                         [i \in DOMAIN order |-> Entry("pub-eth", order[i])], None))
    /\ UNCHANGED <<secrets, signer, proposals, notGiven>>

\* Without a registered provider the command ends at once.
AddKeysStarts(o) ==
    /\ Gives("get-add-keys")
    /\ \E r \in providers : Starts(o, [Run("get-add-keys", <<>>, r) EXCEPT !.phase = "check"])
    /\ UNCHANGED <<secrets, signer, generated, proposals, notGiven>>

Uploading(o) ==
    /\ uploads[o] # None
    /\ uploads[o].todo # <<>>

notUploading == <<signer, generated, proposals, overlapped, worldVars>>

Ascertained(o, group, names) ==
    [uploads[o] EXCEPT !.group = group, !.names = names, !.nextId = NextId(group), !.phase = "entry"]

\* The mistake: a secret without a version is taken for none.
ListStored(o) ==
    /\ Uploading(o)
    /\ LET group == Head(uploads[o].todo).group IN
       /\ uploads[o].group # group
       /\ uploads' = [uploads EXCEPT ![o] =
            Ascertained(o, group, {n \in InGroup(group) : secrets[n] > 0})]
    /\ UNCHANGED <<secrets, notUploading>>

\* getExistingSecretInfo, once per group.
List(o) ==
    /\ Uploading(o)
    /\ LET group == Head(uploads[o].todo).group IN
       /\ uploads[o].group # group
       /\ uploads' = [uploads EXCEPT ![o] = Ascertained(o, group, InGroup(group))]
    /\ UNCHANGED <<secrets, notUploading>>

AtEntry(o) ==
    /\ Uploading(o)
    /\ uploads[o].phase = "entry"
    /\ uploads[o].group = Head(uploads[o].todo).group

Known(run) == {n \in run.names : n.key = Head(run.todo).key}

Listed(o) == Known(uploads[o])

\* A listed secret with an enabled version: nothing to do.
Skip(o) ==
    /\ AtEntry(o)
    /\ \E n \in Listed(o) : secrets[n] > 0
    /\ uploads' = [uploads EXCEPT ![o].todo = Tail(@)]
    /\ UNCHANGED <<secrets, notUploading>>

\* A run died between a secret and its version: the version is added.
Reuse(o) ==
    /\ AtEntry(o)
    /\ Listed(o) # {}
    /\ \A n \in Listed(o) : secrets[n] = 0
    /\ \E n \in Listed(o) : uploads' = [uploads EXCEPT ![o].name = n, ![o].phase = "version"]
    /\ UNCHANGED <<secrets, notUploading>>

\* The number is taken before the secret is looked up.
TakesName(run, name, phase) ==
    [run EXCEPT !.name = name, !.phase = phase,
                !.nextId = IF @ = None THEN None ELSE @ + 1]

\* ensureSecretExists: the request for the secret.
Ensure(o) ==
    /\ AtEntry(o)
    /\ Listed(o) = {}
    /\ LET name == SecretName(Head(uploads[o].todo), uploads[o].nextId) IN
       uploads' = [uploads EXCEPT ![o] =
            TakesName(@, name, IF name \in DOMAIN secrets THEN "version" ELSE "create")]
    /\ UNCHANGED <<secrets, notUploading>>

\* The request for a new one fails when somebody else was faster.
Create(o) ==
    /\ Uploading(o)
    /\ uploads[o].phase = "create"
    /\ IF uploads[o].name \in DOMAIN secrets
       THEN uploads' = [uploads EXCEPT ![o] = None] /\ UNCHANGED secrets
       ELSE /\ secrets' = [n \in DOMAIN secrets \cup {uploads[o].name} |->
                            IF n = uploads[o].name THEN 0 ELSE secrets[n]]
            /\ uploads' = [uploads EXCEPT ![o].phase = "version"]
    /\ UNCHANGED notUploading

\* What the run remembers of a secret it has written.
Remembers(run) ==
    [run EXCEPT !.phase = "entry", !.todo = Tail(@), !.name = None,
                !.names = @ \cup {run.name}]

AddVersion(o) ==
    /\ Uploading(o)
    /\ uploads[o].phase = "version"
    /\ secrets' = [secrets EXCEPT ![uploads[o].name] = @ + 1]
    /\ uploads' = [uploads EXCEPT ![o] = Remembers(@)]
    /\ UNCHANGED notUploading

\* A request fails, or the process dies.
Dies(o) ==
    /\ uploads[o] # None
    /\ Fails
    /\ uploads' = [uploads EXCEPT ![o] = None]
    /\ UNCHANGED <<secrets, signer, generated, proposals, overlapped, notFaults>>

\* The mistake: the uploads are not awaited.
UploadedSoon(o, command) ==
    /\ uploads[o] # None
    /\ uploads[o].command = command

Uploaded(o, command) ==
    /\ uploads[o] # None
    /\ uploads[o].command = command
    /\ uploads[o].todo = <<>>

\* Without URLs no signer is told; one that does not reload is only logged.
Reload(o) ==
    /\ Uploaded(o, "process-private-keys")
    /\ uploads[o].phase = "entry"
    /\ \/ ~urls /\ UNCHANGED <<signer, faults>>
       \/ urls /\ signer' = {n \in DOMAIN secrets : secrets[n] > 0} /\ UNCHANGED faults
       \/ urls /\ Fails /\ UNCHANGED signer
    /\ uploads' = [uploads EXCEPT ![o].phase =
                    IF uploads[o].registry \in providers THEN "check" ELSE "write"]
    /\ UNCHANGED <<secrets, generated, proposals, overlapped, notFaults>>

------------------------------------------------------------------------------
(* checkAttesterDuplicatesAcrossRegistries *)

Checking(o, r) ==
    /\ uploads[o] # None
    /\ uploads[o].phase = "check"
    /\ uploads[o].unchecked # <<>>
    /\ r = Head(uploads[o].unchecked)

\* A registry without our provider has none of our attesters.
CheckRegistry(o, r) ==
    /\ Checking(o, r)
    /\ uploads' = [uploads EXCEPT
            ![o].unchecked = Tail(@),
            ![o].found = IF r \in providers
                         THEN @ \cup (Range(queues[r]) \cap Range(FileAttesters)) ELSE @]
    /\ UNCHANGED <<secrets, notUploading>>

\* A queue, or an entry of it, that cannot be read is passed over with a warning.
CheckFails(o, r) ==
    /\ Checking(o, r)
    /\ Fails
    /\ \E read \in SUBSET (Range(queues[r]) \cap Range(FileAttesters)) :
        uploads' = [uploads EXCEPT ![o].unchecked = Tail(@), ![o].found = @ \cup read]
    /\ UNCHANGED <<secrets, signer, generated, proposals, overlapped, notFaults>>

Chunks(s) ==
    LET count == (Len(s) + ChunkSize - 1) \div ChunkSize IN
    [i \in 1..count |-> SubSeq(s, (i - 1) * ChunkSize + 1, Min({i * ChunkSize, Len(s)}))]

\* Keys that are queued are refused, after they were stored.
Checked(o) ==
    /\ uploads[o] # None
    /\ uploads[o].phase = "check"
    /\ uploads[o].unchecked = <<>>
    /\ uploads' = [uploads EXCEPT ![o] =
            IF uploads[o].found # {} THEN None
            ELSE IF uploads[o].command # "get-add-keys" THEN [@ EXCEPT !.phase = "write"]
            ELSE IF Chunks(FileAttesters) = <<>> THEN None
            ELSE [@ EXCEPT !.phase = "propose", !.chunks = Chunks(FileAttesters)]]
    /\ UNCHANGED <<secrets, notUploading>>

\* One proposal per chunk; the first that fails ends the command.
Propose(o) ==
    /\ uploads[o] # None
    /\ uploads[o].phase = "propose"
    /\ proposals' = Append(proposals,
            [registry |-> uploads[o].registry, attesters |-> Head(uploads[o].chunks)])
    /\ uploads' = [uploads EXCEPT ![o] =
            IF Len(uploads[o].chunks) = 1 THEN None ELSE [uploads[o] EXCEPT !.chunks = Tail(@)]]
    /\ UNCHANGED <<secrets, signer, generated, overlapped, worldVars>>

WritePublicKeys(o) ==
    /\ Uploaded(o, "process-private-keys")
    /\ uploads[o].phase = "write"
    /\ publicKeys' = FileAttesters
    /\ uploads' = [uploads EXCEPT ![o] = None]
    /\ UNCHANGED <<secrets, signer, generated, proposals, overlapped, setting, given, addresses, faults>>

\* Only now are the addresses written down.
WriteAddresses(o) ==
    /\ Uploaded(o, "new-publisher-keys")
    /\ addresses' = addresses \cup uploads[o].keys
    /\ uploads' = [uploads EXCEPT ![o] = None]
    /\ UNCHANGED <<secrets, signer, generated, proposals, overlapped, setting, given, publicKeys, faults>>

UploadInit ==
    /\ secrets = [n \in {SecretName(Entry("pub-eth", p), None) : p \in addresses} |-> 1]
    /\ signer = {} /\ generated = addresses /\ proposals = <<>>
    /\ uploads = [o \in Operators |-> None] /\ overlapped = FALSE

UploadNext(o) ==
    \/ ProcessStarts(o) \/ NewPublishersStart(o) \/ AddKeysStarts(o)
    \/ List(o) \/ Skip(o) \/ Reuse(o) \/ Ensure(o) \/ Create(o) \/ AddVersion(o) \/ Dies(o)
    \/ Reload(o) \/ WritePublicKeys(o) \/ WriteAddresses(o) \/ Checked(o) \/ Propose(o)
    \/ \E r \in Registries : CheckRegistry(o, r) \/ CheckFails(o, r)
==============================================================================
