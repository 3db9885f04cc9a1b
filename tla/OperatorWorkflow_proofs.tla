----------------------- MODULE OperatorWorkflow_proofs -----------------------
(* What holds of OperatorWorkflow for every keys file, every history of         *)
(* stakings, any number of operators, servers and commands, and every bound on  *)
(* what fails.                                                                  *)
EXTENDS OperatorWorkflow, Prefixes, FiniteSetTheorems, TLAPS

------------------------------------------------------------------------------
(* Sets and sequences *)

LEMMA MaxOf ==
  ASSUME NEW S \in SUBSET Int, S # {}, NEW k \in Int, \A x \in S : x <= k
  PROVE  Max(S) \in S /\ \A y \in S : Max(S) >= y
<1> DEFINE T == {k - x : x \in S}
<1>1. T \in SUBSET Nat /\ T # {}
  <2>1. \A x \in S : k - x \in Nat
    OBVIOUS
  <2> QED BY <2>1
<1>2. PICK m \in T : \A t \in T : m <= t
  <2> HIDE DEF T
  <2> QED BY <1>1, Least
<1>3. PICK x \in S : m = k - x
  OBVIOUS
<1>4. \A y \in S : x >= y
  <2> TAKE y \in S
  <2>1. m <= k - y
    BY <1>2
  <2> QED BY <1>3, <2>1
<1> QED BY <1>4 DEF Max

LEMMA MinOf ==
  ASSUME NEW S \in SUBSET Nat, S # {}
  PROVE  Min(S) \in S /\ \A y \in S : Min(S) <= y
<1>1. \E m \in S : \A y \in S : m <= y
  BY Least
<1> QED BY <1>1 DEF Min

LEMMA SeqOfSet ==
  ASSUME NEW S, IsFiniteSet(S)
  PROVE  SetToSeq(S) \in Seq(S)
<1>1. Cardinality(S) \in Nat /\ ExistsBijection(1..Cardinality(S), S)
  BY FS_CardinalityType
<1>2. \E f \in [1..Cardinality(S) -> S] : IsInjective(f)
  BY <1>1 DEF ExistsBijection, Bijection, Injection
<1>3. SetToSeq(S) \in [1..Cardinality(S) -> S]
  BY <1>2 DEF SetToSeq
<1> QED BY <1>1, <1>3

LEMMA Joined ==
  ASSUME NEW S, NEW s \in Seq(S), NEW t \in Seq(S), NEW all, all = s \o t
  PROVE  /\ all \in Seq(S)
         /\ Len(all) = Len(s) + Len(t)
         /\ \A i \in 1..Len(s) : all[i] = s[i]
         /\ \A i \in 1..Len(t) : all[Len(s) + i] = t[i]
OBVIOUS

LEMMA Concatenated ==
  ASSUME NEW S, NEW s \in Seq(S), NEW t \in Seq(S)
  PROVE  s \o t \in Seq(S) /\ Range(s \o t) = Range(s) \cup Range(t)
<1>1. /\ s \o t \in Seq(S) /\ Len(s \o t) = Len(s) + Len(t) /\ Len(s) \in Nat /\ Len(t) \in Nat
      /\ \A i \in 1..Len(s) : (s \o t)[i] = s[i]
      /\ \A i \in 1..Len(t) : (s \o t)[Len(s) + i] = t[i]
  OBVIOUS
<1>2. ASSUME NEW i \in 1..Len(s \o t)
      PROVE  (s \o t)[i] \in Range(s) \cup Range(t)
  <2>1. CASE i <= Len(s)
    BY <1>1, <2>1 DEF Range
  <2>2. CASE ~(i <= Len(s))
    <3>1. i - Len(s) \in 1..Len(t) /\ i = Len(s) + (i - Len(s))
      BY <1>1, <2>2
    <3>2. (s \o t)[i] = t[i - Len(s)]
      BY <1>1, <3>1
    <3> QED BY <3>1, <3>2 DEF Range
  <2> QED BY <2>1, <2>2
<1>3. \A i \in 1..Len(s) : s[i] \in Range(s \o t)
  <2> TAKE i \in 1..Len(s)
  <2>1. i \in 1..Len(s \o t) /\ (s \o t)[i] = s[i]
    BY <1>1
  <2> QED BY <2>1 DEF Range
<1>4. \A i \in 1..Len(t) : t[i] \in Range(s \o t)
  <2> TAKE i \in 1..Len(t)
  <2>1. Len(s) + i \in 1..Len(s \o t) /\ (s \o t)[Len(s) + i] = t[i]
    BY <1>1
  <2> QED BY <2>1 DEF Range
<1>5. Range(s \o t) \subseteq Range(s) \cup Range(t)
  BY <1>1, <1>2 DEF Range
<1>6. Range(s) \subseteq Range(s \o t) /\ Range(t) \subseteq Range(s \o t)
  <2>1. DOMAIN s = 1..Len(s) /\ DOMAIN t = 1..Len(t)
    OBVIOUS
  <2> HIDE DEF Range
  <2>2. \A x \in Range(s) : \E i \in 1..Len(s) : x = s[i]
    BY <2>1 DEF Range
  <2>3. \A x \in Range(t) : \E i \in 1..Len(t) : x = t[i]
    BY <2>1 DEF Range
  <2> QED BY <1>3, <1>4, <2>2, <2>3
<1> QED BY <1>1, <1>5, <1>6

LEMMA HeadOfTodo ==
  ASSUME NEW S, NEW s \in Seq(S), s # <<>>
  PROVE  /\ Head(s) \in S /\ Tail(s) \in Seq(S)
         /\ Range(s) = {Head(s)} \cup Range(Tail(s))
<1>1. /\ Head(s) = s[1] /\ Len(s) \in Nat \ {0} /\ Tail(s) \in Seq(S) /\ Len(Tail(s)) = Len(s) - 1
      /\ \A i \in 1..(Len(s) - 1) : Tail(s)[i] = s[i + 1]
  OBVIOUS
<1>2. \A i \in 1..Len(s) : i = 1 \/ (i - 1 \in 1..(Len(s) - 1) /\ s[i] = Tail(s)[i - 1])
  <2> TAKE i \in 1..Len(s)
  <2>1. i # 1 => i - 1 \in 1..(Len(s) - 1) /\ (i - 1) + 1 = i
    BY <1>1
  <2> QED BY <1>1, <2>1
<1>3. \A i \in 1..(Len(s) - 1) : i + 1 \in 1..Len(s) /\ Tail(s)[i] = s[i + 1]
  BY <1>1
<1> DEFINE h == Head(s)
           t == Tail(s)
<1>4. DOMAIN s = 1..Len(s) /\ DOMAIN t = 1..(Len(s) - 1) /\ 1 \in DOMAIN s
  BY <1>1
<1> HIDE DEF h, t
<1>5. Range(s) \subseteq {h} \cup Range(t)
  <2>1. \A x \in Range(s) : \E i \in 1..Len(s) : x = s[i]
    BY <1>4 DEF Range
  <2>2. \A i \in 1..(Len(s) - 1) : t[i] \in Range(t)
    BY <1>4 DEF Range
  <2>3. \A i \in 1..Len(s) : i = 1 \/ (i - 1 \in 1..(Len(s) - 1) /\ s[i] = t[i - 1])
    BY <1>2 DEF t
  <2>4. s[1] = h
    BY <1>1 DEF h
  <2> QED BY <2>1, <2>2, <2>3, <2>4
<1>6. {h} \cup Range(t) \subseteq Range(s)
  <2>1. h \in Range(s)
    BY <1>1, <1>4 DEF Range, h
  <2>2. \A i \in DOMAIN t : t[i] \in Range(s)
    BY <1>3, <1>4 DEF Range, t
  <2> QED BY <2>1, <2>2 DEF Range
<1> QED BY <1>1, <1>5, <1>6 DEF h, t

LEMMA Flattened ==
  ASSUME NEW S, NEW ss \in Seq(Seq(S))
  PROVE  FlattenSeq(ss) \in Seq(S)
<1> DEFINE N == Len(ss)
           step == [i \in 1..N |-> [x \in Seq(S) |-> IF i = 1 THEN ss[1] ELSE x \o ss[i]]]
           F == CHOOSE f : f = [i \in 1..N |-> IF i = 1 THEN ss[i] ELSE f[i - 1] \o ss[i]]
<1>1. CASE N = 0
  BY <1>1 DEF FlattenSeq
<1>2. CASE N # 0
  <2>1. N \in Nat \ {0} /\ \A i \in 1..N : ss[i] \in Seq(S)
    BY <1>2
  <2>2. step \in [1..N -> [Seq(S) -> Seq(S)]]
    BY <2>1
  <2>3. \A i \in 1..N : \A x \in Seq(S) : step[i][x] = IF i = 1 THEN ss[1] ELSE x \o ss[i]
    OBVIOUS
  <2>4. PICK f \in [0..N -> Seq(S)] : Unfolds(f, step, N, <<>>)
    <3> HIDE DEF step, N
    <3>1. <<>> \in Seq(S)
      OBVIOUS
    <3>2. IsRecursion(step, N, Seq(S))
      BY <2>1, <2>2 DEF IsRecursion
    <3> QED BY <3>1, <3>2, PrefixRecursion
  <2> DEFINE g == [i \in 1..N |-> f[i]]
  <2>5. g = [i \in 1..N |-> IF i = 1 THEN ss[i] ELSE g[i - 1] \o ss[i]]
    <3>1. ASSUME NEW i \in 1..N PROVE f[i] = IF i = 1 THEN ss[i] ELSE f[i - 1] \o ss[i]
      <4> HIDE DEF step, N
      <4>1. i \in 0..N /\ i # 0 /\ i - 1 \in 0..N
        BY <2>1
      <4>2. f[i] = step[i][f[i - 1]] /\ f[i - 1] \in Seq(S)
        BY <2>4, <4>1 DEF Unfolds
      <4> QED BY <2>3, <4>2
    <3>2. \A i \in 1..N : i # 1 => i - 1 \in 1..N
      BY <2>1
    <3> HIDE DEF step, N
    <3> QED BY <3>1, <3>2
  <2>6. F = [i \in 1..N |-> IF i = 1 THEN ss[i] ELSE F[i - 1] \o ss[i]]
    <3> HIDE DEF g
    <3> QED BY <2>5
  <2>7. \A i \in 0..N : i # 0 => F[i] \in Seq(S)
    <3> DEFINE P == {i \in 0..N : i # 0 => F[i] \in Seq(S)}
    <3>1. \A i \in 1..N : F[i] = IF i = 1 THEN ss[i] ELSE F[i - 1] \o ss[i]
      <4> HIDE DEF F
      <4> QED BY <2>6
    <3> HIDE DEF F
    <3>2. 0 \in P
      BY <2>1
    <3>3. \A i \in 1..N : i - 1 \in P => i \in P
      <4> SUFFICES ASSUME NEW i \in 1..N, i - 1 # 0 => F[i - 1] \in Seq(S)
                   PROVE  F[i] \in Seq(S)
        BY <2>1
      <4>1. CASE i = 1
        BY <2>1, <3>1, <4>1
      <4>2. CASE i # 1
        <5>1. F[i - 1] \in Seq(S) /\ ss[i] \in Seq(S) /\ F[i] = F[i - 1] \o ss[i]
          <6>1. i - 1 # 0
            BY <2>1, <4>2
          <6> QED BY <2>1, <3>1, <4>2, <6>1
        <5> QED BY <5>1
      <4> QED BY <4>1, <4>2
    <3>4. \A i \in 0..N : i \in P
      <4> HIDE DEF P, N
      <4> QED BY <2>1, <3>2, <3>3, PrefixInduction, Zenon
    <3> QED BY <3>4
  <2>8. FlattenSeq(ss) = F[N]
    BY <1>2 DEF FlattenSeq
  <2> HIDE DEF F
  <2> QED BY <2>1, <2>7, <2>8
<1> QED BY <1>1, <1>2

------------------------------------------------------------------------------
(* The world and the uploads are well formed *)

Groups == {"att-eth", "att-bls", "pub-eth"}

SecretNames ==
  [group : {"att-eth", "att-bls"}, id : Nat, key : Attesters]
    \cup [group : {"pub-eth"}, id : {None}, key : Publishers]

Upload ==
  [command : {"process-private-keys", "new-publisher-keys", "get-add-keys"},
   todo : Seq(Keyed), registry : Registries \cup {None},
   phase : {"list", "entry", "create", "version", "check", "write", "propose"},
   group : Groups \cup {None}, names : SUBSET SecretNames, nextId : Nat \cup {None},
   name : SecretNames \cup {None}, keys : SUBSET (Attesters \cup Publishers),
   unchecked : Seq(Registries), found : SUBSET Attesters, chunks : Seq(Seq(Attesters))]

Proposal == [registry : Registries \cup {None}, attesters : Seq(Attesters)]

WorldType ==
  /\ given \in 0..MaxCommands /\ faults \in 0..MaxFaults /\ urls \in BOOLEAN
  /\ providers \subseteq Registries /\ queues \in [Registries -> Seq(Attesters)]
  /\ events \in Events
  /\ publicKeys \in {None, FileAttesters} /\ addresses \subseteq Publishers

SecretType ==
  /\ DOMAIN secrets \subseteq SecretNames /\ secrets \in [DOMAIN secrets -> Nat]
  /\ signer \subseteq {n \in DOMAIN secrets : secrets[n] > 0}
  /\ generated \subseteq Publishers /\ proposals \in Seq(Proposal)
  /\ \E k \in Nat : \A n \in DOMAIN secrets : n.id # None => n.id <= k

\* A run that stores keys: what it knows of a group are secrets of that group,
\* and what it is about to store is the entry it has come to.
Storing(run, stored) ==
  /\ run.command = "new-publisher-keys" => run.keys \subseteq Publishers
  /\ \A n \in run.names : n \in stored /\ n.group = run.group
  /\ run.name \in {None} \cup stored \/ run.phase = "create"
  /\ run.phase \in {"create", "version"} =>
       /\ run.todo # <<>>
       /\ run.group = Head(run.todo).group
       /\ run.name.group = run.group /\ run.name.key = Head(run.todo).key
  /\ run.phase = "version" => run.name \in stored
  /\ run.phase = "create" => run.name \in SecretNames
  /\ run.phase \in {"entry", "create", "version"} /\ run.group \in {"att-eth", "att-bls"} =>
       run.nextId \in Nat
  /\ run.phase = "propose" => run.chunks # <<>>

UploadType ==
  /\ uploads \in [Operators -> Upload \cup {None}]
  /\ \A o \in Operators : uploads[o] # None => Storing(uploads[o], DOMAIN secrets)

WInv == WorldType /\ SecretType /\ UploadType

LEMMA KeyFileType ==
  /\ Len(KeyFile) \in Nat /\ DOMAIN KeyFile = 1..Len(KeyFile)
  /\ \A i \in DOMAIN KeyFile :
       KeyFile[i].attester \in Attesters /\ KeyFile[i].publishers \in Seq(Publishers)
<1> DEFINE V == [attester : Attesters, publishers : Seq(Publishers)]
<1>1. KeyFile \in Seq(V)
  BY UploadAssumption
<1>2. \A v \in V : v.attester \in Attesters /\ v.publishers \in Seq(Publishers)
  OBVIOUS
<1> HIDE DEF V
<1>3. Len(KeyFile) \in Nat /\ DOMAIN KeyFile = 1..Len(KeyFile) /\ \A i \in DOMAIN KeyFile : KeyFile[i] \in V
  BY <1>1
<1> QED BY <1>2, <1>3

LEMMA FileAttestersType == FileAttesters \in Seq(Attesters)
  BY KeyFileType DEF FileAttesters

\* Both keys of each attester are among the entries.
LEMMA EntriesType ==
  ASSUME NEW w \in BOOLEAN
  PROVE  /\ Entries(w) \in Seq(Keyed)
         /\ \A a \in Range(FileAttesters), g \in {"att-eth", "att-bls"} :
              Entry(g, a) \in Range(Entries(w))
<1> DEFINE eth == [i \in DOMAIN KeyFile |-> Entry("att-eth", KeyFile[i].attester)]
           bls == [i \in DOMAIN KeyFile |-> Entry("att-bls", KeyFile[i].attester)]
           pubs == [i \in DOMAIN KeyFile |->
                      [j \in DOMAIN KeyFile[i].publishers |->
                         Entry("pub-eth", KeyFile[i].publishers[j])]]
           others == IF w THEN FlattenSeq(pubs) ELSE <<>>
<1>1. eth \in Seq(Keyed) /\ bls \in Seq(Keyed)
  <2>1. \A i \in DOMAIN KeyFile : Entry("att-eth", KeyFile[i].attester) \in Keyed
                                  /\ Entry("att-bls", KeyFile[i].attester) \in Keyed
    BY KeyFileType DEF Entry, Keyed
  <2> QED BY KeyFileType, <2>1
<1>2. pubs \in Seq(Seq(Keyed))
  <2>1. ASSUME NEW i \in DOMAIN KeyFile PROVE pubs[i] \in Seq(Keyed)
    <3>1. /\ DOMAIN KeyFile[i].publishers = 1..Len(KeyFile[i].publishers)
          /\ Len(KeyFile[i].publishers) \in Nat
          /\ \A j \in DOMAIN KeyFile[i].publishers : KeyFile[i].publishers[j] \in Publishers
      BY KeyFileType
    <3>2. \A j \in DOMAIN KeyFile[i].publishers : Entry("pub-eth", KeyFile[i].publishers[j]) \in Keyed
      BY <3>1 DEF Entry, Keyed
    <3> QED BY <3>1, <3>2
  <2> QED BY KeyFileType, <2>1
<1>3. others \in Seq(Keyed)
  <2> HIDE DEF pubs
  <2> QED BY <1>2, Flattened
<1>4. Entries(w) = eth \o (bls \o others)
  <2>1. Entries(w) = (eth \o bls) \o others
    BY DEF Entries
  <2> HIDE DEF eth, bls, others
  <2> QED BY <1>1, <1>3, <2>1
<1>5. \A a \in Range(FileAttesters) :
        Entry("att-eth", a) \in Range(eth) /\ Entry("att-bls", a) \in Range(bls)
  BY DEF Range, FileAttesters
<1> HIDE DEF eth, bls, others
<1>6. /\ bls \o others \in Seq(Keyed) /\ Range(bls \o others) = Range(bls) \cup Range(others)
  BY <1>1, <1>3, Concatenated
<1>7. /\ eth \o (bls \o others) \in Seq(Keyed)
      /\ Range(eth \o (bls \o others)) = Range(eth) \cup Range(bls \o others)
  <2> DEFINE rest == bls \o others
  <2>1. rest \in Seq(Keyed)
    BY <1>6
  <2> HIDE DEF rest
  <2>2. eth \o rest \in Seq(Keyed) /\ Range(eth \o rest) = Range(eth) \cup Range(rest)
    BY <1>1, <2>1, Concatenated
  <2> QED BY <2>2 DEF rest
<1> QED BY <1>4, <1>5, <1>6, <1>7

LEMMA RunType ==
  ASSUME NEW command \in {"process-private-keys", "new-publisher-keys", "get-add-keys"},
         NEW todo \in Seq(Keyed), NEW registry \in Registries \cup {None}, NEW stored
  PROVE  /\ Run(command, todo, registry) \in Upload
         /\ command = "new-publisher-keys" /\ (\A e \in Range(todo) : e.group = "pub-eth")
              => Storing(Run(command, todo, registry), stored)
         /\ command # "new-publisher-keys" => Storing(Run(command, todo, registry), stored)
<1>1. \A e \in Range(todo) : e \in Keyed
  BY DEF Range
<1>2. \A e \in Range(todo) : e.key \in Attesters \cup Publishers
                             /\ (e.group = "pub-eth" => e.key \in Publishers)
  BY <1>1 DEF Keyed
<1>3. RegistryOrder \in Seq(Registries)
  BY WorldAssumption
<1>4. Run(command, todo, registry) \in Upload
  BY <1>2, <1>3 DEF Run, Upload, Groups
<1> QED BY <1>2, <1>4 DEF Run, Storing

LEMMA NextIdAbove ==
  ASSUME SecretType, NEW group \in Groups
  PROVE  /\ group = "pub-eth" => NextId(group) = None
         /\ group # "pub-eth" =>
              /\ NextId(group) \in Nat
              /\ \A n \in InGroup(group) : n.id \in Nat /\ n.id < NextId(group)
<1> SUFFICES ASSUME group # "pub-eth"
             PROVE  /\ NextId(group) \in Nat
                    /\ \A n \in InGroup(group) : n.id \in Nat /\ n.id < NextId(group)
  BY DEF NextId
<1> DEFINE ids == {-1} \cup {n.id : n \in InGroup(group)}
<1>1. PICK k \in Nat : \A n \in DOMAIN secrets : n.id # None => n.id <= k
  BY DEF SecretType
<1>2. \A n \in InGroup(group) : n.id \in Nat /\ n.id <= k
  <2>1. None \notin Nat
    BY WorldAssumption
  <2>2. \A n \in InGroup(group) : n \in SecretNames /\ n.group = group /\ n \in DOMAIN secrets
    BY DEF InGroup, SecretType
  <2>3. \A n \in SecretNames : n.group # "pub-eth" => n.id \in Nat
    BY DEF SecretNames
  <2> QED BY <1>1, <2>1, <2>2, <2>3
<1>3. ids \in SUBSET Int /\ ids # {} /\ \A x \in ids : x <= k
  BY <1>2
<1>4. Max(ids) \in ids /\ \A y \in ids : Max(ids) >= y
  <2> HIDE DEF ids
  <2> QED BY <1>3, MaxOf
<1>5. NextId(group) = Max(ids) + 1
  BY DEF NextId
<1>6. Max(ids) \in Int /\ Max(ids) >= -1 /\ \A n \in InGroup(group) : Max(ids) >= n.id
  BY <1>3, <1>4
<1> DEFINE last == Max(ids)
<1>7. last \in Int /\ last >= -1 /\ NextId(group) = last + 1 /\ \A n \in InGroup(group) : last >= n.id
  BY <1>5, <1>6
<1> HIDE DEF last
<1> QED BY <1>2, <1>7

\* A command is given: its number stays within the bound.
LEMMA GivenType ==
  ASSUME WorldType, NEW command, Gives(command), UNCHANGED notGiven
  PROVE  WorldType'
<1>1. given' \in 0..MaxCommands
  <2>1. given \in 0..MaxCommands /\ given < MaxCommands /\ given' = given + 1 /\ MaxCommands \in Nat
    BY WorldAssumption DEF WorldType, Gives
  <2> QED BY <2>1
<1>2. UNCHANGED <<faults, urls, providers, queues, events, publicKeys, addresses>>
  BY DEF notGiven, setting
<1> QED BY <1>1, <1>2 DEF WorldType

\* Something fails: so does the number of faults.
LEMMA FaultType ==
  ASSUME WorldType, Fails, UNCHANGED notFaults
  PROVE  WorldType' /\ faults' > 0
<1>1. faults' \in 0..MaxFaults /\ faults' > 0
  <2>1. faults \in 0..MaxFaults /\ faults < MaxFaults /\ faults' = faults + 1 /\ MaxFaults \in Nat
    BY WorldAssumption DEF WorldType, Fails
  <2> QED BY <2>1
<1>2. UNCHANGED <<given, urls, providers, queues, events, publicKeys, addresses>>
  BY DEF notFaults, setting
<1> QED BY <1>1, <1>2 DEF WorldType

LEMMA SetSecretType ==
  ASSUME SecretType, NEW n \in SecretNames, NEW v \in Nat,
         NEW new, new = [m \in DOMAIN secrets \cup {n} |-> IF m = n THEN v ELSE secrets[m]]
  PROVE  DOMAIN new \subseteq SecretNames /\ new \in [DOMAIN new -> Nat]
BY DEF SecretType

LEMMA ChunksType == ASSUME NEW s \in Seq(Attesters) PROVE Chunks(s) \in Seq(Seq(Attesters))
<1> DEFINE C == ChunkSize
           count == (Len(s) + C - 1) \div C
           part(i) == SubSeq(s, (i - 1) * C + 1, Min({i * C, Len(s)}))
<1>1. C \in Nat \ {0} /\ Len(s) \in Nat
  BY UploadAssumption
<1>2. count \in Nat
  BY <1>1
<1>3. ASSUME NEW i \in 1..count PROVE part(i) \in Seq(Attesters)
  <2> DEFINE lo == (i - 1) * C
             hi == i * C
  <2>1. lo \in Nat /\ hi \in Nat
    <3>1. i - 1 \in Nat /\ i \in Nat
      BY <1>2
    <3> QED BY <1>1, <3>1
  <2> HIDE DEF lo, hi
  <2>2. Min({hi, Len(s)}) \in {hi, Len(s)} /\ Min({hi, Len(s)}) <= Len(s)
    <3>1. {hi, Len(s)} \in SUBSET Nat /\ {hi, Len(s)} # {}
      BY <1>1, <2>1
    <3>2. Min({hi, Len(s)}) \in {hi, Len(s)} /\ \A y \in {hi, Len(s)} : Min({hi, Len(s)}) <= y
      <4> DEFINE S == {hi, Len(s)}
      <4> HIDE DEF S
      <4>1. Min(S) \in S /\ \A y \in S : Min(S) <= y
        BY <3>1, MinOf DEF S
      <4> QED BY <4>1 DEF S
    <3> QED BY <3>2
  <2> DEFINE m == Min({hi, Len(s)})
  <2>3. m \in Nat /\ m <= Len(s)
    BY <1>1, <2>1, <2>2
  <2> HIDE DEF m
  <2>4. SubSeq(s, lo + 1, m) \in Seq(Attesters)
    BY <1>1, <2>1, <2>3
  <2> QED BY <2>4 DEF lo, hi, m
<1>4. Chunks(s) = [i \in 1..count |-> part(i)]
  BY DEF Chunks
<1> HIDE DEF count, part
<1> QED BY <1>2, <1>3, <1>4

\* A step of one run, to another record or to its end.
LEMMA RunMoves ==
  ASSUME UploadType, NEW o \in Operators, NEW run \in Upload \cup {None},
         uploads' = [uploads EXCEPT ![o] = run],
         DOMAIN secrets \subseteq DOMAIN secrets',
         run # None => Storing(run, DOMAIN secrets')
  PROVE  UploadType'
<1>1. uploads' \in [Operators -> Upload \cup {None}]
  BY DEF UploadType
<1>2. ASSUME NEW q \in Operators, uploads'[q] # None PROVE Storing(uploads'[q], DOMAIN secrets')
  <2>1. CASE q = o
    BY <1>2, <2>1 DEF UploadType
  <2>2. CASE q # o
    <3>1. uploads'[q] = uploads[q] /\ Storing(uploads[q], DOMAIN secrets)
      BY <1>2, <2>2 DEF UploadType
    <3> QED BY <3>1 DEF Storing
  <2> QED BY <2>1, <2>2
<1> QED BY <1>1, <1>2 DEF UploadType

LEMMA StartTypes ==
  ASSUME WInv, NEW o \in Operators,
         ProcessStarts(o) \/ NewPublishersStart(o) \/ AddKeysStarts(o)
  PROVE  WInv'
<1> USE DEF WInv
<1>1. CASE ProcessStarts(o)
  <2>1. WorldType' /\ SecretType'
    BY <1>1, GivenType DEF ProcessStarts, SecretType
  <2>2. PICK w \in BOOLEAN, r \in Registries :
          Starts(o, Run("process-private-keys", Entries(w), r))
    BY <1>1 DEF ProcessStarts
  <2> DEFINE new == Run("process-private-keys", Entries(w), r)
  <2>3. new \in Upload /\ Storing(new, DOMAIN secrets')
    BY EntriesType, RunType
  <2> HIDE DEF new
  <2>4. uploads' = [uploads EXCEPT ![o] = new] /\ DOMAIN secrets \subseteq DOMAIN secrets'
    BY <1>1, <2>2 DEF Starts, new, ProcessStarts
  <2> QED BY <2>1, <2>3, <2>4, RunMoves
<1>2. CASE NewPublishersStart(o)
  <2>1. PICK fresh \in SUBSET (Publishers \ generated) \ {{}} :
          LET order == SetToSeq(fresh) IN
          /\ generated' = generated \cup fresh
          /\ Starts(o, Run("new-publisher-keys",
                           [i \in DOMAIN order |-> Entry("pub-eth", order[i])], None))
    BY <1>2 DEF NewPublishersStart
  <2>2. WorldType' /\ SecretType'
    BY <1>2, <2>1, GivenType DEF NewPublishersStart, SecretType
  <2> DEFINE order == SetToSeq(fresh)
             todo == [i \in DOMAIN order |-> Entry("pub-eth", order[i])]
             new == Run("new-publisher-keys", todo, None)
  <2>3. order \in Seq(Publishers)
    <3>1. IsFiniteSet(fresh)
      BY FS_Subset, WorldAssumption
    <3>2. order \in Seq(fresh)
      BY <3>1, SeqOfSet
    <3> QED BY <3>2
  <2>4. todo \in Seq(Keyed) /\ \A e \in Range(todo) : e.group = "pub-eth"
    <3> HIDE DEF order
    <3>1. \A i \in DOMAIN order : order[i] \in Publishers /\ DOMAIN order = 1..Len(order) /\ Len(order) \in Nat
      BY <2>3
    <3>2. \A i \in DOMAIN order : Entry("pub-eth", order[i]) \in Keyed
      BY <3>1 DEF Entry, Keyed
    <3> QED BY <2>3, <3>1, <3>2 DEF Range, Entry
  <2>5. new \in Upload /\ Storing(new, DOMAIN secrets')
    <3> HIDE DEF todo
    <3> QED BY <2>4, RunType
  <2>6. uploads' = [uploads EXCEPT ![o] = new] /\ DOMAIN secrets \subseteq DOMAIN secrets'
    BY <1>2, <2>1 DEF Starts, NewPublishersStart
  <2> HIDE DEF new
  <2> QED BY <2>2, <2>5, <2>6, RunMoves
<1>3. CASE AddKeysStarts(o)
  <2>1. WorldType' /\ SecretType'
    BY <1>3, GivenType DEF AddKeysStarts, SecretType
  <2>2. PICK r \in providers : Starts(o, [Run("get-add-keys", <<>>, r) EXCEPT !.phase = "check"])
    BY <1>3 DEF AddKeysStarts
  <2> DEFINE old == Run("get-add-keys", <<>>, r)
             new == [old EXCEPT !.phase = "check"]
  <2>3. old \in Upload /\ Storing(old, DOMAIN secrets') /\ old.command = "get-add-keys"
        /\ old.phase = "list" /\ old.name = None
    <3>1. r \in Registries /\ <<>> \in Seq(Keyed)
      BY DEF WorldType
    <3> QED BY <3>1, RunType DEF Run
  <2> HIDE DEF old
  <2>4. new \in Upload /\ Storing(new, DOMAIN secrets')
    BY <2>3 DEF Upload, Storing
  <2>5. uploads' = [uploads EXCEPT ![o] = new] /\ DOMAIN secrets \subseteq DOMAIN secrets'
    BY <1>3, <2>2 DEF Starts, AddKeysStarts, old
  <2> HIDE DEF new
  <2> QED BY <2>1, <2>4, <2>5, RunMoves
<1> QED BY <1>1, <1>2, <1>3

\* A run under way is a record, and its entry, when it has one, is an entry.
LEMMA UnderWay ==
  ASSUME WInv, NEW o \in Operators, uploads[o] # None
  PROVE  /\ uploads[o] \in Upload /\ Storing(uploads[o], DOMAIN secrets)
         /\ uploads[o].todo \in Seq(Keyed)
         /\ uploads[o].todo # <<>> =>
              /\ Head(uploads[o].todo) \in Keyed /\ Tail(uploads[o].todo) \in Seq(Keyed)
              /\ Head(uploads[o].todo).group \in Groups
              /\ Range(uploads[o].todo) = {Head(uploads[o].todo)} \cup Range(Tail(uploads[o].todo))
<1> DEFINE run == uploads[o]
<1>1. run \in Upload /\ Storing(run, DOMAIN secrets)
  BY DEF WInv, UploadType
<1>2. run.todo \in Seq(Keyed)
  BY <1>1 DEF Upload
<1> DEFINE todo == run.todo
<1> HIDE DEF todo
<1>3. todo # <<>> => /\ Head(todo) \in Keyed /\ Tail(todo) \in Seq(Keyed)
                     /\ Range(todo) = {Head(todo)} \cup Range(Tail(todo))
  BY <1>2, HeadOfTodo DEF todo
<1>4. \A e \in Keyed : e.group \in Groups
  BY DEF Keyed, Groups
<1> QED BY <1>1, <1>2, <1>3, <1>4 DEF todo

LEMMA EntryTypes ==
  ASSUME WInv, NEW o \in Operators,
         List(o) \/ Skip(o) \/ Reuse(o) \/ Ensure(o)
  PROVE  WInv' /\ uploads'[o] \in Upload /\ uploads' = [uploads EXCEPT ![o] = uploads'[o]]
<1> DEFINE run == uploads[o]
           todo == run.todo
<1> USE DEF Uploading
<1>1. WorldType' /\ SecretType' /\ DOMAIN secrets \subseteq DOMAIN secrets'
  BY DEF WInv, List, Skip, Reuse, Ensure, notUploading, worldVars, setting, WorldType, SecretType
<1>2. run # None /\ todo # <<>>
  BY DEF List, Skip, Reuse, Ensure, AtEntry
<1>3. /\ run \in Upload /\ Storing(run, DOMAIN secrets) /\ todo \in Seq(Keyed)
      /\ Head(todo) \in Keyed /\ Tail(todo) \in Seq(Keyed) /\ Head(todo).group \in Groups
  BY <1>2, UnderWay
<1>4. SUFFICES \E new \in Upload :
                 uploads' = [uploads EXCEPT ![o] = new] /\ Storing(new, DOMAIN secrets')
  BY <1>1, RunMoves DEF WInv, UploadType
<1>5. DOMAIN secrets' = DOMAIN secrets /\ DOMAIN secrets \subseteq SecretNames
  BY DEF List, Skip, Reuse, Ensure, WInv, SecretType
<1>6. CASE List(o)
  <2> DEFINE group == Head(todo).group
             new == [run EXCEPT !.group = group, !.names = InGroup(group),
                                !.nextId = NextId(group), !.phase = "entry"]
  <2>1. uploads' = [uploads EXCEPT ![o] = new]
    BY <1>6 DEF List, Ascertained
  <2>2. NextId(group) \in Nat \cup {None} /\ (group \in {"att-eth", "att-bls"} => NextId(group) \in Nat)
    BY <1>3, NextIdAbove DEF WInv, Groups
  <2>3. InGroup(group) \subseteq SecretNames /\ \A n \in InGroup(group) : n \in DOMAIN secrets /\ n.group = group
    BY <1>5 DEF InGroup
  <2> HIDE DEF group
  <2>4. new \in Upload
    BY <1>3, <2>2, <2>3 DEF Upload, group
  <2>5. run.phase \notin {"create", "version"}
    BY <1>3, <1>6 DEF List, Storing, group
  <2>6. Storing(new, DOMAIN secrets')
    BY <1>3, <1>5, <2>2, <2>3, <2>5 DEF Storing, Upload, group
  <2> QED BY <2>1, <2>4, <2>6
<1>7. CASE Skip(o)
  <2> DEFINE new == [run EXCEPT !.todo = Tail(@)]
  <2>1. uploads' = [uploads EXCEPT ![o] = new] /\ run.phase = "entry"
    BY <1>7 DEF Skip, AtEntry
  <2>2. new \in Upload /\ Storing(new, DOMAIN secrets')
    BY <1>3, <1>5, <2>1 DEF Storing, Upload
  <2> QED BY <2>1, <2>2
<1>8. CASE Reuse(o)
  <2>1. PICK n \in Listed(o) : uploads' = [uploads EXCEPT ![o].name = n, ![o].phase = "version"]
    BY <1>8 DEF Reuse
  <2> DEFINE new == [run EXCEPT !.name = n, !.phase = "version"]
  <2>2. uploads' = [uploads EXCEPT ![o] = new] /\ run.phase = "entry" /\ run.group = Head(todo).group
    BY <1>3, <1>8, <2>1 DEF Reuse, AtEntry
  <2>3. n \in run.names /\ n.key = Head(todo).key
    BY DEF Listed, Known
  <2>4. new \in Upload /\ Storing(new, DOMAIN secrets')
    BY <1>2, <1>3, <1>5, <2>2, <2>3 DEF Storing, Upload
  <2> QED BY <2>2, <2>4
<1>9. CASE Ensure(o)
  <2> DEFINE name == SecretName(Head(todo), run.nextId)
             phase == IF name \in DOMAIN secrets THEN "version" ELSE "create"
             new == TakesName(run, name, phase)
  <2>1. uploads' = [uploads EXCEPT ![o] = new] /\ run.phase = "entry" /\ run.group = Head(todo).group
    BY <1>9 DEF Ensure, AtEntry
  <2>2. name \in SecretNames /\ name.group = Head(todo).group /\ name.key = Head(todo).key
    <3>1. Head(todo) \in Keyed /\ (Head(todo).group # "pub-eth" => run.nextId \in Nat)
      BY <1>3, <2>1 DEF Storing, Groups
    <3>2. \A e \in Keyed : \A id \in Nat \cup {None} :
            (e.group # "pub-eth" => id \in Nat) =>
               /\ SecretName(e, id) \in SecretNames
               /\ SecretName(e, id).group = e.group /\ SecretName(e, id).key = e.key
      BY DEF Keyed, SecretName, SecretNames
    <3>3. run.nextId \in Nat \cup {None}
      BY <1>3 DEF Upload
    <3> QED BY <3>1, <3>2, <3>3
  <2> HIDE DEF name
  <2> DEFINE next == IF run.nextId = None THEN None ELSE run.nextId + 1
  <2>3. next \in Nat \cup {None} /\ (run.nextId \in Nat => next \in Nat)
    BY <1>3, WorldAssumption DEF Upload
  <2>4. new = [run EXCEPT !.name = name, !.phase = phase, !.nextId = next]
    BY <1>3 DEF TakesName, Upload
  <2> HIDE DEF next, phase
  <2>5. phase \in {"version", "create"} /\ (phase = "version" => name \in DOMAIN secrets)
    BY DEF phase
  <2> HIDE DEF new
  <2>6. new \in Upload
    BY <1>3, <2>2, <2>3, <2>4, <2>5 DEF Upload
  <2>7. Storing(new, DOMAIN secrets')
    BY <1>2, <1>3, <1>5, <2>1, <2>2, <2>3, <2>4, <2>5 DEF Storing, Upload
  <2> QED BY <2>1, <2>6, <2>7 DEF new
<1> QED BY <1>6, <1>7, <1>8, <1>9

LEMMA StoreTypes ==
  ASSUME WInv, NEW o \in Operators, Create(o) \/ AddVersion(o)
  PROVE  WInv'
<1> DEFINE run == uploads[o]
           name == run.name
           todo == run.todo
<1> USE DEF Uploading
<1>1. /\ run # None /\ todo # <<>> /\ UNCHANGED <<signer, generated, proposals, overlapped>>
      /\ UNCHANGED <<given, faults, urls, providers, queues, events, publicKeys, addresses>>
  BY DEF Create, AddVersion, notUploading, worldVars, setting
<1>2. /\ run \in Upload /\ Storing(run, DOMAIN secrets) /\ todo \in Seq(Keyed)
      /\ Head(todo) \in Keyed /\ Tail(todo) \in Seq(Keyed) /\ Head(todo).group \in Groups
  BY <1>1, UnderWay
<1>3. WorldType'
  BY <1>1 DEF WInv, WorldType
<1>4. CASE Create(o) /\ name \in DOMAIN secrets
  <2>1. uploads' = [uploads EXCEPT ![o] = None] /\ secrets' = secrets
    BY <1>4 DEF Create
  <2>2. SecretType'
    BY <1>1, <2>1 DEF WInv, SecretType
  <2> QED BY <1>3, <2>1, <2>2, RunMoves DEF WInv
<1>5. CASE Create(o) /\ name \notin DOMAIN secrets
  <2> DEFINE new == [run EXCEPT !.phase = "version"]
  <2>1. /\ secrets' = [n \in DOMAIN secrets \cup {name} |-> IF n = name THEN 0 ELSE secrets[n]]
        /\ uploads' = [uploads EXCEPT ![o] = new] /\ run.phase = "create"
    BY <1>5 DEF Create
  <2>2. name \in SecretNames
    BY <1>2, <2>1 DEF Storing
  <2>3. DOMAIN secrets' = DOMAIN secrets \cup {name} /\ \A n \in DOMAIN secrets : secrets'[n] = secrets[n]
    BY <1>5, <2>1
  <2>4. DOMAIN secrets' \subseteq SecretNames /\ secrets' \in [DOMAIN secrets' -> Nat]
    BY <2>1, <2>2, SetSecretType DEF WInv
  <2>5. \E k \in Nat : \A n \in DOMAIN secrets' : n.id # None => n.id <= k
    <3>1. PICK k \in Nat : \A n \in DOMAIN secrets : n.id # None => n.id <= k
      BY DEF WInv, SecretType
    <3>2. name.id # None => name.id \in Nat
      BY <2>2 DEF SecretNames
    <3>3. \A n \in DOMAIN secrets : n.id # None => n.id \in Nat
      BY DEF WInv, SecretType, SecretNames
    <3> DEFINE top == IF name.id = None THEN k ELSE k + name.id
    <3>4. top \in Nat /\ k <= top /\ (name.id # None => name.id <= top)
      BY <3>2
    <3> HIDE DEF top
    <3>5. \A n \in DOMAIN secrets' : n.id # None => n.id <= top
      BY <2>3, <3>1, <3>3, <3>4
    <3> QED BY <3>4, <3>5
  <2>6. SecretType'
    BY <1>1, <2>3, <2>4, <2>5 DEF WInv, SecretType
  <2>7. new \in Upload /\ Storing(new, DOMAIN secrets')
    BY <1>1, <1>2, <2>1, <2>3 DEF Upload, Storing
  <2> HIDE DEF new
  <2> QED BY <1>3, <2>1, <2>3, <2>6, <2>7, RunMoves DEF WInv
<1>6. CASE AddVersion(o)
  <2> DEFINE new == Remembers(run)
  <2>1. /\ secrets' = [secrets EXCEPT ![name] = @ + 1] /\ run.phase = "version"
        /\ uploads' = [uploads EXCEPT ![o] = new]
    BY <1>6 DEF AddVersion
  <2>2. name \in DOMAIN secrets /\ name \in SecretNames /\ name.group = run.group
    BY <1>1, <1>2, <2>1 DEF Storing, WInv, SecretType
  <2>3. DOMAIN secrets' = DOMAIN secrets /\ secrets' \in [DOMAIN secrets -> Nat]
        /\ \A n \in DOMAIN secrets : secrets'[n] >= secrets[n]
    BY <2>1, <2>2 DEF WInv, SecretType
  <2>4. \A n \in DOMAIN secrets : secrets[n] > 0 => secrets'[n] > 0
    BY <2>3 DEF WInv, SecretType
  <2>5. SecretType'
    BY <1>1, <2>3, <2>4 DEF WInv, SecretType
  <2>6. new = [run EXCEPT !.phase = "entry", !.todo = Tail(todo), !.name = None,
                          !.names = run.names \cup {name}]
    BY <1>2 DEF Remembers, Upload
  <2> HIDE DEF new
  <2>7. new \in Upload
    BY <1>2, <2>2, <2>6 DEF Upload
  <2>8. Storing(new, DOMAIN secrets')
    BY <1>2, <2>1, <2>2, <2>3, <2>6 DEF Storing, Upload
  <2> QED BY <1>3, <2>1, <2>3, <2>5, <2>7, <2>8, RunMoves DEF WInv
<1> QED BY <1>4, <1>5, <1>6 DEF Create

LEMMA LaterTypes ==
  ASSUME WInv, NEW o \in Operators,
         \/ Dies(o) \/ Reload(o) \/ Checked(o) \/ Propose(o) \/ WritePublicKeys(o) \/ WriteAddresses(o)
         \/ \E r \in Registries : CheckRegistry(o, r) \/ CheckFails(o, r)
  PROVE  WInv'
<1> DEFINE run == uploads[o]
<1>0. run # None
  BY DEF Dies, Reload, Checked, Propose, WritePublicKeys, WriteAddresses, Uploaded, CheckRegistry,
         CheckFails, Checking
<1>1. run \in Upload /\ Storing(run, DOMAIN secrets) /\ run.todo \in Seq(Keyed)
  BY <1>0, UnderWay
<1>2. secrets' = secrets /\ generated' = generated
  BY DEF Dies, Reload, Checked, Propose, WritePublicKeys, WriteAddresses, CheckRegistry, CheckFails,
         notUploading
<1>3. CASE Dies(o)
  <2>1. WorldType' /\ SecretType'
    BY <1>3, FaultType DEF Dies, WInv, SecretType
  <2> QED BY <1>2, <1>3, <2>1, RunMoves DEF Dies, WInv
<1>4. CASE Reload(o)
  <2> DEFINE new == [run EXCEPT !.phase = IF run.registry \in providers THEN "check" ELSE "write"]
  <2>1. uploads' = [uploads EXCEPT ![o] = new] /\ run.phase = "entry"
    BY <1>4 DEF Reload
  <2>2. new \in Upload /\ Storing(new, DOMAIN secrets')
    BY <1>1, <1>2, <2>1 DEF Upload, Storing
  <2>3. SecretType'
    BY <1>2, <1>4 DEF Reload, WInv, SecretType
  <2>4. WorldType'
    <3>1. CASE UNCHANGED faults
      BY <1>4, <3>1 DEF Reload, WInv, WorldType, notFaults, setting
    <3>2. CASE Fails
      BY <1>4, <3>2, FaultType DEF Reload, WInv
    <3> QED BY <1>4, <3>1, <3>2 DEF Reload
  <2> HIDE DEF new
  <2> QED BY <1>2, <2>1, <2>2, <2>3, <2>4, RunMoves DEF WInv
<1>5. CASE Checked(o)
  <2> DEFINE new == IF run.found # {} THEN None
                    ELSE IF run.command # "get-add-keys" THEN [run EXCEPT !.phase = "write"]
                    ELSE IF Chunks(FileAttesters) = <<>> THEN None
                    ELSE [run EXCEPT !.phase = "propose", !.chunks = Chunks(FileAttesters)]
  <2>1. uploads' = [uploads EXCEPT ![o] = new] /\ run.phase = "check"
    BY <1>5 DEF Checked
  <2>2. Chunks(FileAttesters) \in Seq(Seq(Attesters))
    BY ChunksType, FileAttestersType
  <2>3. new \in Upload \cup {None} /\ (new # None => Storing(new, DOMAIN secrets'))
    BY <1>1, <1>2, <2>1, <2>2 DEF Upload, Storing
  <2>4. WorldType' /\ SecretType'
    BY <1>5 DEF Checked, notUploading, worldVars, setting, WInv, WorldType, SecretType
  <2> HIDE DEF new
  <2> QED BY <1>2, <2>1, <2>3, <2>4, RunMoves DEF WInv
<1>6. CASE Propose(o)
  <2> DEFINE new == IF Len(run.chunks) = 1 THEN None ELSE [run EXCEPT !.chunks = Tail(@)]
  <2>1. uploads' = [uploads EXCEPT ![o] = new] /\ run.phase = "propose"
    <3>1. CASE Len(run.chunks) = 1
      BY <1>6, <3>1 DEF Propose
    <3>2. CASE Len(run.chunks) # 1
      BY <1>6, <3>2 DEF Propose
    <3> QED BY <3>1, <3>2
  <2>2. run.chunks \in Seq(Seq(Attesters)) /\ run.registry \in Registries \cup {None}
    BY <1>1 DEF Upload
  <2>3. /\ Head(run.chunks) \in Seq(Attesters) /\ Tail(run.chunks) \in Seq(Seq(Attesters))
        /\ Len(run.chunks) # 1 => Tail(run.chunks) # <<>>
    <3>1. run.chunks # <<>>
      BY <1>1, <2>1 DEF Storing
    <3> DEFINE chunks == run.chunks
    <3>2. chunks \in Seq(Seq(Attesters)) /\ chunks # <<>>
      BY <2>2, <3>1
    <3> HIDE DEF chunks
    <3>3. Len(chunks) # 1 => Tail(chunks) # <<>>
      <4>1. Len(chunks) \in Nat \ {0} /\ Len(Tail(chunks)) = Len(chunks) - 1 /\ Len(<<>>) = 0
        BY <3>2
      <4> QED BY <4>1
    <3> QED BY <3>2, <3>3 DEF chunks
  <2>4. new \in Upload \cup {None} /\ (new # None => Storing(new, DOMAIN secrets'))
    BY <1>1, <1>2, <2>1, <2>3 DEF Upload, Storing
  <2>5. [registry |-> run.registry, attesters |-> Head(run.chunks)] \in Proposal
    BY <2>2, <2>3 DEF Proposal
  <2>6. WorldType'
    BY <1>6 DEF Propose, worldVars, setting, WInv, WorldType
  <2>7. SecretType'
    <3>1. proposals' \in Seq(Proposal)
      BY <1>6, <2>5 DEF Propose, WInv, SecretType
    <3> QED BY <1>2, <1>6, <3>1 DEF Propose, WInv, SecretType
  <2> HIDE DEF new
  <2> QED BY <1>2, <2>1, <2>4, <2>6, <2>7, RunMoves DEF WInv
<1>7. CASE WritePublicKeys(o)
  <2>1. WorldType' /\ SecretType'
    BY <1>7 DEF WritePublicKeys, setting, WInv, WorldType, SecretType
  <2> QED BY <1>2, <1>7, <2>1, RunMoves DEF WritePublicKeys, WInv
<1>8. CASE WriteAddresses(o)
  <2>1. run.keys \subseteq Publishers
    BY <1>1, <1>8 DEF Storing, WriteAddresses, Uploaded
  <2>2. WorldType' /\ SecretType'
    BY <1>8, <2>1 DEF WriteAddresses, setting, WInv, WorldType, SecretType
  <2> QED BY <1>2, <1>8, <2>2, RunMoves DEF WriteAddresses, WInv
<1>9. ASSUME NEW r \in Registries, CheckRegistry(o, r) \/ CheckFails(o, r) PROVE WInv'
  <2>0. run.phase = "check" /\ run.unchecked # <<>>
    BY <1>9 DEF CheckRegistry, CheckFails, Checking
  <2>1. run.unchecked \in Seq(Registries) /\ run.found \subseteq Attesters
    BY <1>1 DEF Upload
  <2>2. Tail(run.unchecked) \in Seq(Registries)
    BY <2>0, <2>1
  <2>3. Range(FileAttesters) \subseteq Attesters
    BY FileAttestersType DEF Range
  <2>4. \E found \in SUBSET Attesters :
          uploads' = [uploads EXCEPT ![o] = [run EXCEPT !.unchecked = Tail(@), !.found = found]]
    <3>1. CASE CheckRegistry(o, r)
      <4> DEFINE seen == IF r \in providers
                         THEN run.found \cup (Range(queues[r]) \cap Range(FileAttesters))
                         ELSE run.found
      <4>1. uploads' = [uploads EXCEPT ![o] = [run EXCEPT !.unchecked = Tail(@), !.found = seen]]
        BY <3>1 DEF CheckRegistry
      <4>2. seen \in SUBSET Attesters
        BY <2>1, <2>3
      <4> QED BY <4>1, <4>2
    <3>2. CASE CheckFails(o, r)
      <4>1. PICK read \in SUBSET (Range(queues[r]) \cap Range(FileAttesters)) :
              uploads' = [uploads EXCEPT ![o].unchecked = Tail(@), ![o].found = @ \cup read]
        BY <3>2 DEF CheckFails
      <4>2. run.found \cup read \in SUBSET Attesters
        BY <2>1, <2>3
      <4> QED BY <4>1, <4>2
    <3> QED BY <1>9, <3>1, <3>2
  <2>5. PICK found \in SUBSET Attesters :
          uploads' = [uploads EXCEPT ![o] = [run EXCEPT !.unchecked = Tail(@), !.found = found]]
    BY <2>4
  <2> DEFINE new == [run EXCEPT !.unchecked = Tail(@), !.found = found]
  <2>6. new \in Upload /\ Storing(new, DOMAIN secrets')
    BY <1>1, <1>2, <2>0, <2>2, <2>5 DEF Upload, Storing
  <2>7. WorldType' /\ SecretType'
    <3>1. CASE CheckRegistry(o, r)
      BY <3>1 DEF CheckRegistry, notUploading, worldVars, setting, WInv, WorldType, SecretType
    <3>2. CASE CheckFails(o, r)
      BY <3>2, FaultType DEF CheckFails, WInv, SecretType
    <3> QED BY <1>9, <3>1, <3>2
  <2> HIDE DEF new
  <2> QED BY <1>2, <2>5, <2>6, <2>7, RunMoves DEF WInv, new
<1> QED BY <1>3, <1>4, <1>5, <1>6, <1>7, <1>8, <1>9

LEMMA UploadTypes ==
  ASSUME WInv, NEW o \in Operators, UploadNext(o)
  PROVE  WInv'
BY StartTypes, EntryTypes, StoreTypes, LaterTypes DEF UploadNext

------------------------------------------------------------------------------
(* Keys are stored, and loaded, before anything is written that names them *)

StoredEntries == {e \in Keyed : Stored(e)}
LoadedEntries == {e \in Keyed : Named(e) \cap signer # {}}
AttesterEntries == {Entry(g, a) : g \in {"att-eth", "att-bls"}, a \in Range(FileAttesters)}
PublisherEntries(keys) == {Entry("pub-eth", p) : p \in keys}

\* The signers could be told, and nothing failed.
Told == urls /\ faults = 0

\* What a run has not stored yet is still to do; past the reload the signers
\* have loaded it, when they were told.
Pends(run, stored, loaded, clean) ==
  /\ run.command = "process-private-keys" =>
       /\ AttesterEntries \subseteq stored \cup Range(run.todo)
       /\ run.phase \in {"check", "write"} /\ clean => AttesterEntries \subseteq loaded
  /\ run.command = "new-publisher-keys" =>
       PublisherEntries(run.keys) \subseteq stored \cup Range(run.todo)

Written ==
  /\ publicKeys # None =>
       /\ AttesterEntries \subseteq StoredEntries
       /\ Told => AttesterEntries \subseteq LoadedEntries
  /\ PublisherEntries(addresses) \subseteq StoredEntries

PInv ==
  /\ Written
  /\ \A o \in Operators : uploads[o] # None =>
       Pends(uploads[o], StoredEntries, LoadedEntries, Told)

LEMMA WrittenIsStored == WInv /\ Written => StoredWhenWritten
<1> SUFFICES ASSUME WInv, Written PROVE StoredWhenWritten
  OBVIOUS
<1>1. ASSUME publicKeys # None, NEW a \in Range(FileAttesters), NEW g \in {"att-eth", "att-bls"}
      PROVE  Stored(Entry(g, a)) /\ (Told => Named(Entry(g, a)) \cap signer # {})
  <2>1. Entry(g, a) \in AttesterEntries
    BY DEF AttesterEntries
  <2> QED BY <1>1, <2>1 DEF Written, Told, StoredEntries, LoadedEntries
<1>2. ASSUME NEW p \in addresses PROVE Stored(Entry("pub-eth", p))
  BY DEF Written, PublisherEntries, StoredEntries
<1> QED BY <1>1, <1>2 DEF StoredWhenWritten, Told

\* Nothing that is stored, or loaded, is ever lost.
LEMMA StoreGrows ==
  ASSUME WInv, DOMAIN secrets \subseteq DOMAIN secrets',
         \A n \in DOMAIN secrets : secrets[n] > 0 => secrets'[n] > 0, signer \subseteq signer'
  PROVE  StoredEntries \subseteq StoredEntries' /\ LoadedEntries \subseteq LoadedEntries'
<1>1. \A e \in Keyed : Named(e) \subseteq Named(e)'
  BY DEF Named, InGroup
<1>2. \A e \in Keyed : Named(e) \subseteq DOMAIN secrets
  BY DEF Named, InGroup
<1>3. \A e \in Keyed : Stored(e) => Stored(e)'
  BY <1>1, <1>2 DEF Stored
<1> QED BY <1>1, <1>3 DEF StoredEntries, LoadedEntries

\* It is enough to look at the run that moves.
LEMMA PendingMoves ==
  ASSUME WInv, PInv, NEW o \in Operators, NEW run \in Upload \cup {None},
         uploads' = [uploads EXCEPT ![o] = run],
         StoredEntries \subseteq StoredEntries', LoadedEntries \subseteq LoadedEntries',
         Told' => Told,
         run # None => Pends(run, StoredEntries', LoadedEntries', Told'),
         Written'
  PROVE  PInv'
<1>1. ASSUME NEW q \in Operators, uploads'[q] # None
      PROVE  Pends(uploads'[q], StoredEntries', LoadedEntries', Told')
  <2>1. CASE q = o
    BY <1>1, <2>1 DEF WInv, UploadType
  <2>2. CASE q # o
    <3>1. uploads'[q] = uploads[q] /\ Pends(uploads[q], StoredEntries, LoadedEntries, Told)
      BY <1>1, <2>2 DEF PInv, WInv, UploadType
    <3> QED BY <3>1 DEF Pends
  <2> QED BY <2>1, <2>2
<1> QED BY <1>1 DEF PInv

LEMMA WrittenStays ==
  ASSUME Written, StoredEntries \subseteq StoredEntries', LoadedEntries \subseteq LoadedEntries',
         Told' => Told, UNCHANGED <<publicKeys, addresses>>
  PROVE  Written'
BY DEF Written, PublisherEntries

LEMMA StartsPending ==
  ASSUME WInv, PInv, NEW o \in Operators,
         ProcessStarts(o) \/ NewPublishersStart(o) \/ AddKeysStarts(o)
  PROVE  PInv'
<1>1. UNCHANGED <<secrets, signer, publicKeys, addresses, urls, faults>>
  BY DEF ProcessStarts, NewPublishersStart, AddKeysStarts, notGiven, setting
<1>2. StoredEntries' = StoredEntries /\ LoadedEntries' = LoadedEntries
  BY <1>1 DEF StoredEntries, LoadedEntries, Stored, Named, InGroup
<1>3. Written'
  BY <1>1, <1>2, WrittenStays DEF PInv, Told
<1>4. ASSUME NEW run \in Upload, uploads' = [uploads EXCEPT ![o] = run],
             Pends(run, StoredEntries', LoadedEntries', Told')
      PROVE  PInv'
  BY <1>1, <1>2, <1>3, <1>4, PendingMoves DEF Told
<1>5. CASE ProcessStarts(o)
  <2>1. PICK w \in BOOLEAN, r \in Registries :
          Starts(o, Run("process-private-keys", Entries(w), r))
    BY <1>5 DEF ProcessStarts
  <2> DEFINE run == Run("process-private-keys", Entries(w), r)
  <2>2. run \in Upload
    BY EntriesType, RunType
  <2>3. Pends(run, StoredEntries', LoadedEntries', Told')
    BY EntriesType DEF Run, Pends, AttesterEntries
  <2>4. uploads' = [uploads EXCEPT ![o] = run]
    BY <2>1 DEF Starts
  <2> HIDE DEF run
  <2> QED BY <1>4, <2>2, <2>3, <2>4
<1>6. CASE NewPublishersStart(o)
  <2>1. PICK fresh \in SUBSET (Publishers \ generated) \ {{}} :
          LET order == SetToSeq(fresh) IN
          /\ generated' = generated \cup fresh
          /\ Starts(o, Run("new-publisher-keys",
                           [i \in DOMAIN order |-> Entry("pub-eth", order[i])], None))
    BY <1>6 DEF NewPublishersStart
  <2> DEFINE order == SetToSeq(fresh)
             todo == [i \in DOMAIN order |-> Entry("pub-eth", order[i])]
             run == Run("new-publisher-keys", todo, None)
  <2>2. order \in Seq(Publishers)
    <3>1. IsFiniteSet(fresh)
      BY FS_Subset, WorldAssumption
    <3>2. order \in Seq(fresh)
      BY <3>1, SeqOfSet
    <3> QED BY <3>2
  <2>3. todo \in Seq(Keyed) /\ \A e \in Range(todo) : e = Entry("pub-eth", e.key)
    <3> HIDE DEF order
    <3>1. \A i \in DOMAIN order : order[i] \in Publishers /\ DOMAIN order = 1..Len(order) /\ Len(order) \in Nat
      BY <2>2
    <3>2. \A i \in DOMAIN order : Entry("pub-eth", order[i]) \in Keyed
      BY <3>1 DEF Entry, Keyed
    <3> QED BY <2>2, <3>1, <3>2 DEF Range, Entry
  <2> HIDE DEF todo
  <2>4. run \in Upload
    BY <2>3, RunType
  <2>5. Pends(run, StoredEntries', LoadedEntries', Told')
    <3>1. run.command = "new-publisher-keys" /\ run.todo = todo
          /\ run.keys = {e.key : e \in Range(todo)}
      BY DEF Run
    <3>2. PublisherEntries(run.keys) \subseteq Range(todo)
      BY <2>3, <3>1 DEF PublisherEntries
    <3> QED BY <3>1, <3>2 DEF Pends
  <2>6. uploads' = [uploads EXCEPT ![o] = run]
    BY <2>1 DEF Starts, todo
  <2> HIDE DEF run
  <2> QED BY <1>4, <2>4, <2>5, <2>6
<1>7. CASE AddKeysStarts(o)
  <2>1. PICK r \in providers : Starts(o, [Run("get-add-keys", <<>>, r) EXCEPT !.phase = "check"])
    BY <1>7 DEF AddKeysStarts
  <2> DEFINE old == Run("get-add-keys", <<>>, r)
             run == [old EXCEPT !.phase = "check"]
  <2>2. old \in Upload /\ old.command = "get-add-keys"
    <3>1. r \in Registries /\ <<>> \in Seq(Keyed)
      BY DEF WInv, WorldType
    <3> QED BY <3>1, RunType DEF Run
  <2>3. uploads' = [uploads EXCEPT ![o] = run]
    BY <2>1 DEF Starts
  <2> HIDE DEF old
  <2>4. run \in Upload /\ Pends(run, StoredEntries', LoadedEntries', Told')
    BY <2>2 DEF Upload, Pends
  <2> HIDE DEF run
  <2> QED BY <1>4, <2>3, <2>4
<1> QED BY <1>5, <1>6, <1>7

LEMMA EntriesPending ==
  ASSUME WInv, PInv, NEW o \in Operators, List(o) \/ Skip(o) \/ Reuse(o) \/ Ensure(o)
  PROVE  PInv'
<1> DEFINE run == uploads[o]
           todo == run.todo
<1> USE DEF Uploading
<1>1. UNCHANGED <<secrets, signer, publicKeys, addresses, urls, faults>>
  BY DEF List, Skip, Reuse, Ensure, notUploading, worldVars, setting
<1>2. StoredEntries' = StoredEntries /\ LoadedEntries' = LoadedEntries
  BY <1>1 DEF StoredEntries, LoadedEntries, Stored, Named, InGroup
<1>3. Written'
  BY <1>1, <1>2, WrittenStays DEF PInv, Told
<1>4. run # None /\ todo # <<>>
  BY DEF List, Skip, Reuse, Ensure, AtEntry
<1>5. /\ run \in Upload /\ Storing(run, DOMAIN secrets) /\ todo \in Seq(Keyed)
      /\ Head(todo) \in Keyed /\ Tail(todo) \in Seq(Keyed)
      /\ Range(todo) = {Head(todo)} \cup Range(Tail(todo))
      /\ Pends(run, StoredEntries, LoadedEntries, Told)
  BY <1>4, UnderWay DEF PInv
<1> DEFINE new == uploads'[o]
<1>6. new \in Upload /\ uploads' = [uploads EXCEPT ![o] = new]
  BY EntryTypes
<1>7. /\ new.command = run.command /\ new.keys = run.keys /\ new.phase \notin {"check", "write"}
      /\ new.todo = todo \/ (Skip(o) /\ new.todo = Tail(todo))
  <2>1. CASE List(o)
    BY <1>5, <2>1 DEF List, Ascertained, WInv, UploadType, Upload
  <2>2. CASE Skip(o)
    BY <1>5, <2>2 DEF Skip, AtEntry, WInv, UploadType, Upload
  <2>3. CASE Reuse(o)
    <3>1. PICK n \in Listed(o) : uploads' = [uploads EXCEPT ![o].name = n, ![o].phase = "version"]
      BY <2>3 DEF Reuse
    <3> QED BY <1>5, <3>1 DEF WInv, UploadType, Upload
  <2>4. CASE Ensure(o)
    BY <1>5, <2>4 DEF Ensure, TakesName, WInv, UploadType, Upload
  <2> QED BY <2>1, <2>2, <2>3, <2>4
<1>8. ASSUME Skip(o) PROVE Head(todo) \in StoredEntries
  <2>1. PICK n \in Listed(o) : secrets[n] > 0
    BY <1>8 DEF Skip
  <2>2. n \in run.names /\ n.key = Head(todo).key /\ n.group = Head(todo).group /\ n \in DOMAIN secrets
    BY <1>5, <1>8 DEF Listed, Known, Storing, Skip, AtEntry
  <2> QED BY <1>5, <2>1, <2>2 DEF StoredEntries, Stored, Named, InGroup
<1> HIDE DEF new
<1>9. Pends(new, StoredEntries', LoadedEntries', Told')
  BY <1>1, <1>2, <1>5, <1>7, <1>8 DEF Pends, Told
<1> QED BY <1>1, <1>2, <1>3, <1>6, <1>9, PendingMoves DEF Told

LEMMA StoresPending ==
  ASSUME WInv, PInv, NEW o \in Operators, Create(o) \/ AddVersion(o)
  PROVE  PInv'
<1> DEFINE run == uploads[o]
           name == run.name
           todo == run.todo
<1> USE DEF Uploading
<1>1. run # None /\ todo # <<>> /\ UNCHANGED <<signer, publicKeys, addresses, urls, faults>>
  BY DEF Create, AddVersion, notUploading, worldVars, setting
<1>2. /\ run \in Upload /\ Storing(run, DOMAIN secrets) /\ todo \in Seq(Keyed)
      /\ Head(todo) \in Keyed /\ Range(todo) = {Head(todo)} \cup Range(Tail(todo))
      /\ Tail(todo) \in Seq(Keyed)
      /\ Pends(run, StoredEntries, LoadedEntries, Told)
  BY <1>1, UnderWay DEF PInv
<1>3. /\ DOMAIN secrets \subseteq DOMAIN secrets'
      /\ \A n \in DOMAIN secrets : secrets[n] > 0 => secrets'[n] > 0
  <2>1. CASE Create(o)
    BY <2>1 DEF Create
  <2>2. CASE AddVersion(o)
    BY <2>2 DEF AddVersion, WInv, SecretType
  <2> QED BY <2>1, <2>2
<1>4. StoredEntries \subseteq StoredEntries' /\ LoadedEntries \subseteq LoadedEntries'
  BY <1>1, <1>3, StoreGrows
<1>5. Written'
  BY <1>1, <1>4, WrittenStays DEF PInv, Told
<1>6. CASE Create(o)
  <2> DEFINE new == IF name \in DOMAIN secrets THEN None ELSE [run EXCEPT !.phase = "version"]
  <2>1. uploads' = [uploads EXCEPT ![o] = new]
    BY <1>6 DEF Create
  <2>2. new \in Upload \cup {None}
    BY <1>2 DEF Upload
  <2>3. new # None => Pends(new, StoredEntries', LoadedEntries', Told')
    BY <1>1, <1>2, <1>4 DEF Pends, Upload, Told
  <2> HIDE DEF new
  <2> QED BY <1>1, <1>4, <1>5, <2>1, <2>2, <2>3, PendingMoves DEF Told
<1>7. CASE AddVersion(o)
  <2> DEFINE new == [run EXCEPT !.phase = "entry", !.todo = Tail(todo), !.name = None,
                                !.names = run.names \cup {name}]
  <2>1. /\ secrets' = [secrets EXCEPT ![name] = @ + 1] /\ run.phase = "version"
        /\ uploads' = [uploads EXCEPT ![o] = new]
    BY <1>2, <1>7 DEF AddVersion, Remembers, Upload
  <2>2. name \in DOMAIN secrets /\ name.group = Head(todo).group /\ name.key = Head(todo).key
    BY <1>1, <1>2, <2>1 DEF Storing
  <2>3. secrets'[name] > 0 /\ DOMAIN secrets' = DOMAIN secrets
    BY <2>1, <2>2 DEF WInv, SecretType
  <2>4. Head(todo) \in StoredEntries'
    BY <1>2, <2>2, <2>3 DEF StoredEntries, Stored, Named, InGroup
  <2>5. name \in SecretNames
    BY <2>2 DEF WInv, SecretType
  <2>6. new \in Upload
    BY <1>2, <2>5 DEF Upload
  <2>7. new.command = run.command /\ new.keys = run.keys /\ new.phase = "entry" /\ new.todo = Tail(todo)
    BY <1>2 DEF Upload
  <2> HIDE DEF new
  <2>8. Pends(new, StoredEntries', LoadedEntries', Told')
    BY <1>1, <1>2, <1>4, <2>4, <2>7 DEF Pends, Told
  <2> QED BY <1>1, <1>4, <1>5, <2>1, <2>6, <2>8, PendingMoves DEF Told
<1> QED BY <1>6, <1>7

LEMMA LaterPending ==
  ASSUME WInv, PInv, NEW o \in Operators,
         \/ Dies(o) \/ Reload(o) \/ Checked(o) \/ Propose(o) \/ WritePublicKeys(o) \/ WriteAddresses(o)
         \/ \E r \in Registries : CheckRegistry(o, r) \/ CheckFails(o, r)
  PROVE  PInv'
<1> DEFINE run == uploads[o]
<1>0. run # None
  BY DEF Dies, Reload, Checked, Propose, WritePublicKeys, WriteAddresses, Uploaded, CheckRegistry,
         CheckFails, Checking
<1>1. run \in Upload /\ Pends(run, StoredEntries, LoadedEntries, Told)
  BY <1>0, UnderWay DEF PInv
<1>2. secrets' = secrets /\ StoredEntries' = StoredEntries
  BY DEF Dies, Reload, Checked, Propose, WritePublicKeys, WriteAddresses, CheckRegistry, CheckFails,
         notUploading, StoredEntries, Stored, Named, InGroup
<1>3. Told' => Told
  <2>1. UNCHANGED urls /\ (UNCHANGED faults \/ Fails)
    BY DEF Dies, Reload, Checked, Propose, WritePublicKeys, WriteAddresses, CheckRegistry, CheckFails,
           notUploading, notFaults, worldVars, setting
  <2>2. faults \in Nat
    BY WorldAssumption DEF WInv, WorldType
  <2> QED BY <2>1, <2>2 DEF Fails, Told
<1>4. CASE Reload(o)
  <2> DEFINE new == [run EXCEPT !.phase = IF run.registry \in providers THEN "check" ELSE "write"]
  <2>1. /\ uploads' = [uploads EXCEPT ![o] = new] /\ run.command = "process-private-keys"
        /\ run.todo = <<>> /\ UNCHANGED <<publicKeys, addresses>>
    BY <1>4 DEF Reload, Uploaded, notFaults
  <2>2. AttesterEntries \subseteq StoredEntries
    BY <1>1, <2>1 DEF Pends, Range
  <2>3. signer \subseteq signer' /\ (Told' => StoredEntries \subseteq LoadedEntries')
    <3>1. CASE Fails /\ UNCHANGED signer
      <4>1. faults' # 0
        BY <3>1, WorldAssumption DEF Fails, WInv, WorldType
      <4> QED BY <3>1, <4>1 DEF Told
    <3>3. CASE ~urls /\ UNCHANGED signer
      <4>1. ~urls'
        BY <1>4, <3>3 DEF Reload, notFaults, setting
      <4> QED BY <3>3, <4>1 DEF Told
    <3>2. CASE signer' = {n \in DOMAIN secrets : secrets[n] > 0}
      <4>1. signer \subseteq signer'
        BY <3>2 DEF WInv, SecretType
      <4>2. ASSUME NEW e \in StoredEntries PROVE e \in LoadedEntries'
        <5>1. PICK n \in Named(e) : secrets[n] > 0
          BY DEF StoredEntries, Stored
        <5>2. n \in Named(e)' /\ n \in signer'
          BY <1>2, <3>2, <5>1 DEF Named, InGroup
        <5> QED BY <5>2 DEF StoredEntries, LoadedEntries
      <4> QED BY <4>1, <4>2
    <3> QED BY <1>4, <3>1, <3>2, <3>3 DEF Reload
  <2>4. LoadedEntries \subseteq LoadedEntries'
    BY <1>2, <2>3 DEF LoadedEntries, Named, InGroup
  <2>5. Written'
    BY <1>2, <1>3, <2>1, <2>4, WrittenStays DEF PInv
  <2>6. new \in Upload /\ Pends(new, StoredEntries', LoadedEntries', Told')
    BY <1>1, <1>2, <2>1, <2>2, <2>3 DEF Upload, Pends
  <2> HIDE DEF new
  <2> QED BY <1>2, <1>3, <2>1, <2>4, <2>5, <2>6, PendingMoves
<1>5. ASSUME UNCHANGED signer, UNCHANGED <<publicKeys, addresses>>,
             NEW new \in Upload \cup {None}, uploads' = [uploads EXCEPT ![o] = new],
             new # None => /\ new.command = run.command /\ new.keys = run.keys /\ new.todo = run.todo
                           /\ new.phase = "propose" \/ run.phase = "check"
      PROVE  PInv'
  <2>1. LoadedEntries' = LoadedEntries
    BY <1>2, <1>5 DEF LoadedEntries, Named, InGroup
  <2>2. Written'
    BY <1>2, <1>3, <1>5, <2>1, WrittenStays DEF PInv
  <2>3. new # None => Pends(new, StoredEntries', LoadedEntries', Told')
    BY <1>1, <1>2, <1>3, <1>5, <2>1 DEF Pends
  <2> QED BY <1>2, <1>3, <1>5, <2>1, <2>2, <2>3, PendingMoves
<1>6. CASE Dies(o)
  BY <1>5, <1>6 DEF Dies, notFaults
<1>7. CASE Checked(o) \/ Propose(o) \/ \E r \in Registries : CheckRegistry(o, r) \/ CheckFails(o, r)
  <2> DEFINE new == uploads'[o]
  <2>1. WInv'
    BY <1>7, LaterTypes
  <2>2. new \in Upload \cup {None} /\ uploads' = [uploads EXCEPT ![o] = new]
    BY <1>7, <2>1 DEF WInv, UploadType, Checked, Propose, CheckRegistry, CheckFails
  <2>3. UNCHANGED <<signer, publicKeys, addresses>>
    BY <1>7 DEF Checked, Propose, CheckRegistry, CheckFails, notUploading, worldVars, notFaults
  <2>4. new # None => /\ new.command = run.command /\ new.keys = run.keys /\ new.todo = run.todo
                      /\ new.phase = "propose" \/ run.phase = "check"
    <3>1. CASE Checked(o)
      BY <1>1, <3>1 DEF Checked, WInv, UploadType, Upload
    <3>2. CASE Propose(o)
      <4>1. CASE Len(run.chunks) = 1
        BY <1>1, <3>2, <4>1 DEF Propose, WInv, UploadType, Upload
      <4>2. CASE Len(run.chunks) # 1
        BY <1>1, <3>2, <4>2 DEF Propose, WInv, UploadType, Upload
      <4> QED BY <4>1, <4>2
    <3>3. ASSUME NEW r \in Registries, CheckRegistry(o, r) \/ CheckFails(o, r)
          PROVE  /\ new.command = run.command /\ new.keys = run.keys /\ new.todo = run.todo
                 /\ run.phase = "check"
      <4>1. CASE CheckRegistry(o, r)
        BY <1>1, <4>1 DEF CheckRegistry, Checking, WInv, UploadType, Upload
      <4>2. CASE CheckFails(o, r)
        <5>1. PICK read \in SUBSET (Range(queues[r]) \cap Range(FileAttesters)) :
                uploads' = [uploads EXCEPT ![o].unchecked = Tail(@), ![o].found = @ \cup read]
          BY <4>2 DEF CheckFails
        <5>2. run.phase = "check"
          BY <4>2 DEF CheckFails, Checking
        <5> QED BY <1>1, <5>1, <5>2 DEF WInv, UploadType, Upload
      <4> QED BY <3>3, <4>1, <4>2
    <3> QED BY <1>7, <3>1, <3>2, <3>3
  <2> HIDE DEF new
  <2> QED BY <1>5, <2>2, <2>3, <2>4
<1>8. CASE WritePublicKeys(o)
  <2>1. /\ run.command = "process-private-keys" /\ run.todo = <<>> /\ run.phase = "write"
        /\ uploads' = [uploads EXCEPT ![o] = None] /\ UNCHANGED <<signer, addresses, urls, faults>>
    BY <1>8 DEF WritePublicKeys, Uploaded, setting
  <2>2. LoadedEntries' = LoadedEntries
    BY <1>2, <2>1 DEF LoadedEntries, Named, InGroup
  <2>3. AttesterEntries \subseteq StoredEntries /\ (Told => AttesterEntries \subseteq LoadedEntries)
    BY <1>1, <2>1 DEF Pends, Range
  <2>4. Written'
    BY <1>2, <2>1, <2>2, <2>3 DEF Written, PInv, Told
  <2> QED BY <1>2, <1>3, <2>1, <2>2, <2>4, PendingMoves
<1>9. CASE WriteAddresses(o)
  <2>1. /\ run.command = "new-publisher-keys" /\ run.todo = <<>>
        /\ uploads' = [uploads EXCEPT ![o] = None] /\ UNCHANGED <<signer, publicKeys, urls, faults>>
        /\ addresses' = addresses \cup run.keys
    BY <1>9 DEF WriteAddresses, Uploaded, setting
  <2>2. LoadedEntries' = LoadedEntries
    BY <1>2, <2>1 DEF LoadedEntries, Named, InGroup
  <2>3. PublisherEntries(run.keys) \subseteq StoredEntries
    BY <1>1, <2>1 DEF Pends, Range
  <2>4. PublisherEntries(addresses') \subseteq StoredEntries
    BY <2>1, <2>3 DEF PublisherEntries, Written, PInv
  <2>5. Written'
    BY <1>2, <2>1, <2>2, <2>4 DEF Written, PInv, Told
  <2> QED BY <1>2, <1>3, <2>1, <2>2, <2>5, PendingMoves
<1> QED BY <1>4, <1>6, <1>7, <1>8, <1>9

LEMMA UploadPending ==
  ASSUME WInv, PInv, NEW o \in Operators, UploadNext(o)
  PROVE  PInv'
BY StartsPending, EntriesPending, StoresPending, LaterPending DEF UploadNext

------------------------------------------------------------------------------
(* One command after the other, however each ended, stores a key once *)

Alone == \A o, q \in Operators : uploads[o] # None /\ uploads[q] # None => o = q

Distinct ==
  \A n, m \in DOMAIN secrets :
    /\ secrets[n] <= 1
    /\ n # m => <<n.group, n.key>> # <<m.group, m.key>>
    /\ n # m /\ n.group = m.group /\ n.group # "pub-eth" => n.id # m.id

\* What a run that is alone has listed, and noted since, is what its group has,
\* and the numbers it gives are free.
Tracks(run, store) ==
  LET mine == {n \in DOMAIN store : n.group = run.group} IN
  /\ run.phase = "entry" => run.names = mine
  /\ run.phase = "create" =>
       /\ run.names = mine
       /\ \A n \in mine : n.key # run.name.key
       /\ run.group # "pub-eth" =>
            run.name.id \in Nat /\ run.name.id < run.nextId /\ \A n \in mine : n.id < run.name.id
  /\ run.phase = "version" => mine = run.names \cup {run.name} /\ store[run.name] = 0
  /\ run.phase \in {"entry", "create", "version"} /\ run.group # "pub-eth" =>
       run.nextId \in Nat /\ \A n \in mine : n.id < run.nextId

RInv ==
  overlapped \/ (/\ Alone /\ Distinct
                 /\ \A o \in Operators : uploads[o] # None => Tracks(uploads[o], secrets))

LEMMA IdsOfGroup ==
  ASSUME SecretType, NEW n \in DOMAIN secrets, n.group # "pub-eth"
  PROVE  n.id \in Nat
BY DEF SecretType, SecretNames

\* The run that moves is the only one.
LEMMA TrackingMoves ==
  ASSUME WInv, RInv, NEW o \in Operators, NEW run \in Upload \cup {None},
         uploads' = [uploads EXCEPT ![o] = run], uploads[o] # None, UNCHANGED overlapped,
         ~overlapped => Distinct',
         ~overlapped /\ run # None => Tracks(run, secrets')
  PROVE  RInv'
<1> SUFFICES ASSUME ~overlapped PROVE RInv'
  BY DEF RInv
<1>1. \A q \in Operators : uploads[q] # None => q = o
  BY DEF RInv, Alone
<1>2. \A q \in Operators : uploads'[q] # None => q = o /\ uploads'[q] = run
  BY <1>1 DEF WInv, UploadType
<1> QED BY <1>2 DEF RInv, Alone

LEMMA StartsTrack ==
  ASSUME WInv, RInv, NEW o \in Operators,
         ProcessStarts(o) \/ NewPublishersStart(o) \/ AddKeysStarts(o)
  PROVE  RInv'
<1>1. \E run : Starts(o, run) /\ run.phase \in {"list", "check"}
  <2>1. CASE ProcessStarts(o)
    BY <2>1 DEF ProcessStarts, Run
  <2>2. CASE NewPublishersStart(o)
    BY <2>2 DEF NewPublishersStart, Run
  <2>3. CASE AddKeysStarts(o)
    BY <2>3 DEF AddKeysStarts, Run
  <2> QED BY <2>1, <2>2, <2>3
<1>2. PICK run : Starts(o, run) /\ run.phase \in {"list", "check"}
  BY <1>1
<1>3. secrets' = secrets
  BY DEF ProcessStarts, NewPublishersStart, AddKeysStarts
<1> SUFFICES ASSUME ~overlapped' PROVE RInv'
  BY DEF RInv
<1>4. ~overlapped /\ \A q \in Operators : uploads[q] = None
  BY <1>2 DEF Starts
<1>5. \A q \in Operators : uploads'[q] # None => q = o /\ uploads'[q] = run
  BY <1>2, <1>4 DEF Starts, WInv, UploadType
<1>6. Tracks(run, secrets)
  BY <1>2 DEF Tracks
<1> QED BY <1>3, <1>4, <1>5, <1>6 DEF RInv, Alone, Distinct

LEMMA EntriesTrack ==
  ASSUME WInv, RInv, NEW o \in Operators, List(o) \/ Skip(o) \/ Reuse(o) \/ Ensure(o)
  PROVE  RInv'
<1> DEFINE run == uploads[o]
           todo == run.todo
           new == uploads'[o]
           mine == {n \in DOMAIN secrets : n.group = new.group}
<1> USE DEF Uploading
<1>1. UNCHANGED <<secrets, overlapped>> /\ run # None /\ todo # <<>>
  BY DEF List, Skip, Reuse, Ensure, AtEntry, notUploading
<1>2. /\ run \in Upload /\ Storing(run, DOMAIN secrets) /\ todo \in Seq(Keyed)
      /\ Head(todo) \in Keyed /\ Head(todo).group \in Groups
  BY <1>1, UnderWay
<1>3. new \in Upload /\ uploads' = [uploads EXCEPT ![o] = new]
  BY EntryTypes
<1> SUFFICES ASSUME ~overlapped PROVE Tracks(new, secrets)
  <2> HIDE DEF new
  <2> QED BY <1>1, <1>3, TrackingMoves DEF RInv, Distinct
<1>4. Tracks(run, secrets)
  BY <1>1 DEF RInv
<1>5. CASE List(o)
  <2>1. /\ new.phase = "entry" /\ new.group = Head(todo).group /\ new.names = InGroup(new.group)
        /\ new.nextId = NextId(new.group)
    BY <1>2, <1>5 DEF List, Ascertained, WInv, UploadType, Upload
  <2>2. InGroup(new.group) = mine
    BY DEF InGroup
  <2>3. new.group # "pub-eth" => new.nextId \in Nat /\ \A n \in mine : n.id < new.nextId
    BY <1>2, <2>1, <2>2, NextIdAbove DEF WInv
  <2> HIDE DEF new
  <2> QED BY <2>1, <2>2, <2>3 DEF Tracks
<1>6. CASE Skip(o)
  <2>1. /\ new.phase = "entry" /\ run.phase = "entry" /\ new.group = run.group /\ new.names = run.names
        /\ new.nextId = run.nextId
    BY <1>2, <1>6 DEF Skip, AtEntry, WInv, UploadType, Upload
  <2> HIDE DEF new
  <2> QED BY <1>4, <2>1 DEF Tracks
<1>7. CASE Reuse(o)
  <2>1. PICK n \in Listed(o) : uploads' = [uploads EXCEPT ![o].name = n, ![o].phase = "version"]
    BY <1>7 DEF Reuse
  <2>2. /\ new.phase = "version" /\ run.phase = "entry" /\ new.group = run.group
        /\ new.names = run.names /\ new.nextId = run.nextId /\ new.name = n
    BY <1>2, <1>7, <2>1 DEF Reuse, AtEntry, WInv, UploadType, Upload
  <2>3. n \in run.names /\ secrets[n] = 0
    BY <1>7 DEF Reuse, Listed, Known
  <2> HIDE DEF new
  <2> QED BY <1>4, <2>2, <2>3 DEF Tracks
<1>8. CASE Ensure(o)
  <2> DEFINE name == SecretName(Head(todo), run.nextId)
             next == IF run.nextId = None THEN None ELSE run.nextId + 1
  <2>1. /\ new.phase = (IF name \in DOMAIN secrets THEN "version" ELSE "create")
        /\ run.phase = "entry" /\ new.group = run.group /\ run.group = Head(todo).group
        /\ new.names = run.names /\ new.nextId = next /\ new.name = name
    BY <1>2, <1>8 DEF Ensure, AtEntry, TakesName, WInv, UploadType, Upload
  <2>2. name.group = run.group /\ name.key = Head(todo).key /\ (run.group # "pub-eth" => name.id = run.nextId)
    BY <2>1 DEF SecretName
  <2>3. run.names = mine /\ \A n \in run.names : n.key # name.key
    <3>1. run.names = mine
      BY <1>4, <2>1 DEF Tracks
    <3>2. Listed(o) = {}
      BY <1>8 DEF Ensure
    <3> QED BY <2>2, <3>1, <3>2 DEF Listed, Known
  <2>4. name \notin DOMAIN secrets
    BY <2>1, <2>2, <2>3
  <2>5. run.group # "pub-eth" =>
          /\ run.nextId \in Nat /\ next = run.nextId + 1 /\ \A n \in mine : n.id \in Nat /\ n.id < run.nextId
    <3>1. run.group # "pub-eth" => run.nextId \in Nat /\ \A n \in mine : n.id < run.nextId
      BY <1>4, <2>1 DEF Tracks
    <3>2. \A n \in mine : n.group # "pub-eth" => n.id \in Nat
      BY IdsOfGroup DEF WInv
    <3> QED BY <2>1, <3>1, <3>2, WorldAssumption
  <2> HIDE DEF new, name, next
  <2>6. \A n \in mine : run.group # "pub-eth" => n.id < run.nextId + 1
    BY <2>5
  <2> QED BY <2>1, <2>2, <2>3, <2>4, <2>5, <2>6 DEF Tracks
<1> QED BY <1>5, <1>6, <1>7, <1>8

LEMMA StoresTrack ==
  ASSUME WInv, RInv, NEW o \in Operators, Create(o) \/ AddVersion(o)
  PROVE  RInv'
<1> DEFINE run == uploads[o]
           name == run.name
           mine == {n \in DOMAIN secrets : n.group = run.group}
           mine2 == {n \in DOMAIN secrets' : n.group = run.group}
<1> USE DEF Uploading
<1>1. run # None /\ run.todo # <<>> /\ UNCHANGED overlapped
  BY DEF Create, AddVersion, notUploading
<1>2. run \in Upload /\ Storing(run, DOMAIN secrets)
  BY <1>1, UnderWay
<1> SUFFICES ASSUME ~overlapped PROVE RInv'
  BY <1>1 DEF RInv
<1>3. Distinct /\ Tracks(run, secrets)
  BY <1>1 DEF RInv
<1>4. CASE Create(o)
  <2> DEFINE new == [run EXCEPT !.phase = "version"]
  <2>1. /\ run.phase = "create" /\ name \in SecretNames /\ name.group = run.group
    BY <1>2, <1>4 DEF Create, Storing
  <2>2. /\ run.names = mine /\ \A n \in mine : n.key # name.key
        /\ run.group # "pub-eth" =>
             name.id \in Nat /\ run.nextId \in Nat /\ name.id < run.nextId /\ \A n \in mine : n.id < name.id
    BY <1>3, <2>1 DEF Tracks
  <2>3. name \notin DOMAIN secrets
    BY <2>1, <2>2
  <2>4. /\ secrets' = [n \in DOMAIN secrets \cup {name} |-> IF n = name THEN 0 ELSE secrets[n]]
        /\ uploads' = [uploads EXCEPT ![o] = new]
    BY <1>4, <2>3 DEF Create
  <2>5. /\ DOMAIN secrets' = DOMAIN secrets \cup {name} /\ secrets'[name] = 0
        /\ \A n \in DOMAIN secrets : secrets'[n] = secrets[n]
    BY <2>3, <2>4
  <2>6. Distinct'
    <3> SUFFICES ASSUME NEW n \in DOMAIN secrets', NEW m \in DOMAIN secrets'
                 PROVE  /\ secrets'[n] <= 1
                        /\ n # m => <<n.group, n.key>> # <<m.group, m.key>>
                        /\ n # m /\ n.group = m.group /\ n.group # "pub-eth" => n.id # m.id
      BY DEF Distinct
    <3>1. CASE n \in DOMAIN secrets /\ m \in DOMAIN secrets
      BY <1>3, <2>5, <3>1 DEF Distinct
    <3>2. ASSUME NEW k \in DOMAIN secrets, k.group = name.group
          PROVE  k.key # name.key /\ (k.group # "pub-eth" => k.id \in Nat /\ k.id < name.id)
      <4>1. k \in mine
        BY <2>1, <3>2
      <4>2. k.group # "pub-eth" => k.id \in Nat
        BY IdsOfGroup DEF WInv
      <4> QED BY <2>1, <2>2, <4>1, <4>2
    <3>3. CASE n = name /\ m \in DOMAIN secrets
      BY <2>1, <2>2, <2>3, <2>5, <3>2, <3>3
    <3>4. CASE m = name /\ n \in DOMAIN secrets
      <4>1. secrets'[n] <= 1
        BY <1>3, <2>5, <3>4 DEF Distinct
      <4> QED BY <2>1, <2>2, <2>3, <3>2, <3>4, <4>1
    <3>5. CASE n = name /\ m = name
      BY <2>5, <3>5
    <3> QED BY <2>5, <3>1, <3>3, <3>4, <3>5
  <2>7. new \in Upload /\ new.phase = "version" /\ new.group = run.group /\ new.names = run.names
        /\ new.name = name /\ new.nextId = run.nextId
    BY <1>2 DEF Upload
  <2>8. Tracks(new, secrets')
    <3>1. mine2 = mine \cup {name}
      BY <2>1, <2>5
    <3>2. run.group # "pub-eth" => \A n \in mine2 : n.id < run.nextId
      <4>1. run.group # "pub-eth" => run.nextId \in Nat /\ \A n \in mine : n.id < run.nextId
        BY <1>3, <2>1 DEF Tracks
      <4> QED BY <2>2, <3>1, <4>1
    <3> HIDE DEF new
    <3> QED BY <2>2, <2>5, <2>7, <3>1, <3>2 DEF Tracks
  <2> HIDE DEF new
  <2> QED BY <1>1, <2>4, <2>6, <2>7, <2>8, TrackingMoves
<1>5. CASE AddVersion(o)
  <2> DEFINE new == [run EXCEPT !.phase = "entry", !.todo = Tail(run.todo), !.name = None,
                                !.names = run.names \cup {name}]
  <2>1. /\ secrets' = [secrets EXCEPT ![name] = @ + 1] /\ run.phase = "version"
        /\ uploads' = [uploads EXCEPT ![o] = new]
    BY <1>2, <1>5 DEF AddVersion, Remembers, Upload
  <2>2. mine = run.names \cup {name} /\ secrets[name] = 0 /\ name \in DOMAIN secrets
    BY <1>2, <1>3, <2>1 DEF Tracks, Storing
  <2>3. /\ DOMAIN secrets' = DOMAIN secrets /\ secrets'[name] = 1
        /\ \A n \in DOMAIN secrets : n # name => secrets'[n] = secrets[n]
    BY <2>1, <2>2 DEF WInv, SecretType
  <2>4. Distinct'
    <3>1. \A n \in DOMAIN secrets' : secrets'[n] <= 1
      BY <1>3, <2>3 DEF Distinct
    <3> QED BY <1>3, <2>3, <3>1 DEF Distinct
  <2>5. /\ new.phase = "entry" /\ new.group = run.group /\ new.names = run.names \cup {name}
        /\ new.nextId = run.nextId
    BY <1>2 DEF Upload
  <2>6. new \in Upload
    <3>1. name \in SecretNames /\ Tail(run.todo) \in Seq(Keyed)
      BY <1>1, <2>2, UnderWay DEF WInv, SecretType
    <3> QED BY <1>2, <3>1 DEF Upload
  <2> HIDE DEF new
  <2>7. Tracks(new, secrets')
    BY <1>3, <2>1, <2>2, <2>3, <2>5 DEF Tracks
  <2> QED BY <1>1, <2>1, <2>4, <2>6, <2>7, TrackingMoves
<1> QED BY <1>4, <1>5

LEMMA LaterTrack ==
  ASSUME WInv, RInv, NEW o \in Operators,
         \/ Dies(o) \/ Reload(o) \/ Checked(o) \/ Propose(o) \/ WritePublicKeys(o) \/ WriteAddresses(o)
         \/ \E r \in Registries : CheckRegistry(o, r) \/ CheckFails(o, r)
  PROVE  RInv'
<1> DEFINE run == uploads[o]
           new == uploads'[o]
<1>0. run # None
  BY DEF Dies, Reload, Checked, Propose, WritePublicKeys, WriteAddresses, Uploaded, CheckRegistry,
         CheckFails, Checking
<1>1. run \in Upload
  BY <1>0, UnderWay
<1>2. UNCHANGED <<secrets, overlapped>>
  BY DEF Dies, Reload, Checked, Propose, WritePublicKeys, WriteAddresses, CheckRegistry, CheckFails,
         notUploading
<1>3. WInv'
  BY LaterTypes
<1>4. new \in Upload \cup {None} /\ uploads' = [uploads EXCEPT ![o] = new]
  BY <1>3 DEF WInv, UploadType, Dies, Reload, Checked, Propose, WritePublicKeys, WriteAddresses,
              CheckRegistry, CheckFails
<1>5. new # None => new.phase \in {"check", "write", "propose"}
  <2>1. CASE Dies(o) \/ WritePublicKeys(o) \/ WriteAddresses(o)
    BY <2>1 DEF Dies, WritePublicKeys, WriteAddresses, WInv, UploadType
  <2>2. CASE Reload(o)
    BY <1>1, <2>2 DEF Reload, WInv, UploadType, Upload
  <2>3. CASE Checked(o)
    BY <1>1, <2>3 DEF Checked, WInv, UploadType, Upload
  <2>4. CASE Propose(o)
    <3>1. run.phase = "propose"
      BY <2>4 DEF Propose
    <3>2. CASE Len(run.chunks) = 1
      BY <2>4, <3>2 DEF Propose, WInv, UploadType
    <3>3. CASE Len(run.chunks) # 1
      BY <1>1, <2>4, <3>1, <3>3 DEF Propose, WInv, UploadType, Upload
    <3> QED BY <3>2, <3>3
  <2>5. ASSUME NEW r \in Registries, CheckRegistry(o, r) PROVE new.phase = "check"
    BY <1>1, <2>5 DEF CheckRegistry, Checking, WInv, UploadType, Upload
  <2>6. ASSUME NEW r \in Registries, CheckFails(o, r) PROVE new.phase = "check"
    <3>1. PICK read \in SUBSET (Range(queues[r]) \cap Range(FileAttesters)) :
            uploads' = [uploads EXCEPT ![o].unchecked = Tail(@), ![o].found = @ \cup read]
      BY <2>6 DEF CheckFails
    <3>2. run.phase = "check"
      BY <2>6 DEF CheckFails, Checking
    <3> QED BY <1>1, <3>1, <3>2 DEF WInv, UploadType, Upload
  <2> QED BY <2>1, <2>2, <2>3, <2>4, <2>5, <2>6
<1> HIDE DEF new
<1>6. new # None => Tracks(new, secrets')
  BY <1>5 DEF Tracks
<1>7. ~overlapped => Distinct'
  BY <1>2 DEF RInv, Distinct
<1> QED BY <1>0, <1>2, <1>4, <1>6, <1>7, TrackingMoves

LEMMA UploadTracks ==
  ASSUME WInv, RInv, NEW o \in Operators, UploadNext(o)
  PROVE  RInv'
BY StartsTrack, EntriesTrack, StoresTrack, LaterTrack DEF UploadNext

------------------------------------------------------------------------------
(* Mappings *)

MappingT == [attester : Attesters, coinbase : Coinbase \cup {Zero}, block : Nat]

MappingIn(log, b) == [attester |-> log[b].attester, coinbase |-> log[b].coinbase, block |-> b]

\* The mappings that are true: those of the events.
PastOf(log) == {MappingIn(log, b) : b \in 1..Len(log)}

Mapped(mappings) == {m.attester : m \in mappings}

LEMMA PastIs == Block = Len(events) /\ \A b : Mapping(b) = MappingIn(events, b)
  BY DEF Block, Mapping, MappingIn

LEMMA PastType ==
  ASSUME NEW log \in Events
  PROVE  /\ Len(log) \in Nat
         /\ \A b \in 1..Len(log) : log[b].attester \in Attesters /\ log[b].coinbase \in Coinbase \cup {Zero}
         /\ \A m \in PastOf(log) :
              /\ m \in MappingT /\ m.block \in 1..Len(log) /\ m.coinbase # None
              /\ m = MappingIn(log, m.block)
<1> DEFINE E == [attester : Attesters, coinbase : Coinbase \cup {Zero}]
<1>1. log \in Seq(E)
  BY DEF Events
<1>2. \A e \in E : e.attester \in Attesters /\ e.coinbase \in Coinbase \cup {Zero}
  OBVIOUS
<1> HIDE DEF E
<1>3. Len(log) \in Nat /\ \A b \in 1..Len(log) : log[b] \in E
  BY <1>1
<1>4. None \notin Coinbase \cup {Zero}
  BY CacheAssumption DEF Coinbase
<1> QED BY <1>2, <1>3, <1>4 DEF PastOf, MappingIn, MappingT

LEMMA LatestIs ==
  ASSUME NEW log \in Events, NEW mappings \in SUBSET PastOf(log), NEW a, a \in Mapped(mappings)
  PROVE  Latest(mappings, a) \in Of(mappings, a)
<1> DEFINE blocks == {m.block : m \in Of(mappings, a)}
<1>1. Of(mappings, a) # {} /\ Of(mappings, a) \subseteq PastOf(log)
  BY DEF Of, Mapped
<1>2. blocks \in SUBSET Int /\ blocks # {} /\ \A b \in blocks : b <= Len(log)
  BY <1>1, PastType
<1>3. Max(blocks) \in blocks /\ \A b \in blocks : Max(blocks) >= b
  <2> HIDE DEF blocks
  <2>1. Len(log) \in Int
    BY PastType
  <2> QED BY <1>2, <2>1, MaxOf
<1>4. PICK m \in Of(mappings, a) : m.block = Max(blocks)
  BY <1>3
<1>5. \A n \in Of(mappings, a) : n.block <= m.block
  <2> TAKE n \in Of(mappings, a)
  <2>1. n.block \in blocks /\ Max(blocks) >= n.block /\ n.block \in Int /\ m.block \in Int
    BY <1>2, <1>3, <1>4
  <2> QED BY <1>4, <2>1
<1> QED BY <1>4, <1>5 DEF Latest

\* What is cached for an attester is the coinbase of a mapping, or nothing.
LEMMA CachedIs ==
  ASSUME NEW log \in Events, NEW mappings \in SUBSET PastOf(log), NEW a
  PROVE  \/ a \notin Mapped(mappings) /\ CachedCoinbase(mappings, a) = None
         \/ \E m \in mappings : m.attester = a /\ CachedCoinbase(mappings, a) = m.coinbase
                                /\ m.coinbase # None
<1>1. CASE a \notin Mapped(mappings)
  BY <1>1 DEF CachedCoinbase, Of, Mapped
<1>2. CASE a \in Mapped(mappings)
  <2>1. Latest(mappings, a) \in Of(mappings, a)
    BY <1>2, LatestIs
  <2>2. Latest(mappings, a) \in mappings /\ Latest(mappings, a).attester = a
    BY <2>1 DEF Of
  <2>3. CachedCoinbase(mappings, a) = Latest(mappings, a).coinbase
    BY <2>1 DEF CachedCoinbase
  <2>4. Latest(mappings, a).coinbase # None
    BY <2>2, PastType
  <2> QED BY <2>2, <2>3, <2>4
<1> QED BY <1>1, <1>2

\* Merging one more loses nobody, and invents nothing.
LEMMA MergeOneIs ==
  ASSUME NEW log \in Events, NEW mappings \in SUBSET PastOf(log), NEW new \in PastOf(log)
  PROVE  LET merged == MergeOne(mappings, new) IN
         merged = None \/ (merged \in SUBSET PastOf(log)
                           /\ Mapped(merged) = Mapped(mappings) \cup {new.attester})
<1> DEFINE a == new.attester
           others == mappings \ Of(mappings, a)
           old == CachedCoinbase(mappings, a)
<1>1. CASE mappings = None
  BY <1>1 DEF MergeOne
<1>2. CASE mappings # None
  <2>1. /\ others \cup {new} \in SUBSET PastOf(log)
        /\ Mapped(others \cup {new}) = Mapped(mappings) \cup {a}
    BY DEF Mapped, Of
  <2>2. new.coinbase # None
    BY PastType
  <2>3. old # None => a \in Mapped(mappings)
    <3> HIDE DEF a
    <3>1. \/ a \notin Mapped(mappings) /\ CachedCoinbase(mappings, a) = None
          \/ \E m \in mappings : m.attester = a /\ CachedCoinbase(mappings, a) = m.coinbase
                                 /\ m.coinbase # None
      BY CachedIs
    <3> QED BY <3>1 DEF Mapped
  <2>4. a \in Mapped(mappings) => Mapped(mappings) = Mapped(mappings) \cup {a}
    OBVIOUS
  <2> HIDE DEF others, old
  <2>5. CASE old \in {None, Zero} \ {new.coinbase}
    <3>1. MergeOne(mappings, new) = others \cup {new}
      BY <1>2, <2>5 DEF MergeOne, others, old
    <3> QED BY <2>1, <3>1
  <2>6. CASE old = new.coinbase
    <3>1. MergeOne(mappings, new) \in {others \cup {new}, mappings}
      BY <1>2, <2>6 DEF MergeOne, others, old
    <3>2. a \in Mapped(mappings)
      BY <2>2, <2>3, <2>6
    <3> QED BY <2>1, <2>4, <3>1, <3>2
  <2>7. CASE old \notin {None, Zero, new.coinbase}
    <3>1. MergeOne(mappings, new) \in {mappings, None}
      BY <1>2, <2>7 DEF MergeOne, others, old
    <3>2. a \in Mapped(mappings)
      BY <2>3, <2>7
    <3> QED BY <2>4, <3>1, <3>2
  <2> QED BY <2>5, <2>6, <2>7
<1> QED BY <1>1, <1>2

\* A merge that finds no conflict knows whom either side knew.
LEMMA MergeIs ==
  ASSUME events \in Events,
         NEW mappings \in SUBSET PastOf(events), NEW new \in SUBSET PastOf(events)
  PROVE  LET merged == Merge(mappings, new) IN
         merged = None \/ (merged \in SUBSET PastOf(events)
                           /\ Mapped(merged) = Mapped(mappings) \cup Mapped(new))
<1> DEFINE N == Len(events)
           S == (SUBSET PastOf(events)) \cup {None}
           base == {Latest(mappings, a) : a \in {m.attester : m \in mappings}}
           Next_(b, x) == IF Mapping(b) \in new THEN MergeOne(x, Mapping(b)) ELSE x
           step == [b \in 1..N |-> [x \in S |-> Next_(b, x)]]
           F == CHOOSE f : f = [b \in 0..N |->
                  IF b = 0 THEN base
                  ELSE IF Mapping(b) \in new THEN MergeOne(f[b - 1], Mapping(b)) ELSE f[b - 1]]
<1>1. N \in Nat /\ Block = N /\ \A b \in 1..N : Mapping(b) \in PastOf(events)
  BY PastType, PastIs DEF PastOf
<1>2. base \in SUBSET PastOf(events) /\ Mapped(base) = Mapped(mappings)
  <2>1. \A a \in Mapped(mappings) : Latest(mappings, a) \in mappings /\ Latest(mappings, a).attester = a
    BY LatestIs DEF Of
  <2> QED BY <2>1 DEF Mapped
<1>3. ASSUME NEW b \in 1..N, NEW x \in S
      PROVE  /\ Next_(b, x) \in S
             /\ Next_(b, x) # None => x # None
             /\ Next_(b, x) # None => Mapped(Next_(b, x)) = Mapped(x) \cup
                                        (IF Mapping(b) \in new THEN {Mapping(b).attester} ELSE {})
  <2>1. CASE x = None
    BY <2>1 DEF MergeOne
  <2>2. CASE Mapping(b) \in new /\ x # None
    <3>1. /\ x \in SUBSET PastOf(events) /\ Mapping(b) \in PastOf(events)
          /\ Next_(b, x) = MergeOne(x, Mapping(b))
      BY <2>2
    <3> DEFINE m == Mapping(b)
    <3> HIDE DEF m
    <3>2. LET merged == MergeOne(x, m) IN
          merged = None \/ (merged \in SUBSET PastOf(events)
                            /\ Mapped(merged) = Mapped(x) \cup {m.attester})
      BY <3>1, MergeOneIs DEF m
    <3> QED BY <2>2, <3>1, <3>2 DEF m
  <2>3. CASE Mapping(b) \notin new /\ x # None
    BY <2>3
  <2> QED BY <2>1, <2>2, <2>3
<1>4. step \in [1..N -> [S -> S]] /\ \A b \in 1..N : \A x \in S : step[b][x] = Next_(b, x)
  <2> HIDE DEF Next_, S, N
  <2> QED BY <1>3
<1>5. PICK f \in [0..N -> S] : Unfolds(f, step, N, base)
  <2> HIDE DEF step, N, S, base
  <2>1. IsRecursion(step, N, S)
    BY <1>1, <1>4 DEF IsRecursion
  <2>2. base \in S
    BY <1>2 DEF S
  <2> QED BY <2>1, <2>2, PrefixRecursion
<1>6. \A b \in 0..N : f[b] = IF b = 0 THEN base ELSE Next_(b, f[b - 1])
  <2> HIDE DEF step, N, S, base, Next_
  <2>1. \A b \in 0..N : b # 0 => b \in 1..N /\ b - 1 \in 0..N
    BY <1>1
  <2> QED BY <1>4, <1>5, <2>1 DEF Unfolds
<1>7. f = [b \in 0..N |->
             IF b = 0 THEN base
             ELSE IF Mapping(b) \in new THEN MergeOne(f[b - 1], Mapping(b)) ELSE f[b - 1]]
  <2> HIDE DEF base, S, N
  <2> QED BY <1>5, <1>6
<1>8. F = [b \in 0..N |->
             IF b = 0 THEN base
             ELSE IF Mapping(b) \in new THEN MergeOne(F[b - 1], Mapping(b)) ELSE F[b - 1]]
  <2> HIDE DEF base, S, N
  <2> QED BY <1>7
<1> DEFINE seen(b) == {Mapping(k).attester : k \in {i \in 1..b : Mapping(i) \in new}}
           P == {b \in 0..N : F[b] \in S /\ (F[b] # None => Mapped(F[b]) = Mapped(mappings) \cup seen(b))}
<1>9. \A b \in 0..N : F[b] = IF b = 0 THEN base ELSE Next_(b, F[b - 1])
  <2> HIDE DEF F, base, N
  <2> QED BY <1>8
<1>10. 0 \in P
  <2> HIDE DEF F, base, N
  <2>1. F[0] = base /\ 0 \in 0..N
    BY <1>1, <1>9
  <2>2. seen(0) = {}
    OBVIOUS
  <2> QED BY <1>2, <2>1, <2>2
<1>11. \A b \in 1..N : b - 1 \in P => b \in P
  <2> SUFFICES ASSUME NEW b \in 1..N, b - 1 \in P PROVE b \in P
    OBVIOUS
  <2>1. F[b] = Next_(b, F[b - 1]) /\ b \in 0..N /\ F[b - 1] \in S
        /\ (F[b - 1] # None => Mapped(F[b - 1]) = Mapped(mappings) \cup seen(b - 1))
    <3>1. b \in 0..N /\ b # 0
      BY <1>1
    <3> HIDE DEF F, base, N, Next_, seen, S
    <3> QED BY <1>9, <3>1
  <2>2. seen(b) = seen(b - 1) \cup (IF Mapping(b) \in new THEN {Mapping(b).attester} ELSE {})
    <3>1. 1..b = (1..(b - 1)) \cup {b}
      BY <1>1
    <3> QED BY <3>1
  <2> HIDE DEF F, base, N, Next_, seen, S
  <2>3. /\ Next_(b, F[b - 1]) \in S
        /\ Next_(b, F[b - 1]) # None => F[b - 1] # None
        /\ Next_(b, F[b - 1]) # None => Mapped(Next_(b, F[b - 1])) = Mapped(F[b - 1]) \cup
                                        (IF Mapping(b) \in new THEN {Mapping(b).attester} ELSE {})
    BY <1>3, <2>1
  <2> QED BY <2>1, <2>2, <2>3
<1>12. N \in P
  <2>1. N \in 0..N
    BY <1>1
  <2> HIDE DEF P, N
  <2> QED BY <1>1, <1>10, <1>11, <2>1, PrefixInduction, Zenon
<1>13. Merge(mappings, new) = F[N]
  BY <1>1 DEF Merge
<1>14. seen(N) = Mapped(new)
  <2>1. \A m \in new : m.block \in 1..N /\ m = Mapping(m.block)
    BY PastType, PastIs
  <2> QED BY <2>1 DEF Mapped
<1> HIDE DEF F, seen, N
<1> QED BY <1>12, <1>13, <1>14

------------------------------------------------------------------------------
(* What the other commands and the chain leave of the uploads *)

LEMMA UploadsStay ==
  ASSUME WInv, UNCHANGED <<secrets, signer, generated, uploads, overlapped, publicKeys, addresses>>,
         WorldType', proposals' \in Seq(Proposal), Told' => Told
  PROVE  WInv' /\ (PInv => PInv') /\ (RInv => RInv')
<1>1. WInv'
  BY DEF WInv, SecretType, UploadType
<1>2. StoredEntries' = StoredEntries /\ LoadedEntries' = LoadedEntries
  BY DEF StoredEntries, LoadedEntries, Stored, Named, InGroup
<1>3. ASSUME PInv PROVE PInv'
  <2>1. Written'
    BY <1>2, <1>3, WrittenStays DEF PInv
  <2>2. ASSUME NEW q \in Operators, uploads'[q] # None
        PROVE  Pends(uploads'[q], StoredEntries', LoadedEntries', Told')
    <3>1. uploads'[q] = uploads[q] /\ Pends(uploads[q], StoredEntries, LoadedEntries, Told)
      BY <1>3, <2>2 DEF PInv
    <3> QED BY <1>2, <3>1 DEF Pends
  <2> QED BY <2>1, <2>2 DEF PInv
<1>4. ASSUME RInv PROVE RInv'
  BY <1>4 DEF RInv, Alone, Distinct
<1> QED BY <1>1, <1>3, <1>4

\* A command around the cache changes nothing of the world, but that it was
\* given, or that it failed.
LEMMA CacheWorld ==
  ASSUME CacheNext
  PROVE  \/ UNCHANGED worldVars
         \/ UNCHANGED notFaults /\ Fails
         \/ UNCHANGED notGiven /\ \E command : Gives(command)
<1>1. CASE AgentScrapes
  BY <1>1 DEF AgentScrapes
<1>2. CASE RemoveTorn
  BY <1>2 DEF RemoveTorn
<1>3. ASSUME NEW p \in Processes, ScrapeStarts(p) \/ FillStarts(p) \/ EvaluateStarts(p)
      PROVE  UNCHANGED notGiven /\ \E command : Gives(command)
  BY <1>3 DEF ScrapeStarts, FillStarts, EvaluateStarts
<1>4. ASSUME NEW p \in Processes, LoadCache(p) \/ ReadBlock(p) \/ Save(p) \/ UpdateFile(p)
                   \/ FillReads(p) \/ FillWrites(p) \/ FindSplits(p) \/ ProposeClaims(p)
      PROVE  UNCHANGED worldVars
  BY <1>4 DEF LoadCache, ReadBlock, Save, UpdateFile, FillReads, FillWrites, FindSplits, ProposeClaims
<1>5. ASSUME NEW p \in Processes, TearCache(p) \/ JobDies(p)
      PROVE  UNCHANGED notFaults /\ Fails
  BY <1>5 DEF TearCache, JobDies
<1> QED BY <1>1, <1>2, <1>3, <1>4, <1>5 DEF CacheNext

LEMMA WorldStays ==
  ASSUME WInv, UNCHANGED uploadVars,
         \/ UNCHANGED worldVars
         \/ UNCHANGED notFaults /\ Fails
         \/ UNCHANGED notGiven /\ \E command : Gives(command)
  PROVE  WInv' /\ (PInv => PInv') /\ (RInv => RInv') /\ UNCHANGED events
<1>1. WorldType' /\ (Told' => Told) /\ UNCHANGED <<events, publicKeys, addresses>>
  <2>1. CASE UNCHANGED worldVars
    BY <2>1 DEF WInv, WorldType, worldVars, setting, Told
  <2>2. CASE UNCHANGED notFaults /\ Fails
    BY <2>2, FaultType DEF WInv, notFaults, setting, Told
  <2>3. CASE UNCHANGED notGiven /\ \E command : Gives(command)
    BY <2>3, GivenType DEF WInv, notGiven, setting, Told
  <2> QED BY <2>1, <2>2, <2>3
<1> QED BY <1>1, UploadsStay DEF uploadVars, WInv, SecretType

LEMMA ExecuteStays ==
  ASSUME WInv, Execute
  PROVE  WInv' /\ (PInv => PInv') /\ (RInv => RInv')
<1> DEFINE call == Head(proposals)
<1>1. call \in Proposal /\ proposals' = Tail(proposals) /\ proposals' \in Seq(Proposal)
  BY HeadOfTodo DEF Execute, WInv, SecretType
<1>2. queues' = IF Range(call.attesters) \cap Range(queues[call.registry]) # {} THEN queues
                ELSE [queues EXCEPT ![call.registry] = @ \o call.attesters]
  BY DEF Execute
<1>3. call.attesters \in Seq(Attesters) /\ queues \in [Registries -> Seq(Attesters)]
  BY <1>1 DEF Proposal, WInv, WorldType
<1> HIDE DEF call
<1>4. queues' \in [Registries -> Seq(Attesters)]
  <2>1. CASE queues' = queues
    BY <1>3, <2>1
  <2>2. CASE queues' # queues
    <3> DEFINE r == call.registry
               longer == queues[r] \o call.attesters
    <3>1. queues' = [queues EXCEPT ![r] = longer]
      BY <1>2, <2>2
    <3>2. r \in Registries => longer \in Seq(Attesters)
      BY <1>3
    <3> HIDE DEF r, longer
    <3> QED BY <1>3, <3>1, <3>2
  <2> QED BY <2>1, <2>2
<1>5. WorldType'
  BY <1>4 DEF Execute, WInv, WorldType
<1> QED BY <1>1, <1>5, UploadsStay DEF Execute, Told

\* The registry stakes an attester: one event more.
LEMMA StakeLogs ==
  ASSUME WInv, Stake
  PROVE  \E e \in [attester : Attesters, coinbase : Coinbase \cup {Zero}] : events' = Append(events, e)
<1> DEFINE a == Head(queues["native"])
<1>1. queues["native"] \in Seq(Attesters)
  BY WorldAssumption DEF WInv, WorldType
<1>2. a \in Attesters
  BY <1>1, HeadOfTodo DEF Stake
<1>3. PICK c \in Splits[a] : events' = Append(events, [attester |-> a, coinbase |-> c])
  BY DEF Stake
<1>4. c \in Coinbase \cup {Zero}
  BY <1>2, WorkflowAssumption
<1> QED BY <1>2, <1>3, <1>4

LEMMA StakeStays ==
  ASSUME WInv, Stake
  PROVE  WInv' /\ (PInv => PInv') /\ (RInv => RInv')
<1>1. events' \in Events
  <2> DEFINE E == [attester : Attesters, coinbase : Coinbase \cup {Zero}]
  <2>1. PICK e \in E : events' = Append(events, e)
    BY StakeLogs
  <2>2. events \in Seq(E)
    BY DEF WInv, WorldType, Events
  <2> HIDE DEF E
  <2>3. events' \in Seq(E)
    BY <2>1, <2>2
  <2> QED BY <2>3 DEF Events, E
<1>2. queues' \in [Registries -> Seq(Attesters)]
  <2>1. queues \in [Registries -> Seq(Attesters)] /\ "native" \in Registries
    BY WorldAssumption DEF WInv, WorldType
  <2>2. Tail(queues["native"]) \in Seq(Attesters)
    BY <2>1, HeadOfTodo DEF Stake
  <2>3. queues' = [queues EXCEPT !["native"] = Tail(queues["native"])]
    BY DEF Stake
  <2> QED BY <2>1, <2>2, <2>3
<1>3. WorldType' /\ UNCHANGED <<uploadVars, publicKeys, addresses, urls, faults>>
  BY <1>1, <1>2 DEF Stake, WInv, WorldType
<1> QED BY <1>3, UploadsStay DEF uploadVars, WInv, SecretType, Told

\* Of the uploads nothing is disturbed but by an upload.
LEMMA UploadsHold ==
  ASSUME WInv, PInv, RInv, [Next]_vars
  PROVE  WInv' /\ PInv' /\ RInv'
<1>1. CASE \E o \in Operators : UploadNext(o)
  BY <1>1, UploadTypes, UploadPending, UploadTracks
<1>2. CASE CacheNext /\ UNCHANGED <<uploadVars, outputs>>
  BY <1>2, CacheWorld, WorldStays
<1>3. ASSUME NEW p \in Operators, PrepareStarts(p) \/ PrepareWrites(p)
      PROVE  WInv' /\ PInv' /\ RInv'
  <2>1. UNCHANGED uploadVars /\ (UNCHANGED worldVars
          \/ (UNCHANGED notGiven /\ \E command : Gives(command)))
    BY <1>3 DEF PrepareStarts, PrepareWrites
  <2> QED BY <2>1, WorldStays
<1>4. ASSUME NEW s \in Servers, Deploy(s) PROVE WInv' /\ PInv' /\ RInv'
  <2>1. UNCHANGED uploadVars /\ UNCHANGED worldVars
    BY <1>4 DEF Deploy
  <2> QED BY <2>1, WorldStays
<1>5. CASE Execute
  BY <1>5, ExecuteStays
<1>6. CASE Stake
  BY <1>6, StakeStays
<1>7. CASE UNCHANGED vars
  <2>1. UNCHANGED uploadVars /\ UNCHANGED worldVars
    BY <1>7 DEF vars
  <2> QED BY <2>1, WorldStays
<1> QED BY <1>1, <1>2, <1>3, <1>4, <1>5, <1>6, <1>7 DEF Next

\* At the beginning nothing is stored but the publishers of the files.
LEMMA UploadsBegin == Init => WInv /\ PInv /\ RInv
<1> SUFFICES ASSUME Init PROVE WInv /\ PInv /\ RInv
  OBVIOUS
<1> DEFINE name(p) == SecretName(Entry("pub-eth", p), None)
<1>1. PICK s \in Situations :
        /\ commands = s.commands /\ urls = s.urls /\ providers = s.providers /\ queues = s.queues
        /\ events = s.events /\ addresses = s.addresses /\ files = s.files
  BY DEF Init
<1>2. /\ s.urls \in BOOLEAN /\ s.providers \subseteq Registries /\ s.queues \in [Registries -> Seq(Attesters)]
      /\ s.events \in Events /\ s.addresses \subseteq Publishers
  BY WorkflowAssumption
<1>3. WorldType
  BY <1>1, <1>2, WorldAssumption DEF Init, WorldType
<1>4. \A p \in Publishers : name(p) = [group |-> "pub-eth", id |-> None, key |-> p]
  BY DEF SecretName, Entry
<1>5. secrets = [n \in {name(p) : p \in addresses} |-> 1] /\ signer = {} /\ generated = addresses
      /\ proposals = <<>> /\ uploads = [o \in Operators |-> None] /\ overlapped = FALSE
  BY DEF Init, UploadInit
<1>6. \A n \in DOMAIN secrets : n \in SecretNames /\ n.id = None /\ n.group = "pub-eth"
                                /\ n.key \in addresses /\ secrets[n] = 1
  BY <1>1, <1>2, <1>4, <1>5 DEF SecretNames
<1>7. SecretType
  <2>1. secrets \in [DOMAIN secrets -> Nat]
    BY <1>5
  <2>2. DOMAIN secrets \subseteq SecretNames
    <3> HIDE DEF name
    <3> QED BY <1>6
  <2>3. signer \subseteq {n \in DOMAIN secrets : secrets[n] > 0} /\ proposals \in Seq(Proposal)
        /\ generated \subseteq Publishers
    BY <1>1, <1>2, <1>5
  <2>4. \E k \in Nat : \A n \in DOMAIN secrets : n.id # None => n.id <= k
    <3> HIDE DEF name
    <3>1. \A n \in DOMAIN secrets : n.id # None => n.id <= 0
      BY <1>6
    <3> QED BY <3>1
  <2> QED BY <2>1, <2>2, <2>3, <2>4 DEF SecretType
<1>8. WInv
  BY <1>3, <1>5, <1>7 DEF WInv, UploadType
<1>9. ASSUME NEW p \in addresses PROVE Entry("pub-eth", p) \in StoredEntries
  <2>1. name(p) \in DOMAIN secrets /\ p \in Publishers
    BY <1>1, <1>2, <1>5
  <2>2. name(p).group = "pub-eth" /\ name(p).key = p /\ secrets[name(p)] = 1
    BY <1>4, <1>6, <2>1
  <2>3. Entry("pub-eth", p).group = "pub-eth" /\ Entry("pub-eth", p).key = p
        /\ Entry("pub-eth", p) \in Keyed
    BY <2>1 DEF Entry, Keyed
  <2> HIDE DEF name
  <2>4. name(p) \in Named(Entry("pub-eth", p))
    BY <2>1, <2>2, <2>3 DEF Named, InGroup
  <2> QED BY <2>2, <2>3, <2>4 DEF StoredEntries, Stored
<1>10. PInv
  BY <1>5, <1>9 DEF PInv, Written, PublisherEntries, Init
<1>11. RInv
  <2>1. \A n, m \in DOMAIN secrets : n # m => n.key # m.key
    <3> HIDE DEF name
    <3>1. \A n \in DOMAIN secrets : \E p \in Publishers : n = name(p) /\ n.key = p
      BY <1>1, <1>2, <1>4, <1>5
    <3> QED BY <3>1
  <2>2. \A n, m \in DOMAIN secrets : n # m => <<n.group, n.key>> # <<m.group, m.key>>
    BY <2>1
  <2>3. Distinct
    BY <1>6, <2>2 DEF Distinct
  <2> QED BY <1>5, <2>3 DEF RInv, Alone
<1> QED BY <1>8, <1>10, <1>11

------------------------------------------------------------------------------
(* Caches, files and the commands that are under way with them *)

\* A cache holds nothing but what happened, and all of what happened to an
\* attester that it covers.
Caches(log) ==
  {c \in [last : 0..Len(log), mappings : SUBSET PastOf(log), covered : SUBSET Attesters] :
     \A b \in 1..c.last : log[b].attester \in c.covered => log[b].attester \in Mapped(c.mappings)}

Files(log) == {f \in File : Sound(f, log)}

\* A full scrape begins at the first block, an incremental one behind its cache;
\* what is saved was read up to a block that is known.
Consistent(job) ==
  /\ job.mode = "full" => job.from = 1
  /\ job.mode = "full" /\ job.phase = "cache" => job.to # None
  /\ job.mode = "incremental" /\ job.phase = "cache" => job.from = 1
  /\ job.mode = "range" => job.phase \in {"block", "file"}
  /\ job.phase = "save" => job.to # None
  /\ job.mode = "incremental" /\ job.phase \in {"block", "save"} =>
       job.base # None /\ job.from = job.base.last + 1

ScrapeT(log) ==
  [command : {"scrape"}, mode : {"incremental", "full", "range"}, filter : SUBSET Attesters,
   server : Servers \cup {None}, keys : Files(log), base : Caches(log) \cup {None},
   from : Nat \ {0}, to : (0..Len(log)) \cup {None}, mappings : SUBSET PastOf(log),
   phase : {"cache", "block", "save", "file"}]

Scrapes(log) == {j \in ScrapeT(log) : Consistent(j)}

Fills(log) ==
  [command : {"fill"}, phase : {"cache", "write"}, server : Servers, keys : Files(log)]

CreatedIn(log, c) == Min({i \in 1..Len(log) : log[i].coinbase = c})

\* ClaimsFindSplits of one search.
Found(job, log) ==
  \A c \in Coinbases(job.mappings) :
    (\/ FirstMapped(job.mappings, c) = CreatedIn(log, c)
     \/ job.configured # None /\ job.configured <= CreatedIn(log, c))
    => c \in job.splits

Evaluations(log) ==
  {j \in [command : {"evaluate"}, phase : {"splits", "rows"}, mappings : SUBSET PastOf(log),
          configured : Nat \cup {None}, splits : SUBSET Coinbase] :
     j.phase = "rows" => Found(j, log)}

Prepared(log) == [server : Servers, version : Nat \ {0}, validators : Files(log)]

Preparations(log) == [command : {"prepare"}, phase : {"write"}, todo : Seq(Prepared(log)) \ {<<>>}]

Jobs(log) == Scrapes(log) \cup Fills(log) \cup Evaluations(log) \cup Preparations(log)

CallT == {"claim", "distribute", "withdraw"} \X (Coinbase \cup {None})

XInv ==
  /\ cache \in {None, Torn} \cup Caches(events)
  /\ jobs \in [Processes -> Jobs(events) \cup {None}]
  /\ files \in [Servers -> Files(events)]
  /\ outputs \in [Servers -> Seq(Files(events))]
  /\ claims \subseteq CallT

\* The events of one history begin another.
Begin(log, longer) == Len(log) <= Len(longer) /\ \A i \in 1..Len(log) : longer[i] = log[i]

LEMMA PastGrows ==
  ASSUME NEW log \in Events, NEW longer \in Events, Begin(log, longer)
  PROVE  PastOf(log) \subseteq PastOf(longer) /\ Range(log) \subseteq Range(longer)
<1>1. Len(log) \in Nat /\ Len(longer) \in Nat /\ DOMAIN log = 1..Len(log) /\ DOMAIN longer = 1..Len(longer)
  BY DEF Events
<1>2. \A i \in 1..Len(log) : i \in 1..Len(longer) /\ longer[i] = log[i]
  BY <1>1 DEF Begin
<1>3. \A i \in 1..Len(log) : MappingIn(log, i) = MappingIn(longer, i)
  BY <1>2 DEF MappingIn
<1>4. PastOf(log) \subseteq PastOf(longer)
  BY <1>2, <1>3 DEF PastOf
<1>5. Range(log) \subseteq Range(longer)
  BY <1>1, <1>2 DEF Range
<1> QED BY <1>4, <1>5

LEMMA FilesGrow ==
  ASSUME NEW log \in Events, NEW longer \in Events, Begin(log, longer)
  PROVE  Files(log) \subseteq Files(longer)
BY PastGrows DEF Files, Sound

LEMMA CachesGrow ==
  ASSUME NEW log \in Events, NEW longer \in Events, Begin(log, longer)
  PROVE  Caches(log) \subseteq Caches(longer)
<1> SUFFICES ASSUME NEW c \in Caches(log) PROVE c \in Caches(longer)
  OBVIOUS
<1>1. Len(log) \in Nat /\ Len(longer) \in Nat /\ Len(log) <= Len(longer)
  BY PastType DEF Begin
<1>2. c \in [last : 0..Len(longer), mappings : SUBSET PastOf(longer), covered : SUBSET Attesters]
  BY <1>1, PastGrows DEF Caches
<1>3. \A b \in 1..c.last : longer[b] = log[b]
  BY <1>1 DEF Begin, Caches
<1> QED BY <1>2, <1>3 DEF Caches

\* A coinbase that somebody was staked with was created once and for all.
LEMMA CreatedStays ==
  ASSUME NEW log \in Events, NEW longer \in Events, Begin(log, longer),
         NEW b \in 1..Len(log), NEW c, c = log[b].coinbase
  PROVE  CreatedIn(longer, c) = CreatedIn(log, c)
<1> DEFINE S == {i \in 1..Len(log) : log[i].coinbase = c}
           T == {i \in 1..Len(longer) : longer[i].coinbase = c}
<1>1. Len(log) \in Nat /\ Len(longer) \in Nat /\ Len(log) <= Len(longer)
      /\ \A i \in 1..Len(log) : longer[i] = log[i]
  BY PastType DEF Begin
<1>2. S \in SUBSET Nat /\ T \in SUBSET Nat /\ b \in S /\ S \subseteq T
      /\ \A i \in T : i > Len(log) \/ i \in S
  BY <1>1
<1>3. \A i \in S : i <= Len(log)
  BY <1>1
<1>4. CreatedIn(longer, c) = Min(T) /\ CreatedIn(log, c) = Min(S)
  BY DEF CreatedIn
<1> HIDE DEF S, T
<1>5. Min(S) \in S /\ \A y \in S : Min(S) <= y
  BY <1>2, MinOf
<1>6. Min(T) \in T /\ \A y \in T : Min(T) <= y
  BY <1>2, MinOf
<1> DEFINE x == Min(S)
           y == Min(T)
<1>7. /\ x \in Nat /\ y \in Nat /\ x \in S /\ y \in T /\ x \in T /\ y <= x /\ x <= Len(log)
  BY <1>2, <1>3, <1>5, <1>6
<1>8. \A i \in S : x <= i
  BY <1>5
<1> HIDE DEF x, y
<1>9. y \in S
  BY <1>1, <1>2, <1>7
<1>10. x <= y
  BY <1>8, <1>9
<1>11. x = y
  BY <1>7, <1>10
<1> QED BY <1>4, <1>11 DEF x, y

LEMMA JobsGrow ==
  ASSUME NEW log \in Events, NEW longer \in Events, Begin(log, longer)
  PROVE  Jobs(log) \subseteq Jobs(longer)
<1>1. /\ PastOf(log) \subseteq PastOf(longer) /\ Files(log) \subseteq Files(longer)
      /\ Caches(log) \subseteq Caches(longer) /\ 0..Len(log) \subseteq 0..Len(longer)
  <2>1. Len(log) \in Nat /\ Len(longer) \in Nat /\ Len(log) <= Len(longer)
    BY PastType DEF Begin
  <2> QED BY <2>1, PastGrows, FilesGrow, CachesGrow
<1>2. Scrapes(log) \subseteq Scrapes(longer)
  BY <1>1 DEF Scrapes, ScrapeT
<1>3. Fills(log) \subseteq Fills(longer)
  BY <1>1 DEF Fills
<1>4. Preparations(log) \subseteq Preparations(longer)
  <2>1. Prepared(log) \subseteq Prepared(longer)
    BY <1>1 DEF Prepared
  <2>2. Seq(Prepared(log)) \subseteq Seq(Prepared(longer))
    BY <2>1
  <2> QED BY <2>2 DEF Preparations
<1>5. ASSUME NEW j \in Evaluations(log) PROVE j \in Evaluations(longer)
  <2>1. j \in [command : {"evaluate"}, phase : {"splits", "rows"}, mappings : SUBSET PastOf(longer),
               configured : Nat \cup {None}, splits : SUBSET Coinbase]
    BY <1>1 DEF Evaluations
  <2>2. ASSUME j.phase = "rows" PROVE Found(j, longer)
    <3>1. Found(j, log) /\ j.mappings \in SUBSET PastOf(log)
      BY <2>2 DEF Evaluations
    <3>2. ASSUME NEW c \in Coinbases(j.mappings) PROVE CreatedIn(longer, c) = CreatedIn(log, c)
      <4>1. PICK m \in j.mappings : m.coinbase = c
        BY DEF Coinbases
      <4>2. m.block \in 1..Len(log) /\ log[m.block].coinbase = c
        BY <3>1, <4>1, PastType DEF MappingIn
      <4> QED BY <4>2, CreatedStays
    <3> QED BY <3>1, <3>2 DEF Found
  <2> QED BY <2>1, <2>2 DEF Evaluations
<1> QED BY <1>2, <1>3, <1>4, <1>5 DEF Jobs

------------------------------------------------------------------------------
(* The files that the commands make *)

ValidatorT == [attester : Attesters, coinbase : Coinbase \cup {None, Zero, Fallback},
               publisher : Publishers \cup {None}]

\* Where the rewards of an attester may go.
Allowed(a, c, log) ==
  \/ c \in {None, Fallback}
  \/ \E e \in Range(log) : e = [attester |-> a, coinbase |-> c] /\ e.coinbase # Zero

LEMMA FileHas ==
  ASSUME NEW log \in Events, NEW f \in Files(log)
  PROVE  /\ Len(f) \in Nat /\ DOMAIN f = 1..Len(f) /\ f \in [1..Len(f) -> ValidatorT]
         /\ IsInjective([i \in 1..Len(f) |-> f[i].attester])
         /\ \A i \in 1..Len(f) : Allowed(f[i].attester, f[i].coinbase, log)
<1>1. f \in Seq(ValidatorT) /\ Sound(f, log)
  BY DEF Files, File, ValidatorT
<1> HIDE DEF ValidatorT
<1>2. Len(f) \in Nat /\ DOMAIN f = 1..Len(f) /\ f \in [1..Len(f) -> ValidatorT]
  BY <1>1
<1> QED BY <1>1, <1>2 DEF Sound, Allowed

LEMMA FileIs ==
  ASSUME NEW log \in Events, NEW n \in Nat, NEW f \in [1..n -> ValidatorT],
         IsInjective([i \in 1..n |-> f[i].attester]),
         \A i \in 1..n : Allowed(f[i].attester, f[i].coinbase, log)
  PROVE  f \in Files(log)
<1>1. f \in File
  <2> HIDE DEF ValidatorT
  <2>1. f \in Seq(ValidatorT)
    OBVIOUS
  <2> QED BY <2>1 DEF File, ValidatorT
<1> QED BY <1>1 DEF Files, Sound, Allowed

LEMMA CachedAllowed ==
  ASSUME NEW log \in Events, NEW mappings \in SUBSET PastOf(log), NEW a
  PROVE  /\ CachedCoinbase(mappings, a) \in Coinbase \cup {None, Zero}
         /\ CachedCoinbase(mappings, a) # Zero => Allowed(a, CachedCoinbase(mappings, a), log)
<1> DEFINE c == CachedCoinbase(mappings, a)
<1>1. CASE c = None
  BY <1>1 DEF Allowed
<1>2. CASE c # None
  <2>1. PICK m \in mappings : m.attester = a /\ c = m.coinbase
    BY <1>2, CachedIs
  <2>2. m \in MappingT /\ m.block \in 1..Len(log) /\ m = MappingIn(log, m.block)
    BY PastType
  <2> HIDE DEF c
  <2> DEFINE e == log[m.block]
  <2>3. e \in [attester : Attesters, coinbase : Coinbase \cup {Zero}] /\ e \in Range(log)
    <3> DEFINE E == [attester : Attesters, coinbase : Coinbase \cup {Zero}]
    <3>1. log \in Seq(E)
      BY DEF Events
    <3> HIDE DEF E
    <3>2. DOMAIN log = 1..Len(log) /\ e \in E
      BY <2>2, <3>1
    <3> QED BY <2>2, <3>2 DEF E, Range
  <2>4. e.attester = a /\ e.coinbase = c
    BY <2>1, <2>2 DEF MappingIn
  <2> HIDE DEF e
  <2>5. e = [attester |-> a, coinbase |-> c] /\ c \in Coinbase \cup {Zero}
    BY <2>3, <2>4
  <2> QED BY <2>3, <2>4, <2>5 DEF Allowed, c
<1> QED BY <1>1, <1>2

\* Another coinbase for some of the validators of a file.
LEMMA Rewritten ==
  ASSUME NEW log \in Events, NEW keys \in Files(log), NEW coinbase,
         \A i \in 1..Len(keys) :
           /\ coinbase[i] \in Coinbase \cup {None, Zero, Fallback}
           /\ Allowed(keys[i].attester, coinbase[i], log)
  PROVE  [i \in DOMAIN keys |-> [keys[i] EXCEPT !.coinbase = coinbase[i]]] \in Files(log)
<1> DEFINE n == Len(keys)
           f == [i \in 1..n |-> [keys[i] EXCEPT !.coinbase = coinbase[i]]]
<1>1. /\ n \in Nat /\ DOMAIN keys = 1..n /\ keys \in [1..n -> ValidatorT]
      /\ IsInjective([i \in 1..n |-> keys[i].attester])
  BY FileHas
<1>2. ASSUME NEW i \in 1..n
      PROVE  f[i] \in ValidatorT /\ f[i].attester = keys[i].attester /\ f[i].coinbase = coinbase[i]
  <2>1. keys[i] \in ValidatorT /\ f[i] = [keys[i] EXCEPT !.coinbase = coinbase[i]]
    BY <1>1
  <2> QED BY <2>1 DEF ValidatorT
<1>3. f \in [1..n -> ValidatorT]
  BY <1>2
<1>4. [i \in 1..n |-> f[i].attester] = [i \in 1..n |-> keys[i].attester]
  BY <1>2
<1>5. \A i \in 1..n : Allowed(f[i].attester, f[i].coinbase, log)
  BY <1>2
<1> HIDE DEF f, n
<1>6. f \in Files(log)
  BY <1>1, <1>3, <1>4, <1>5, FileIs
<1> QED BY <1>1, <1>6 DEF f, n

LEMMA CorrectedIs ==
  ASSUME NEW log \in Events, NEW keys \in Files(log), NEW mappings \in SUBSET PastOf(log)
  PROVE  Corrected(keys, mappings) \in Files(log)
<1> DEFINE cached(i) == CachedCoinbase(mappings, keys[i].attester)
           place(i) == IF cached(i) \in {None, Zero} THEN keys[i].coinbase ELSE cached(i)
           coinbase == [i \in 1..Len(keys) |-> place(i)]
<1>1. DOMAIN keys = 1..Len(keys) /\ keys \in [1..Len(keys) -> ValidatorT]
      /\ \A i \in 1..Len(keys) : Allowed(keys[i].attester, keys[i].coinbase, log)
  BY FileHas
<1>2. ASSUME NEW i \in 1..Len(keys)
      PROVE  /\ coinbase[i] \in Coinbase \cup {None, Zero, Fallback}
             /\ Allowed(keys[i].attester, coinbase[i], log)
             /\ [keys[i] EXCEPT !.coinbase = coinbase[i]] =
                  IF cached(i) \in {None, Zero} THEN keys[i] ELSE [keys[i] EXCEPT !.coinbase = cached(i)]
  <2>1. keys[i] \in ValidatorT /\ coinbase[i] = place(i)
    BY <1>1
  <2>2. cached(i) \in Coinbase \cup {None, Zero}
        /\ (cached(i) # Zero => Allowed(keys[i].attester, cached(i), log))
    BY CachedAllowed
  <2> HIDE DEF cached, coinbase
  <2> QED BY <1>1, <2>1, <2>2 DEF ValidatorT
<1> HIDE DEF coinbase
<1>3. [i \in DOMAIN keys |-> [keys[i] EXCEPT !.coinbase = coinbase[i]]] \in Files(log)
  BY <1>2, Rewritten
<1>4. Corrected(keys, mappings) = [i \in DOMAIN keys |-> [keys[i] EXCEPT !.coinbase = coinbase[i]]]
  BY <1>1, <1>2 DEF Corrected
<1> QED BY <1>3, <1>4

LEMMA FilledIs ==
  ASSUME NEW log \in Events, NEW keys \in Files(log), NEW mappings \in SUBSET PastOf(log)
  PROVE  Filled(keys, mappings) \in Files(log)
<1> DEFINE cached(i) == CachedCoinbase(mappings, keys[i].attester)
           stays(i) == keys[i].coinbase # None \/ cached(i) = Zero
           place(i) == IF stays(i) THEN keys[i].coinbase ELSE cached(i)
           coinbase == [i \in 1..Len(keys) |-> place(i)]
<1>1. DOMAIN keys = 1..Len(keys) /\ keys \in [1..Len(keys) -> ValidatorT]
      /\ \A i \in 1..Len(keys) : Allowed(keys[i].attester, keys[i].coinbase, log)
  BY FileHas
<1>2. ASSUME NEW i \in 1..Len(keys)
      PROVE  /\ coinbase[i] \in Coinbase \cup {None, Zero, Fallback}
             /\ Allowed(keys[i].attester, coinbase[i], log)
             /\ [keys[i] EXCEPT !.coinbase = coinbase[i]] =
                  IF stays(i) THEN keys[i] ELSE [keys[i] EXCEPT !.coinbase = cached(i)]
  <2>1. keys[i] \in ValidatorT /\ coinbase[i] = place(i)
    BY <1>1
  <2>2. cached(i) \in Coinbase \cup {None, Zero}
        /\ (cached(i) # Zero => Allowed(keys[i].attester, cached(i), log))
    BY CachedAllowed
  <2> HIDE DEF cached, coinbase
  <2> QED BY <1>1, <2>1, <2>2 DEF ValidatorT
<1> HIDE DEF coinbase
<1>3. [i \in DOMAIN keys |-> [keys[i] EXCEPT !.coinbase = coinbase[i]]] \in Files(log)
  BY <1>2, Rewritten
<1>4. Filled(keys, mappings) = [i \in DOMAIN keys |-> [keys[i] EXCEPT !.coinbase = coinbase[i]]]
  BY <1>1, <1>2 DEF Filled
<1> QED BY <1>3, <1>4

\* The mappings of the cache that ChosenCoinbase looks at are true.
LEMMA ChosenAllowed ==
  ASSUME events \in Events, cache \in {None, Torn} \cup Caches(events),
         NEW a \in Attesters, NEW existing \in Coinbase \cup {None, Zero, Fallback},
         Allowed(a, existing, events)
  PROVE  /\ ChosenCoinbase(existing, a) \in Coinbase \cup {None, Zero, Fallback}
         /\ ChosenCoinbase(existing, a) # Zero => Allowed(a, ChosenCoinbase(existing, a), events)
<1> DEFINE cached == IF cache \in {None, Torn} THEN None ELSE CachedCoinbase(cache.mappings, a)
<1>1. /\ cached \in Coinbase \cup {None, Zero}
      /\ cached # Zero => Allowed(a, cached, events)
  <2>1. CASE cache \in {None, Torn}
    BY <2>1 DEF Allowed
  <2>2. CASE cache \notin {None, Torn}
    <3>1. cache.mappings \in SUBSET PastOf(events)
      BY <2>2 DEF Caches
    <3> QED BY <2>2, <3>1, CachedAllowed
  <2> QED BY <2>1, <2>2
<1> HIDE DEF cached
<1>2. ChosenCoinbase(existing, a) = IF existing # None THEN existing
                                    ELSE IF cached # None THEN cached ELSE Fallback
  BY DEF ChosenCoinbase, cached
<1>3. Allowed(a, Fallback, events)
  BY DEF Allowed
<1> QED BY <1>1, <1>2, <1>3

\* The new file names nobody twice, and the refusal of the zero address leaves
\* nobody without a place for his rewards.
LEMMA MergedIs ==
  ASSUME events \in Events, cache \in {None, Torn} \cup Caches(events),
         NEW production \in Files(events), NEW new \in Seq(Attesters),
         NEW publishers \in Seq(Publishers), publishers # <<>>,
         AllDistinct(production, new),
         \A i \in DOMAIN Merged(production, new) : Merged(production, new)[i].coinbase # Zero
  PROVE  Assigned(Merged(production, new), publishers) \in Files(events)
<1> DEFINE p == Len(production)
           n == Len(new)
           old == [i \in DOMAIN production |->
                     Validator(production[i].attester,
                       ChosenCoinbase(production[i].coinbase, production[i].attester), None)]
           added == [i \in DOMAIN new |-> Validator(new[i], ChosenCoinbase(None, new[i]), None)]
           all == old \o added
           names == [i \in DOMAIN production |-> production[i].attester] \o new
           out == Assigned(all, publishers)
           who(i) == names[i]
<1>1. /\ p \in Nat /\ DOMAIN production = 1..p /\ production \in [1..p -> ValidatorT]
      /\ \A i \in 1..p : Allowed(production[i].attester, production[i].coinbase, events)
  BY FileHas
<1>2. n \in Nat /\ DOMAIN new = 1..n /\ \A i \in 1..n : new[i] \in Attesters
  OBVIOUS
<1>3. ASSUME NEW a \in Attesters, NEW c \in Coinbase \cup {None, Zero, Fallback}, Allowed(a, c, events),
             NEW v, v = Validator(a, ChosenCoinbase(c, a), None)
      PROVE  v \in ValidatorT /\ v.attester = a /\ (v.coinbase # Zero => Allowed(a, v.coinbase, events))
  <2>1. /\ ChosenCoinbase(c, a) \in Coinbase \cup {None, Zero, Fallback}
        /\ ChosenCoinbase(c, a) # Zero => Allowed(a, ChosenCoinbase(c, a), events)
    BY <1>3, ChosenAllowed
  <2> QED BY <1>3, <2>1 DEF Validator, ValidatorT
<1>4. ASSUME NEW i \in 1..p
      PROVE  /\ old[i] \in ValidatorT /\ old[i].attester = production[i].attester
             /\ old[i].coinbase # Zero => Allowed(old[i].attester, old[i].coinbase, events)
  <2> DEFINE a == production[i].attester
             c == production[i].coinbase
             v == old[i]
  <2>1. a \in Attesters /\ c \in Coinbase \cup {None, Zero, Fallback} /\ Allowed(a, c, events)
    BY <1>1 DEF ValidatorT
  <2>2. v = Validator(a, ChosenCoinbase(c, a), None)
    BY <1>1
  <2> HIDE DEF a, c, v
  <2>3. v \in ValidatorT /\ v.attester = a /\ (v.coinbase # Zero => Allowed(a, v.coinbase, events))
    BY <1>3, <2>1, <2>2
  <2> QED BY <2>3 DEF a, v
<1>5. ASSUME NEW i \in 1..n
      PROVE  /\ added[i] \in ValidatorT /\ added[i].attester = new[i]
             /\ added[i].coinbase # Zero => Allowed(added[i].attester, added[i].coinbase, events)
  <2> DEFINE a == new[i]
             c == None
             v == added[i]
  <2>1. a \in Attesters /\ c \in Coinbase \cup {None, Zero, Fallback} /\ Allowed(a, c, events)
    BY <1>2 DEF Allowed
  <2>2. v = Validator(a, ChosenCoinbase(c, a), None)
    BY <1>2
  <2> HIDE DEF a, c, v
  <2>3. v \in ValidatorT /\ v.attester = a /\ (v.coinbase # Zero => Allowed(a, v.coinbase, events))
    BY <1>3, <2>1, <2>2
  <2> QED BY <2>3 DEF a, v
<1>6. old \in Seq(ValidatorT) /\ Len(old) = p /\ added \in Seq(ValidatorT) /\ Len(added) = n
  <2> HIDE DEF ValidatorT
  <2>1. old \in [1..p -> ValidatorT]
    <3>1. DOMAIN old = 1..p
      BY <1>1
    <3>2. old = [i \in 1..p |-> old[i]]
      BY <3>1
    <3> HIDE DEF old
    <3> QED BY <1>4, <3>2
  <2>2. added \in [1..n -> ValidatorT]
    <3>1. DOMAIN added = 1..n
      BY <1>2
    <3>2. added = [i \in 1..n |-> added[i]]
      BY <3>1
    <3> HIDE DEF added
    <3> QED BY <1>5, <3>2
  <2> HIDE DEF old, added, p, n
  <2> QED BY <1>1, <1>2, <2>1, <2>2
<1>7. /\ names \in Seq(Attesters) /\ Len(names) = p + n
      /\ \A i \in 1..p : names[i] = production[i].attester
      /\ \A i \in 1..n : names[p + i] = new[i]
  <2> DEFINE first == [i \in DOMAIN production |-> production[i].attester]
  <2>1. first \in Seq(Attesters) /\ Len(first) = p /\ \A i \in 1..p : first[i] = production[i].attester
    <3>1. \A i \in 1..p : production[i].attester \in Attesters
      BY <1>1 DEF ValidatorT
    <3> QED BY <1>1, <3>1
  <2> HIDE DEF first
  <2>2. names = first \o new
    BY DEF first
  <2> HIDE DEF names
  <2>3. /\ names \in Seq(Attesters)
        /\ Len(names) = Len(first) + Len(new)
        /\ \A i \in 1..Len(first) : names[i] = first[i]
        /\ \A i \in 1..Len(new) : names[Len(first) + i] = new[i]
    <3>1. first \in Seq(Attesters)
      BY <2>1
    <3> HIDE DEF p, n, old, added, out, who
    <3> QED BY <2>2, <3>1, Joined
  <2> QED BY <2>1, <2>3
<1> HIDE DEF old, added
<1>8. /\ all \in Seq(ValidatorT) /\ Len(all) = p + n
      /\ \A i \in 1..p : all[i] = old[i]
      /\ \A i \in 1..n : all[p + i] = added[i]
  <2> HIDE DEF ValidatorT
  <2>1. all = old \o added
    OBVIOUS
  <2> HIDE DEF all
  <2>2. /\ all \in Seq(ValidatorT)
        /\ Len(all) = Len(old) + Len(added)
        /\ \A i \in 1..Len(old) : all[i] = old[i]
        /\ \A i \in 1..Len(added) : all[Len(old) + i] = added[i]
    BY <1>6, <2>1, Joined
  <2> QED BY <1>6, <2>2
<1>9. all = Merged(production, new)
  BY DEF Merged, old, added
<1>10. ASSUME NEW i \in 1..(p + n)
       PROVE  /\ all[i] \in ValidatorT /\ all[i].attester = names[i]
              /\ Allowed(all[i].attester, all[i].coinbase, events)
  <2> HIDE DEF p, n, names
  <2>1. all[i].coinbase # Zero
    <3>1. DOMAIN all = 1..(p + n)
      BY <1>1, <1>2, <1>8
    <3> HIDE DEF all
    <3> QED BY <1>9, <3>1
  <2> HIDE DEF all
  <2>2. CASE i <= p
    <3>1. i \in 1..p
      BY <1>1, <2>2
    <3> QED BY <1>4, <1>7, <1>8, <2>1, <3>1
  <2>3. CASE ~(i <= p)
    <3>1. i - p \in 1..n /\ p + (i - p) = i
      BY <1>1, <1>2, <2>3
    <3>2. all[i] = added[i - p] /\ names[i] = new[i - p]
      BY <1>7, <1>8, <3>1
    <3> QED BY <1>5, <2>1, <3>1, <3>2
  <2> QED BY <2>2, <2>3
<1> DEFINE N == p + n
           to(i) == publishers[((i - 1) % Len(publishers)) + 1]
<1>11. N \in Nat /\ DOMAIN all = 1..N
  <2> HIDE DEF all, p, n
  <2> QED BY <1>1, <1>2, <1>8
<1>12. \A i \in 1..N : to(i) \in Publishers
  <2>1. Len(publishers) \in Nat \ {0} /\ DOMAIN publishers = 1..Len(publishers)
        /\ \A j \in 1..Len(publishers) : publishers[j] \in Publishers
    OBVIOUS
  <2> DEFINE L == Len(publishers)
  <2> HIDE DEF L, N
  <2>2. \A i \in 1..N : ((i - 1) % L) + 1 \in 1..L
    <3> TAKE i \in 1..N
    <3> DEFINE r == (i - 1) % L
    <3>1. r \in 0..(L - 1)
      BY <1>11, <2>1 DEF L
    <3> HIDE DEF r
    <3>2. L \in Nat
      BY <2>1 DEF L
    <3>3. r + 1 \in 1..L
      BY <3>1, <3>2
    <3> QED BY <3>3 DEF r
  <2> QED BY <2>1, <2>2 DEF L
<1> HIDE DEF all, N, to
<1>13. out = [i \in 1..N |-> [all[i] EXCEPT !.publisher = to(i)]]
  BY <1>11 DEF Assigned, to
<1>14. ASSUME NEW i \in 1..N
       PROVE  /\ out[i] \in ValidatorT /\ out[i].attester = names[i]
              /\ Allowed(out[i].attester, out[i].coinbase, events)
  <2>1. /\ all[i] \in ValidatorT /\ all[i].attester = names[i]
        /\ Allowed(all[i].attester, all[i].coinbase, events)
    BY <1>10 DEF N
  <2>2. out[i] = [all[i] EXCEPT !.publisher = to(i)] /\ to(i) \in Publishers
    BY <1>12, <1>13
  <2> HIDE DEF out, names
  <2>3. out[i] \in ValidatorT /\ out[i].attester = all[i].attester /\ out[i].coinbase = all[i].coinbase
    BY <2>1, <2>2 DEF ValidatorT
  <2> QED BY <2>1, <2>3
<1>15. out \in [1..N -> ValidatorT]
  <2> HIDE DEF ValidatorT
  <2>1. out = [i \in 1..N |-> out[i]]
    BY <1>13
  <2> HIDE DEF out
  <2> QED BY <1>14, <2>1
<1>16. IsInjective([i \in 1..N |-> out[i].attester])
  <2>1. IsInjective(names)
    BY DEF AllDistinct
  <2>2. names = [i \in 1..N |-> names[i]]
    <3> HIDE DEF names, p, n
    <3> QED BY <1>1, <1>2, <1>7 DEF N
  <2>3. [i \in 1..N |-> out[i].attester] = [i \in 1..N |-> names[i]]
    <3> HIDE DEF out, names
    <3> QED BY <1>14
  <2> QED BY <2>1, <2>2, <2>3
<1>17. out \in Files(events)
  <2> HIDE DEF out
  <2> QED BY <1>11, <1>14, <1>15, <1>16, FileIs
<1> QED BY <1>9, <1>17

------------------------------------------------------------------------------
(* What the commands do to caches, files and their own records *)

\* It is enough to look at the command that moves.
LEMMA JobMoves ==
  ASSUME XInv, NEW p \in Processes, NEW job \in Jobs(events) \cup {None},
         jobs' = [jobs EXCEPT ![p] = job], UNCHANGED events,
         cache' \in {None, Torn} \cup Caches(events), files' \in [Servers -> Files(events)],
         outputs' \in [Servers -> Seq(Files(events))], claims' \subseteq CallT
  PROVE  XInv'
<1>1. jobs' \in [Processes -> Jobs(events) \cup {None}]
  BY DEF XInv
<1> QED BY <1>1 DEF XInv

\* A command knows what it is.
LEMMA JobIs ==
  ASSUME XInv, NEW p \in Processes, NEW command, NEW phase, Phase(p, command, phase)
  PROVE  /\ jobs[p] \in Jobs(events) /\ jobs[p].command = command /\ jobs[p].phase = phase
         /\ command = "scrape" => jobs[p] \in Scrapes(events)
         /\ command = "fill" => jobs[p] \in Fills(events)
         /\ command = "evaluate" => jobs[p] \in Evaluations(events)
         /\ command = "prepare" => jobs[p] \in Preparations(events)
<1>1. jobs[p] \in Jobs(events) /\ jobs[p].command = command /\ jobs[p].phase = phase
  BY DEF XInv, Phase
<1>2. /\ \A j \in Scrapes(events) : j.command = "scrape"
      /\ \A j \in Fills(events) : j.command = "fill"
      /\ \A j \in Evaluations(events) : j.command = "evaluate"
      /\ \A j \in Preparations(events) : j.command = "prepare"
  BY DEF Scrapes, ScrapeT, Fills, Evaluations, Preparations
<1> QED BY <1>1, <1>2 DEF Jobs

LEMMA ScrapedIs ==
  ASSUME events \in Events, NEW from, NEW to, NEW filter
  PROVE  /\ Scraped(from, to, filter) \in SUBSET PastOf(events)
         /\ \A b \in 1..Len(events) :
              b \in from..to /\ (filter = {} \/ events[b].attester \in filter)
              => events[b].attester \in Mapped(Scraped(from, to, filter))
<1>1. Block = Len(events) /\ \A b : Mapping(b) = MappingIn(events, b)
  BY PastIs
<1>2. Scraped(from, to, filter) \in SUBSET PastOf(events)
  BY <1>1 DEF Scraped, PastOf
<1>3. ASSUME NEW b \in 1..Len(events), b \in from..to, filter = {} \/ events[b].attester \in filter
      PROVE  events[b].attester \in Mapped(Scraped(from, to, filter))
  <2>1. Mapping(b) \in Scraped(from, to, filter)
    BY <1>1, <1>3 DEF Scraped, Matches
  <2>2. Mapping(b).attester = events[b].attester
    BY DEF Mapping
  <2> QED BY <2>1, <2>2 DEF Mapped
<1> QED BY <1>2, <1>3

\* The keys files name attesters.
LEMMA NamedAre ==
  ASSUME events \in Events, files \in [Servers -> Files(events)], NEW s \in Servers
  PROVE  AttestersIn(s) \subseteq Attesters
<1> DEFINE f == files[s]
<1>1. f \in Files(events)
  OBVIOUS
<1> HIDE DEF f
<1>2. DOMAIN f = 1..Len(f) /\ f \in [1..Len(f) -> ValidatorT]
  BY <1>1, FileHas
<1>3. \A i \in DOMAIN f : f[i].attester \in Attesters
  BY <1>2 DEF ValidatorT
<1> QED BY <1>3 DEF AttestersIn, f

LEMMA NewScrape ==
  ASSUME events \in Events, NEW mode \in {"incremental", "full", "range"}, NEW filter \in SUBSET Attesters,
         NEW server \in Servers \cup {None}, NEW keys \in Files(events), NEW from \in Nat \ {0},
         mode = "range" \/ from = 1
  PROVE  Scrape(mode, filter, server, keys, from) \in Jobs(events)
<1> DEFINE j == Scrape(mode, filter, server, keys, from)
<1>1. j \in ScrapeT(events)
  BY DEF Scrape, ScrapeT
<1>2. /\ j.mode = mode /\ j.from = from /\ j.base = None
      /\ j.phase = IF mode = "incremental" THEN "cache" ELSE "block"
  BY DEF Scrape
<1> HIDE DEF j
<1>3. Consistent(j)
  BY <1>2 DEF Consistent
<1> QED BY <1>1, <1>3 DEF Jobs, Scrapes, j

LEMMA EmptyFile == \A log \in Events : <<>> \in Files(log)
<1> TAKE log \in Events
<1>1. <<>> \in [1..0 -> ValidatorT]
  BY SMT
<1>2. IsInjective([i \in 1..0 |-> <<>>[i].attester])
  BY DEF IsInjective
<1>3. \A i \in 1..0 : Allowed(<<>>[i].attester, <<>>[i].coinbase, log)
  BY SMT
<1> DEFINE f == <<>>
<1> HIDE DEF f
<1>4. f \in Files(log)
  BY <1>1, <1>2, <1>3, FileIs DEF f
<1> QED BY <1>4 DEF f

LEMMA ScrapeStartsHold ==
  ASSUME WInv, XInv, NEW p \in Processes, ScrapeStarts(p), UNCHANGED outputs
  PROVE  XInv'
<1>0. events \in Events /\ UNCHANGED events /\ Len(events) \in Nat
  BY PastType DEF WInv, WorldType, ScrapeStarts, notGiven, setting
<1>1. PICK mode \in {"incremental", "full", "range"}, server \in Servers \cup {None} :
        LET filter == IF server = None THEN UNION {AttestersIn(s) : s \in Servers}
                      ELSE AttestersIn(server)
        IN  /\ server # None => filter # {}
            /\ \E from \in IF mode = "range" THEN 1..(Block + 1) ELSE {1} :
                Begins(p, Scrape(mode, filter, server,
                                 IF server = None THEN <<>> ELSE files[server], from))
  BY DEF ScrapeStarts
<1> DEFINE filter == IF server = None THEN UNION {AttestersIn(s) : s \in Servers}
                     ELSE AttestersIn(server)
           keys == IF server = None THEN <<>> ELSE files[server]
<1>2. PICK from \in IF mode = "range" THEN 1..(Block + 1) ELSE {1} :
        Begins(p, Scrape(mode, filter, server, keys, from))
  BY <1>1
<1>3. from \in Nat \ {0} /\ (mode = "range" \/ from = 1)
  BY <1>0 DEF Block
<1>4. filter \in SUBSET Attesters
  BY <1>0, NamedAre DEF XInv
<1>5. keys \in Files(events)
  BY <1>0, EmptyFile DEF XInv
<1> HIDE DEF filter, keys
<1> DEFINE j == Scrape(mode, filter, server, keys, from)
<1>6. j \in Jobs(events)
  BY <1>0, <1>3, <1>4, <1>5, NewScrape
<1>7. jobs' = [jobs EXCEPT ![p] = j]
  BY <1>2 DEF Begins
<1> HIDE DEF j
<1> QED BY <1>0, <1>6, <1>7, JobMoves DEF ScrapeStarts, XInv

LEMMA AgentHolds ==
  ASSUME WInv, XInv, AgentScrapes, UNCHANGED outputs
  PROVE  XInv'
<1>0. events \in Events /\ UNCHANGED events
  BY DEF WInv, WorldType, AgentScrapes, notGiven, setting
<1> DEFINE j == Scrape("incremental", {}, None, <<>>, 1)
<1>1. j \in Jobs(events)
  BY <1>0, EmptyFile, NewScrape
<1>2. jobs' = [jobs EXCEPT ![Agent] = j] /\ Agent \in Processes
  BY DEF AgentScrapes, Begins, Processes
<1> HIDE DEF j
<1> QED BY <1>0, <1>1, <1>2, JobMoves DEF AgentScrapes, XInv

LEMMA LoadCacheHolds ==
  ASSUME WInv, XInv, NEW p \in Processes, LoadCache(p), UNCHANGED outputs
  PROVE  XInv'
<1> DEFINE j == jobs[p]
<1>0. events \in Events /\ UNCHANGED events
  BY DEF WInv, WorldType, LoadCache, worldVars, setting
<1>1. j \in Scrapes(events) /\ j.phase = "cache"
  BY JobIs DEF LoadCache
<1>2. j \in ScrapeT(events) /\ Consistent(j)
  BY <1>1 DEF Scrapes
<1>3. CASE cache = Torn
  <2>1. jobs' = [jobs EXCEPT ![p] = None]
    BY <1>3 DEF LoadCache, Ends
  <2> QED BY <1>0, <2>1, JobMoves DEF LoadCache, XInv
<1>4. CASE cache # Torn /\ j.mode = "full"
  <2> DEFINE new == [j EXCEPT !.base = cache, !.phase = "save"]
  <2>1. jobs' = [jobs EXCEPT ![p] = new]
    BY <1>4 DEF LoadCache, XInv
  <2>2. new \in ScrapeT(events)
    BY <1>2, <1>4 DEF ScrapeT, XInv
  <2>3. new.mode = "full" /\ new.phase = "save" /\ new.from = j.from /\ new.to = j.to
    BY <1>2, <1>4 DEF ScrapeT
  <2> HIDE DEF new
  <2>4. Consistent(new)
    BY <1>1, <1>2, <1>4, <2>3 DEF Consistent
  <2>5. new \in Jobs(events)
    BY <2>2, <2>4 DEF Jobs, Scrapes
  <2> QED BY <1>0, <2>1, <2>5, JobMoves DEF LoadCache, XInv
<1>5. CASE cache # Torn /\ j.mode = "incremental"
  <2> DEFINE mode == IF cache = None THEN "full" ELSE j.mode
             from == IF cache = None THEN j.from ELSE cache.last + 1
             new == [j EXCEPT !.base = cache, !.phase = "block", !.mode = mode, !.from = from]
  <2>1. jobs' = [jobs EXCEPT ![p] = new]
    BY <1>5 DEF LoadCache, XInv
  <2>2. from \in Nat \ {0}
    <3>1. CASE cache = None
      BY <1>2, <3>1 DEF ScrapeT
    <3>2. CASE cache # None
      <4>1. cache.last \in Nat
        BY <1>0, <1>5, <3>2, PastType DEF XInv, Caches
      <4> QED BY <3>2, <4>1
    <3> QED BY <3>1, <3>2
  <2>3. new \in ScrapeT(events)
    <3>1. mode \in {"incremental", "full", "range"} /\ cache \in Caches(events) \cup {None}
      BY <1>5 DEF XInv
    <3> HIDE DEF mode, from
    <3> QED BY <1>2, <2>2, <3>1 DEF ScrapeT
  <2>4. new.base = cache /\ new.phase = "block" /\ new.mode = mode /\ new.from = from
    BY <1>2 DEF ScrapeT
  <2> HIDE DEF new
  <2>5. Consistent(new)
    <3>1. cache # None => new.mode = "incremental" /\ new.from = cache.last + 1
      BY <1>5, <2>4
    <3>2. cache = None => new.mode = "full" /\ new.from = 1
      BY <1>1, <1>2, <1>5, <2>4 DEF Consistent
    <3> QED BY <2>4, <3>1, <3>2 DEF Consistent
  <2>6. new \in Jobs(events)
    BY <2>3, <2>5 DEF Jobs, Scrapes
  <2> QED BY <1>0, <2>1, <2>6, JobMoves DEF LoadCache, XInv
<1>6. j.mode \in {"full", "incremental"}
  BY <1>1, <1>2 DEF ScrapeT, Consistent
<1> QED BY <1>3, <1>4, <1>5, <1>6

LEMMA ReadBlockHolds ==
  ASSUME WInv, XInv, NEW p \in Processes, ReadBlock(p), UNCHANGED outputs
  PROVE  XInv'
<1> DEFINE j == jobs[p]
           read == [j EXCEPT !.to = Block]
<1>0. events \in Events /\ UNCHANGED events
  BY DEF WInv, WorldType, ReadBlock, worldVars, setting
<1>1. j \in ScrapeT(events) /\ Consistent(j) /\ j.phase = "block"
  BY JobIs DEF ReadBlock, Scrapes
<1>2. Block \in 0..Len(events) /\ Block # None
  BY <1>0, PastType, WorldAssumption DEF Block
<1>3. /\ read \in ScrapeT(events) /\ read.mode = j.mode /\ read.from = j.from /\ read.base = j.base
      /\ read.to = Block /\ read.filter = j.filter
  BY <1>1, <1>2 DEF ScrapeT
<1>4. jobs' = [jobs EXCEPT ![p] =
        CASE read.mode = "range" ->
               WithMappings(read, Scraped(read.from, Block, read.filter), "file")
          [] read.mode = "full" -> [read EXCEPT !.phase = "cache"]
          [] read.mode = "incremental" ->
               IF read.from > Block THEN WithMappings(read, read.base.mappings, "file")
               ELSE [read EXCEPT !.phase = "save"]]
  BY DEF ReadBlock
<1>5. ASSUME NEW job \in Jobs(events), jobs' = [jobs EXCEPT ![p] = job] PROVE XInv'
  BY <1>0, <1>5, JobMoves DEF ReadBlock, XInv
<1> HIDE DEF read
<1>6. ASSUME NEW mappings \in SUBSET PastOf(events),
             jobs' = [jobs EXCEPT ![p] = WithMappings(read, mappings, "file")]
      PROVE  XInv'
  <2> DEFINE new == WithMappings(read, mappings, "file")
  <2>1. new \in ScrapeT(events) /\ new.phase = "file" /\ new.mode = j.mode /\ new.from = j.from
    BY <1>3 DEF WithMappings, ScrapeT
  <2> HIDE DEF new
  <2>2. Consistent(new)
    BY <1>1, <2>1 DEF Consistent
  <2>3. new \in Jobs(events)
    BY <2>1, <2>2 DEF Jobs, Scrapes
  <2> QED BY <1>5, <1>6, <2>3 DEF new
<1>7. ASSUME NEW phase \in {"cache", "save"}, phase = "cache" => j.mode = "full",
             phase = "save" => j.mode = "incremental",
             jobs' = [jobs EXCEPT ![p] = [read EXCEPT !.phase = phase]]
      PROVE  XInv'
  <2> DEFINE new == [read EXCEPT !.phase = phase]
  <2>1. new \in ScrapeT(events) /\ new.phase = phase /\ new.mode = j.mode /\ new.from = j.from
        /\ new.base = j.base /\ new.to = Block
    BY <1>3 DEF ScrapeT
  <2> HIDE DEF new
  <2>2. Consistent(new)
    BY <1>1, <1>2, <1>7, <2>1 DEF Consistent
  <2>3. new \in Jobs(events)
    BY <2>1, <2>2 DEF Jobs, Scrapes
  <2> QED BY <1>5, <1>7, <2>3 DEF new
<1>8. CASE j.mode = "range"
  <2> DEFINE mappings == Scraped(read.from, Block, read.filter)
  <2>1. jobs' = [jobs EXCEPT ![p] = WithMappings(read, mappings, "file")]
    BY <1>3, <1>4, <1>8
  <2>2. mappings \in SUBSET PastOf(events)
    BY <1>0, ScrapedIs
  <2> HIDE DEF mappings
  <2> QED BY <1>6, <2>1, <2>2
<1>9. CASE j.mode = "full"
  BY <1>3, <1>4, <1>7, <1>9
<1>10. CASE j.mode = "incremental" /\ read.from > Block
  <2> DEFINE mappings == read.base.mappings
  <2>1. jobs' = [jobs EXCEPT ![p] = WithMappings(read, mappings, "file")]
    BY <1>3, <1>4, <1>10
  <2>2. j.base \in Caches(events)
    BY <1>1, <1>10 DEF Consistent, ScrapeT
  <2>3. mappings \in SUBSET PastOf(events)
    BY <1>3, <2>2 DEF Caches
  <2> HIDE DEF mappings
  <2> QED BY <1>6, <2>1, <2>3
<1>11. CASE j.mode = "incremental" /\ ~(read.from > Block)
  BY <1>3, <1>4, <1>7, <1>11
<1>12. j.mode \in {"incremental", "full", "range"}
  BY <1>1 DEF ScrapeT
<1> QED BY <1>8, <1>9, <1>10, <1>11, <1>12

\* What a scrape saves: it misses nobody of those whom it covers.
LEMMA SavedIs ==
  ASSUME events \in Events, NEW j \in ScrapeT(events), Consistent(j), j.phase = "save",
         Result(j) # None
  PROVE  Result(j) \in SUBSET PastOf(events) /\ Saved(j) \in Caches(events)
<1> DEFINE new == Scraped(j.from, j.to, j.filter)
           old == IF j.base = None THEN {} ELSE j.base.mappings
           asked == IF j.filter = {} THEN Attesters ELSE j.filter
<1>1. new \in SUBSET PastOf(events)
      /\ \A b \in 1..Len(events) :
           b \in j.from..j.to /\ (j.filter = {} \/ events[b].attester \in j.filter)
           => events[b].attester \in Mapped(new)
  BY ScrapedIs
<1>2. old \in SUBSET PastOf(events)
  BY DEF ScrapeT, Caches
<1> DEFINE result == Result(j)
<1>3. result \in SUBSET PastOf(events) /\ Mapped(result) = Mapped(old) \cup Mapped(new)
  <2>1. CASE j.base = None
    <3>1. result = new /\ Mapped(old) = {}
      BY <2>1 DEF Result, Mapped
    <3> HIDE DEF new, old, result
    <3> QED BY <1>1, <3>1
  <2>2. CASE j.base # None
    <3>1. result = Merge(old, new)
      BY <2>2 DEF Result
    <3> HIDE DEF new, old
    <3>2. LET merged == Merge(old, new) IN
          merged = None \/ (merged \in SUBSET PastOf(events)
                            /\ Mapped(merged) = Mapped(old) \cup Mapped(new))
      BY <1>1, <1>2, MergeIs
    <3> QED BY <3>1, <3>2
  <2> QED BY <2>1, <2>2
<1>4. /\ j.to \in 0..Len(events) /\ j.mode \in {"full", "incremental"} /\ j.from \in Nat \ {0}
      /\ j.mode = "full" => j.from = 1
      /\ j.mode = "incremental" =>
           j.base # None /\ j.from = j.base.last + 1 /\ j.base \in Caches(events)
  BY DEF Consistent, ScrapeT
<1>5. asked \in SUBSET Attesters
  BY DEF ScrapeT
<1>6. Len(events) \in Nat /\ \A b \in 1..Len(events) : events[b].attester \in Attesters
  BY PastType
<1> HIDE DEF result, new
<1>7. \A b \in 1..Len(events) : b \in j.from..j.to /\ events[b].attester \in asked
                                => events[b].attester \in Mapped(new)
  BY <1>1
<1>8. /\ Covered(j) \in SUBSET Attesters
      /\ \A b \in 1..j.to : events[b].attester \in Covered(j) => events[b].attester \in Mapped(result)
  <2>1. CASE j.mode = "full"
    <3>1. Covered(j) = asked
      BY <2>1 DEF Covered
    <3> HIDE DEF asked, old
    <3>2. \A b \in 1..j.to : b \in 1..Len(events) /\ b \in j.from..j.to
      BY <1>4, <1>6, <2>1
    <3> QED BY <1>3, <1>5, <1>7, <3>1, <3>2
  <2>2. CASE j.mode = "incremental"
    <3>1. Covered(j) = asked \cap j.base.covered
      BY <2>2 DEF Covered
    <3>2. old = j.base.mappings
      BY <1>4, <2>2
    <3>3. /\ j.base.last \in Nat
          /\ \A b \in 1..j.base.last : events[b].attester \in j.base.covered
                                       => events[b].attester \in Mapped(j.base.mappings)
      BY <1>4, <1>6, <2>2 DEF Caches
    <3> HIDE DEF asked, old
    <3>4. \A b \in 1..j.to : b \in 1..j.base.last \/ (b \in 1..Len(events) /\ b \in j.from..j.to)
      BY <1>4, <1>6, <2>2, <3>3
    <3> QED BY <1>3, <1>5, <1>7, <3>1, <3>2, <3>3, <3>4
  <2> QED BY <1>4, <2>1, <2>2
<1>9. Saved(j) = [last |-> j.to, mappings |-> result, covered |-> Covered(j)]
  BY DEF Saved, result
<1>10. Saved(j) \in Caches(events)
  BY <1>3, <1>4, <1>8, <1>9 DEF Caches
<1> QED BY <1>3, <1>10 DEF result

LEMMA SaveHolds ==
  ASSUME WInv, XInv, NEW p \in Processes, Save(p) \/ TearCache(p), UNCHANGED outputs
  PROVE  XInv'
<1> DEFINE j == jobs[p]
<1>0. events \in Events /\ UNCHANGED <<events, files, claims>>
  BY DEF WInv, WorldType, Save, TearCache, worldVars, setting, notFaults
<1>1. j \in ScrapeT(events) /\ Consistent(j) /\ j.phase = "save"
  BY JobIs DEF Save, TearCache, Scrapes
<1>2. CASE jobs' = [jobs EXCEPT ![p] = None] /\ cache' \in {cache, Torn}
  BY <1>0, <1>2, JobMoves DEF XInv
<1>3. CASE Save(p) /\ Result(j) # None
  <2> DEFINE new == WithMappings(j, Result(j), "file")
  <2>1. cache' = Saved(j) /\ jobs' = [jobs EXCEPT ![p] = new]
    BY <1>3 DEF Save, WithMappings, XInv
  <2>2. Result(j) \in SUBSET PastOf(events) /\ Saved(j) \in Caches(events)
    <3> HIDE DEF j
    <3> QED BY <1>0, <1>1, <1>3, SavedIs
  <2>3. new \in ScrapeT(events) /\ new.phase = "file" /\ new.mode = j.mode /\ new.from = j.from
    <3> DEFINE r == Result(j)
    <3> HIDE DEF r
    <3>1. r \in SUBSET PastOf(events) /\ new = WithMappings(j, r, "file")
      BY <2>2 DEF r
    <3> QED BY <1>1, <3>1 DEF WithMappings, ScrapeT
  <2> HIDE DEF new
  <2>4. Consistent(new)
    BY <1>1, <2>3 DEF Consistent
  <2>5. new \in Jobs(events)
    BY <2>3, <2>4 DEF Jobs, Scrapes
  <2> QED BY <1>0, <2>1, <2>2, <2>5, JobMoves DEF XInv
<1> QED BY <1>2, <1>3 DEF Save, TearCache, Ends

LEMMA UpdateFileHolds ==
  ASSUME WInv, XInv, NEW p \in Processes, UpdateFile(p), UNCHANGED outputs
  PROVE  XInv'
<1> DEFINE j == jobs[p]
           new == Corrected(j.keys, j.mappings)
<1>0. events \in Events /\ UNCHANGED <<events, cache, claims>> /\ jobs' = [jobs EXCEPT ![p] = None]
  BY DEF WInv, WorldType, UpdateFile, Ends, worldVars, setting
<1>1. j \in ScrapeT(events)
  BY JobIs DEF UpdateFile, Scrapes
<1>2. j.keys \in Files(events) /\ j.mappings \in SUBSET PastOf(events)
  BY <1>1 DEF ScrapeT
<1>3. new \in Files(events)
  <2> HIDE DEF j
  <2> QED BY <1>0, <1>2, CorrectedIs
<1>4. files' \in {files, [files EXCEPT ![j.server] = new]}
  BY DEF UpdateFile
<1> HIDE DEF new
<1>5. files' \in [Servers -> Files(events)]
  BY <1>3, <1>4 DEF XInv
<1> QED BY <1>0, <1>5, JobMoves DEF XInv

LEMMA FillHolds ==
  ASSUME WInv, XInv, NEW p \in Processes, FillStarts(p) \/ FillReads(p) \/ FillWrites(p),
         UNCHANGED outputs
  PROVE  XInv'
<1>0. events \in Events /\ UNCHANGED <<events, cache, claims>>
  BY DEF WInv, WorldType, FillStarts, FillReads, FillWrites, worldVars, notGiven, setting
<1>1. CASE FillStarts(p)
  <2>1. PICK s \in Servers :
          jobs' = [jobs EXCEPT ![p] =
            [command |-> "fill", phase |-> "cache", server |-> s, keys |-> files[s]]]
    BY <1>1 DEF FillStarts, Begins
  <2> DEFINE new == [command |-> "fill", phase |-> "cache", server |-> s, keys |-> files[s]]
  <2>2. new \in Jobs(events)
    BY DEF XInv, Fills, Jobs
  <2>3. UNCHANGED files
    BY <1>1 DEF FillStarts
  <2> HIDE DEF new
  <2> QED BY <1>0, <2>1, <2>2, <2>3, JobMoves DEF XInv, new
<1>2. CASE FillReads(p)
  <2> DEFINE j == jobs[p]
  <2>1. j \in Fills(events) /\ UNCHANGED files
    BY <1>2, JobIs DEF FillReads
  <2>2. CASE jobs' = [jobs EXCEPT ![p] = None]
    BY <1>0, <2>1, <2>2, JobMoves DEF XInv
  <2>3. CASE jobs' # [jobs EXCEPT ![p] = None]
    <3> DEFINE keys == Filled(j.keys, cache.mappings)
               new == [j EXCEPT !.keys = keys, !.phase = "write"]
    <3>1. cache \notin {None, Torn} /\ jobs' = [jobs EXCEPT ![p] = new]
      BY <1>2, <2>3 DEF FillReads, Ends, XInv
    <3>2. cache.mappings \in SUBSET PastOf(events) /\ j.keys \in Files(events)
      BY <2>1, <3>1 DEF XInv, Caches, Fills
    <3>3. keys \in Files(events)
      <4> HIDE DEF j
      <4> QED BY <1>0, <3>2, FilledIs
    <3> HIDE DEF keys
    <3>4. new \in Jobs(events)
      BY <2>1, <3>3 DEF Fills, Jobs
    <3> HIDE DEF new
    <3> QED BY <1>0, <2>1, <3>1, <3>4, JobMoves DEF XInv
  <2> QED BY <2>2, <2>3
<1>3. CASE FillWrites(p)
  <2>1. jobs[p] \in Fills(events)
    BY <1>3, JobIs DEF FillWrites
  <2>2. files' \in [Servers -> Files(events)] /\ jobs' = [jobs EXCEPT ![p] = None]
    BY <1>3, <2>1 DEF FillWrites, Ends, XInv, Fills
  <2> QED BY <1>0, <2>2, JobMoves DEF XInv
<1> QED BY <1>1, <1>2, <1>3

\* The ranges leave no block out.
LEMMA RangesCover ==
  ASSUME NEW from \in Nat, NEW to \in Nat, NEW b \in from..to
  PROVE  b \in UNION Ranges(from, to)
<1> DEFINE L == LogRange
           k == (b - from) \div L
           kL == k * L
           cursor == from + kL
           end == cursor + L - 1
<1>1. L \in Nat \ {0} /\ b - from \in Nat
  BY CacheAssumption
<1>2. k \in Nat /\ k <= b - from /\ kL \in Nat /\ kL <= b - from /\ b - from < kL + L
  <2> DEFINE x == b - from
  <2>1. x \in Nat
    BY <1>1
  <2> HIDE DEF x, L
  <2>2. x \div L \in Nat /\ (x \div L) <= x /\ (x \div L) * L <= x /\ x < (x \div L) * L + L
    BY <1>1, <2>1
  <2>3. (x \div L) * L \in Nat
    BY <1>1, <2>2
  <2> QED BY <2>2, <2>3 DEF x
<1> HIDE DEF kL
<1>3. cursor \in from..to /\ cursor <= b /\ b <= end /\ k \in 0..to
  <2> HIDE DEF L, k
  <2> QED BY <1>1, <1>2
<1>4. Min({end, to}) \in {end, to}
  <2> DEFINE S == {end, to}
  <2>1. S \in SUBSET Nat /\ S # {}
    <3> HIDE DEF cursor, L
    <3> QED BY <1>1, <1>3
  <2> HIDE DEF S
  <2>2. Min(S) \in S
    BY <2>1, MinOf
  <2> QED BY <2>2 DEF S
<1>5. b \in cursor..Min({end, to})
  <2> DEFINE m == Min({end, to})
  <2>1. b <= m /\ m \in Int
    <3> HIDE DEF m, cursor, L
    <3> QED BY <1>1, <1>3, <1>4 DEF m
  <2> HIDE DEF m
  <2>2. b \in cursor..m
    <3> HIDE DEF cursor
    <3> QED BY <1>3, <2>1
  <2> QED BY <2>2 DEF m
<1>6. cursor \in {from + i * LogRange : i \in 0..to} \cap from..to
  <2>1. cursor = from + k * LogRange
    BY DEF kL
  <2> HIDE DEF k, cursor
  <2> QED BY <1>3, <2>1
<1> DEFINE range(c) == c..Min({c + LogRange - 1, to})
<1>7. range(cursor) \in Ranges(from, to)
  <2> HIDE DEF cursor
  <2> QED BY <1>6 DEF Ranges
<1>8. b \in range(cursor)
  BY <1>5
<1> HIDE DEF range, cursor
<1> QED BY <1>7, <1>8

LEMMA CoinbasesAre ==
  ASSUME events \in Events, NEW mappings \in SUBSET PastOf(events)
  PROVE  /\ Coinbases(mappings) \in SUBSET Coinbase
         /\ \A c \in Coinbases(mappings) :
              /\ FirstMapped(mappings, c) \in 1..Len(events)
              /\ CreatedIn(events, c) \in 1..Len(events)
              /\ CreatedIn(events, c) <= FirstMapped(mappings, c)
<1>1. /\ Len(events) \in Nat
      /\ \A m \in mappings : /\ m.block \in 1..Len(events) /\ m.coinbase \in Coinbase \cup {Zero}
                             /\ events[m.block].coinbase = m.coinbase
  BY PastType DEF MappingT, MappingIn
<1>2. ASSUME NEW c \in Coinbases(mappings)
      PROVE  /\ FirstMapped(mappings, c) \in 1..Len(events)
             /\ CreatedIn(events, c) \in 1..Len(events)
             /\ CreatedIn(events, c) <= FirstMapped(mappings, c)
  <2> DEFINE S == {m.block : m \in {n \in mappings : n.coinbase = c}}
             T == {i \in 1..Len(events) : events[i].coinbase = c}
  <2>1. S \in SUBSET Nat /\ S # {} /\ T \in SUBSET Nat /\ S \subseteq T /\ T \subseteq 1..Len(events)
    BY <1>1 DEF Coinbases
  <2>2. FirstMapped(mappings, c) = Min(S) /\ CreatedIn(events, c) = Min(T)
    BY DEF FirstMapped, CreatedIn
  <2> HIDE DEF S, T
  <2>3. Min(S) \in S
    BY <2>1, MinOf
  <2>4. Min(T) \in T /\ \A y \in T : Min(T) <= y
    <3>1. T # {}
      BY <2>1
    <3> QED BY <2>1, <3>1, MinOf
  <2> QED BY <2>1, <2>2, <2>3, <2>4
<1> QED BY <1>1, <1>2 DEF Coinbases

\* The scan begins neither behind the block where a coinbase is first mapped,
\* nor behind the configured block.
LEMMA ScanBegins ==
  ASSUME events \in Events, NEW mappings \in SUBSET PastOf(events),
         NEW configured \in Nat \cup {None}, NEW c \in Coinbases(mappings)
  PROVE  /\ LogsFrom(configured, mappings) \in Nat
         /\ LogsFrom(configured, mappings) <= FirstMapped(mappings, c)
         /\ configured # None => LogsFrom(configured, mappings) <= configured
<1> DEFINE S == {FirstMapped(mappings, d) : d \in Coinbases(mappings)}
           first == Min(S)
<1>1. S \in SUBSET Nat /\ FirstMapped(mappings, c) \in S
  <2>1. \A d \in Coinbases(mappings) : FirstMapped(mappings, d) \in Nat
    BY CoinbasesAre, PastType
  <2> QED BY <2>1
<1>2. LogsFrom(configured, mappings) =
        IF configured = None \/ configured > first THEN first ELSE configured
  BY DEF LogsFrom
<1> HIDE DEF S
<1>3. Min(S) \in S /\ \A y \in S : Min(S) <= y
  <2>1. S # {}
    BY <1>1
  <2> QED BY <1>1, <2>1, MinOf
<1>4. first \in Nat /\ first <= FirstMapped(mappings, c) /\ FirstMapped(mappings, c) \in Nat
  BY <1>1, <1>3
<1> HIDE DEF first
<1> DEFINE mapped == FirstMapped(mappings, c)
           from == LogsFrom(configured, mappings)
<1>5. from = (IF configured = None \/ configured > first THEN first ELSE configured)
      /\ first \in Nat /\ mapped \in Nat /\ first <= mapped
  BY <1>2, <1>4
<1> HIDE DEF from, mapped
<1>6. from \in Nat /\ from <= mapped /\ (configured # None => from <= configured)
  BY <1>5
<1> QED BY <1>6 DEF from, mapped

LEMMA FindSplitsHolds ==
  ASSUME WInv, XInv, NEW p \in Processes, FindSplits(p), UNCHANGED outputs
  PROVE  XInv'
<1> DEFINE j == jobs[p]
           coinbases == Coinbases(j.mappings)
           from == LogsFrom(j.configured, j.mappings)
           scanned == IF coinbases = {} THEN {} ELSE UNION Ranges(from, Block)
           splits == {c \in coinbases : CreatedAt(c) \in scanned}
           new == [j EXCEPT !.splits = splits, !.phase = "rows"]
<1>0. events \in Events /\ UNCHANGED <<events, cache, files, claims>>
  BY DEF WInv, WorldType, FindSplits, worldVars, setting
<1>1. j \in Evaluations(events)
  BY JobIs DEF FindSplits
<1>2. j.mappings \in SUBSET PastOf(events) /\ j.configured \in Nat \cup {None}
  BY <1>1 DEF Evaluations
<1>3. jobs' = [jobs EXCEPT ![p] = new]
  BY DEF FindSplits, XInv
<1>4. \A c : CreatedAt(c) = CreatedIn(events, c)
  BY DEF CreatedAt, CreatedIn, Block
<1>5. coinbases \in SUBSET Coinbase
  <2> HIDE DEF j
  <2> QED BY <1>0, <1>2, CoinbasesAre
<1>6. ASSUME NEW c \in coinbases,
             \/ FirstMapped(j.mappings, c) = CreatedIn(events, c)
             \/ j.configured # None /\ j.configured <= CreatedIn(events, c)
      PROVE  c \in splits
  <2> DEFINE created == CreatedIn(events, c)
             mappings == j.mappings
             configured == j.configured
  <2> HIDE DEF j
  <2> HIDE DEF mappings, configured
  <2>1. mappings \in SUBSET PastOf(events) /\ configured \in Nat \cup {None} /\ c \in Coinbases(mappings)
    BY <1>2 DEF mappings, configured
  <2>2. created \in 1..Len(events)
    BY <1>0, <2>1, CoinbasesAre
  <2>3. /\ LogsFrom(configured, mappings) \in Nat
        /\ LogsFrom(configured, mappings) <= FirstMapped(mappings, c)
        /\ configured # None => LogsFrom(configured, mappings) <= configured
    BY <1>0, <2>1, ScanBegins
  <2>4. from = LogsFrom(configured, mappings)
    BY DEF mappings, configured
  <2>5. FirstMapped(mappings, c) = created \/ (configured # None /\ configured <= created)
    BY <1>6 DEF mappings, configured
  <2>6. Block \in Nat /\ Block = Len(events)
    BY <1>0, PastType DEF Block
  <2> HIDE DEF from, created, splits
  <2>7. from <= created
    BY <2>1, <2>2, <2>3, <2>4, <2>5
  <2>8. from \in Nat /\ created \in from..Block
    BY <2>2, <2>3, <2>4, <2>6, <2>7
  <2>9. created \in UNION Ranges(from, Block)
    BY <2>6, <2>8, RangesCover
  <2> QED BY <1>4, <2>9 DEF splits, created
<1>7. splits \in SUBSET Coinbase
  BY <1>5
<1> HIDE DEF splits
<1>8. /\ new \in [command : {"evaluate"}, phase : {"splits", "rows"}, mappings : SUBSET PastOf(events),
                  configured : Nat \cup {None}, splits : SUBSET Coinbase]
      /\ new.mappings = j.mappings /\ new.configured = j.configured /\ new.splits = splits
  BY <1>1, <1>7 DEF Evaluations
<1> HIDE DEF new
<1>9. Found(new, events)
  BY <1>6, <1>8 DEF Found
<1>10. new \in Jobs(events)
  BY <1>8, <1>9 DEF Evaluations, Jobs
<1> QED BY <1>0, <1>3, <1>10, JobMoves DEF XInv

LEMMA EvaluateHolds ==
  ASSUME WInv, XInv, NEW p \in Processes, EvaluateStarts(p) \/ ProposeClaims(p), UNCHANGED outputs
  PROVE  XInv'
<1>0. events \in Events /\ UNCHANGED <<events, cache, files>>
  BY DEF WInv, WorldType, EvaluateStarts, ProposeClaims, worldVars, notGiven, setting
<1>1. CASE EvaluateStarts(p)
  <2>1. PICK configured \in FirstBlocks :
          jobs' = [jobs EXCEPT ![p] =
            [command |-> "evaluate", phase |-> "splits", mappings |-> cache.mappings,
             configured |-> configured, splits |-> {}]]
    BY <1>1 DEF EvaluateStarts, Begins
  <2> DEFINE new == [command |-> "evaluate", phase |-> "splits", mappings |-> cache.mappings,
                     configured |-> configured, splits |-> {}]
  <2>2. cache.mappings \in SUBSET PastOf(events) /\ UNCHANGED claims
    BY <1>1 DEF EvaluateStarts, XInv, Caches
  <2>3. configured \in Nat \cup {None}
    BY CacheAssumption
  <2>4. new \in Jobs(events)
    BY <2>2, <2>3 DEF Evaluations, Jobs
  <2> HIDE DEF new
  <2> QED BY <1>0, <2>1, <2>2, <2>4, JobMoves DEF XInv, new
<1>2. CASE ProposeClaims(p)
  <2> DEFINE j == jobs[p]
  <2>1. j.mappings \in SUBSET PastOf(events)
    BY <1>2, JobIs DEF ProposeClaims, Evaluations
  <2>2. Coinbases(j.mappings) \in SUBSET Coinbase
    <3> HIDE DEF j
    <3> QED BY <1>0, <2>1, CoinbasesAre
  <2>3. ASSUME NEW worth \in SUBSET Coinbase, NEW withdraws PROVE Calls(worth, withdraws) \subseteq CallT
    BY DEF Calls, CallT
  <2>4. PICK failed \in SUBSET (Coinbases(j.mappings) \cup {None}) :
          LET calls == Calls(Claimable(j, failed), Worth(Credited, Gas(None, failed)))
          IN  claims' = IF calls = {} THEN claims ELSE calls
    BY <1>2 DEF ProposeClaims
  <2>5. Claimable(j, failed) \in SUBSET Coinbase
    BY <2>2 DEF Claimable
  <2>6. claims' \subseteq CallT
    <3> DEFINE worth == Claimable(j, failed)
               withdraws == Worth(Credited, Gas(None, failed))
    <3>1. claims' \in {claims, Calls(worth, withdraws)}
      BY <2>4
    <3>2. worth \in SUBSET Coinbase
      BY <2>5
    <3> HIDE DEF worth, withdraws
    <3>3. Calls(worth, withdraws) \subseteq CallT
      BY <2>3, <3>2
    <3> QED BY <3>1, <3>3 DEF XInv
  <2>7. jobs' = [jobs EXCEPT ![p] = None]
    BY <1>2 DEF ProposeClaims, Ends
  <2> QED BY <1>0, <2>6, <2>7, JobMoves DEF XInv
<1> QED BY <1>1, <1>2

LEMMA CacheHolds ==
  ASSUME WInv, XInv, CacheNext, UNCHANGED outputs
  PROVE  XInv'
<1>1. CASE RemoveTorn
  BY <1>1 DEF RemoveTorn, XInv, worldVars, setting
<1>2. ASSUME NEW p \in Processes, JobDies(p) PROVE XInv'
  <2>1. jobs' = [jobs EXCEPT ![p] = None] /\ UNCHANGED <<events, cache, files, claims>>
    BY <1>2 DEF JobDies, Ends, notFaults, setting
  <2> QED BY <2>1, JobMoves DEF XInv
<1> QED BY <1>1, <1>2, AgentHolds, ScrapeStartsHold, LoadCacheHolds, ReadBlockHolds, SaveHolds,
           UpdateFileHolds, FillHolds, EvaluateHolds, FindSplitsHolds DEF CacheNext

------------------------------------------------------------------------------
(* prepare-deployment, the deployment and the chain *)

LEMMA PrepareStartsHold ==
  ASSUME WInv, XInv, NEW p \in Operators, PrepareStarts(p)
  PROVE  XInv'
<1>0. events \in Events /\ UNCHANGED <<events, cache, files, claims, outputs>>
  BY DEF WInv, WorldType, PrepareStarts, notGiven, setting
<1>1. PICK s \in Servers, publishers \in Available :
        LET validators == Merged(files[s], publicKeys)
            used == SetToSeq({t \in Servers : publishers[t] # <<>>})
        IN  /\ AllDistinct(files[s], publicKeys)
            /\ used # <<>>
            /\ \A i \in DOMAIN validators : validators[i].coinbase # Zero
            /\ Begins(p, [command |-> "prepare", phase |-> "write",
                          todo |-> [i \in DOMAIN used |->
                            [server |-> used[i], version |-> Len(outputs[used[i]]) + 1,
                             validators |-> Assigned(validators, publishers[used[i]])]]])
  BY DEF PrepareStarts
<1> DEFINE production == files[s]
           T == {t \in Servers : publishers[t] # <<>>}
           used == SetToSeq(T)
           validators == Merged(production, publicKeys)
           item(i) == [server |-> used[i], version |-> Len(outputs[used[i]]) + 1,
                       validators |-> Assigned(validators, publishers[used[i]])]
           todo == [i \in DOMAIN used |-> item(i)]
           new == [command |-> "prepare", phase |-> "write", todo |-> todo]
<1>2. production \in Files(events) /\ publicKeys \in Seq(Attesters)
      /\ publishers \in [Servers -> Seq(Publishers)]
  BY <1>0, FileAttestersType, WorkflowAssumption DEF XInv, WInv, WorldType, PrepareStarts
<1>3. used \in Seq(T) /\ used # <<>>
  <2>1. IsFiniteSet(T)
    BY CacheAssumption, FS_Subset
  <2> HIDE DEF T
  <2>2. SetToSeq(T) \in Seq(T)
    BY <2>1, SeqOfSet
  <2> QED BY <1>1, <2>2 DEF T
<1>4. AllDistinct(production, publicKeys)
      /\ \A i \in DOMAIN Merged(production, publicKeys) : Merged(production, publicKeys)[i].coinbase # Zero
  BY <1>1
<1>5. ASSUME NEW t \in T
      PROVE  /\ Assigned(validators, publishers[t]) \in Files(events)
             /\ t \in Servers /\ Len(outputs[t]) + 1 \in Nat \ {0}
  <2> DEFINE f == publishers[t]
  <2>1. f \in Seq(Publishers) /\ f # <<>> /\ t \in Servers
    BY <1>2
  <2> HIDE DEF f, production
  <2>2. Assigned(Merged(production, publicKeys), f) \in Files(events)
    BY <1>0, <1>2, <1>4, <2>1, MergedIs DEF XInv
  <2>3. Len(outputs[t]) + 1 \in Nat \ {0}
    <3>1. outputs[t] \in Seq(Files(events))
      BY <2>1 DEF XInv
    <3> QED BY <3>1
  <2> QED BY <2>1, <2>2, <2>3 DEF f
<1> HIDE DEF T, validators
<1>6. ASSUME NEW t \in T, NEW v, v = [server |-> t, version |-> Len(outputs[t]) + 1,
                                      validators |-> Assigned(validators, publishers[t])]
      PROVE  v \in Prepared(events)
  BY <1>5, <1>6 DEF Prepared
<1> HIDE DEF used
<1>7. todo \in Seq(Prepared(events)) /\ todo # <<>>
  <2>1. \A i \in DOMAIN used : used[i] \in T /\ DOMAIN used = 1..Len(used) /\ Len(used) \in Nat
    BY <1>3
  <2>2. \A i \in DOMAIN used : item(i) \in Prepared(events)
    <3> TAKE i \in DOMAIN used
    <3> DEFINE t == used[i]
               v == [server |-> t, version |-> Len(outputs[t]) + 1,
                     validators |-> Assigned(validators, publishers[t])]
    <3>1. t \in T
      BY <2>1
    <3> HIDE DEF t
    <3>2. v \in Prepared(events)
      BY <1>6, <3>1
    <3> QED BY <3>2 DEF t
  <2> HIDE DEF item
  <2>3. Len(used) \in Nat \ {0} /\ DOMAIN used = 1..Len(used)
    BY <1>3
  <2> QED BY <2>2, <2>3
<1>8. jobs' = [jobs EXCEPT ![p] = new]
  BY <1>1 DEF Begins, used, T, validators
<1> HIDE DEF todo
<1>9. new \in Jobs(events) /\ p \in Processes
  BY <1>7 DEF Preparations, Jobs, Processes
<1> HIDE DEF new
<1> QED BY <1>0, <1>8, <1>9, JobMoves DEF XInv

LEMMA PrepareWritesHolds ==
  ASSUME WInv, XInv, NEW p \in Operators, PrepareWrites(p)
  PROVE  XInv'
<1> DEFINE j == jobs[p]
           file == Head(j.todo)
           versions == outputs[file.server]
           next == IF file.version \in DOMAIN versions
                   THEN [versions EXCEPT ![file.version] = file.validators]
                   ELSE Append(versions, file.validators)
           new == [j EXCEPT !.todo = Tail(j.todo)]
<1>0. events \in Events /\ UNCHANGED <<events, cache, files, claims>> /\ p \in Processes
  BY DEF WInv, WorldType, PrepareWrites, worldVars, setting, Processes
<1>1. j \in Preparations(events)
  BY <1>0, JobIs DEF PrepareWrites
<1>2. j.todo \in Seq(Prepared(events)) /\ j.todo # <<>>
  BY <1>1 DEF Preparations
<1>3. file \in Prepared(events) /\ Tail(j.todo) \in Seq(Prepared(events))
      /\ (Len(j.todo) # 1 => Tail(j.todo) # <<>>)
  <2> DEFINE todo == j.todo
             P == Prepared(events)
  <2> HIDE DEF j
  <2>1. todo \in Seq(P) /\ todo # <<>>
    BY <1>2
  <2> HIDE DEF todo, P
  <2>2. Head(todo) \in P /\ Tail(todo) \in Seq(P)
    BY <2>1, HeadOfTodo
  <2>3. Len(Tail(todo)) = Len(todo) - 1 /\ Len(todo) \in Nat \ {0}
    BY <2>1
  <2>4. Len(todo) # 1 => Tail(todo) # <<>>
    BY <2>3
  <2> QED BY <2>2, <2>4 DEF todo, P
<1>4. outputs' = [outputs EXCEPT ![file.server] = next]
  BY DEF PrepareWrites
<1>5. jobs' = [jobs EXCEPT ![p] = IF Len(j.todo) = 1 THEN None ELSE new]
  BY DEF PrepareWrites
<1>6. file.server \in Servers /\ file.validators \in Files(events)
  BY <1>3 DEF Prepared
<1> HIDE DEF file
<1>7. versions \in Seq(Files(events))
  BY <1>6 DEF XInv
<1> HIDE DEF versions
<1>8. next \in Seq(Files(events))
  <2> DEFINE F == Files(events)
             v == file.validators
             n == file.version
  <2>1. versions \in Seq(F) /\ v \in F
    BY <1>6, <1>7
  <2> HIDE DEF F, v, n
  <2>2. Append(versions, v) \in Seq(F)
    BY <2>1
  <2>3. [versions EXCEPT ![n] = v] \in Seq(F)
    <3>1. versions \in [1..Len(versions) -> F] /\ Len(versions) \in Nat
      BY <2>1
    <3>2. [versions EXCEPT ![n] = v] \in [1..Len(versions) -> F]
      BY <2>1, <3>1
    <3> QED BY <3>1, <3>2
  <2> QED BY <2>2, <2>3 DEF F, v, n
<1> HIDE DEF next
<1>9. outputs' \in [Servers -> Seq(Files(events))]
  BY <1>4, <1>6, <1>8 DEF XInv
<1>10. Len(j.todo) # 1 => new \in Jobs(events)
  BY <1>1, <1>3 DEF Preparations, Jobs
<1> HIDE DEF new
<1> QED BY <1>0, <1>5, <1>9, <1>10, JobMoves DEF XInv

LEMMA DeployHolds ==
  ASSUME XInv, NEW s \in Servers, Deploy(s)
  PROVE  XInv'
<1> DEFINE versions == outputs[s]
           F == Files(events)
<1>1. versions \in Seq(F) /\ versions # <<>>
  BY DEF XInv, Deploy
<1>2. files' = [files EXCEPT ![s] = Last(versions)] /\ UNCHANGED <<events, cache, jobs, claims, outputs>>
  BY DEF Deploy, worldVars, setting
<1> HIDE DEF versions, F
<1>3. Last(versions) \in F
  BY <1>1 DEF Last
<1>4. files' \in [Servers -> F]
  BY <1>2, <1>3 DEF XInv, F
<1> QED BY <1>2, <1>4 DEF XInv, F

\* An event more: what was sound is sound.
LEMMA StakeHolds ==
  ASSUME WInv, XInv, Stake
  PROVE  XInv'
<1> DEFINE E == [attester : Attesters, coinbase : Coinbase \cup {Zero}]
<1>1. PICK e \in E : events' = Append(events, e)
  BY StakeLogs
<1>2. events \in Events /\ events' \in Events
  BY StakeStays DEF WInv, WorldType
<1>3. Begin(events, events')
  <2>1. events \in Seq(E)
    BY <1>2 DEF Events
  <2> HIDE DEF E
  <2> QED BY <1>1, <2>1 DEF Begin
<1> DEFINE longer == events'
<1>4. longer \in Events /\ Begin(events, longer)
  BY <1>2, <1>3
<1> HIDE DEF longer
<1>5. /\ Caches(events) \subseteq Caches(longer) /\ Jobs(events) \subseteq Jobs(longer)
      /\ Files(events) \subseteq Files(longer)
  BY <1>2, <1>4, CachesGrow, JobsGrow, FilesGrow
<1>6. Seq(Files(events)) \subseteq Seq(Files(longer))
  BY <1>5
<1>7. /\ cache \in {None, Torn} \cup Caches(longer)
      /\ jobs \in [Processes -> Jobs(longer) \cup {None}]
      /\ files \in [Servers -> Files(longer)]
      /\ outputs \in [Servers -> Seq(Files(longer))]
      /\ claims \subseteq CallT
  BY <1>5, <1>6 DEF XInv
<1>8. UNCHANGED <<cache, jobs, files, outputs, claims>>
  BY DEF Stake, cacheVars
<1> QED BY <1>7, <1>8 DEF XInv, longer

LEMMA CommandsHold ==
  ASSUME WInv, XInv, [Next]_vars
  PROVE  XInv'
<1>1. CASE UNCHANGED <<cacheVars, outputs, events>>
  BY <1>1 DEF XInv, cacheVars
<1>2. CASE \E o \in Operators : UploadNext(o) /\ UNCHANGED <<cacheVars, outputs>>
  <2>1. PICK o \in Operators : UploadNext(o) /\ UNCHANGED <<cacheVars, outputs>>
    BY <1>2
  <2>2. UNCHANGED events
    BY <2>1 DEF UploadNext, ProcessStarts, NewPublishersStart, AddKeysStarts, List, Skip, Reuse, Ensure,
                Create, AddVersion, Dies, Reload, WritePublicKeys, WriteAddresses, Checked, Propose,
                CheckRegistry, CheckFails, notUploading, notGiven, notFaults, worldVars, setting
  <2> QED BY <1>1, <2>1, <2>2
<1>3. CASE Execute
  BY <1>1, <1>3 DEF Execute
<1>4. CASE UNCHANGED vars
  BY <1>1, <1>4 DEF vars, worldVars, setting
<1> QED BY <1>2, <1>3, <1>4, CacheHolds, PrepareStartsHold, PrepareWritesHolds, DeployHolds, StakeHolds
        DEF Next

LEMMA CommandsBegin == Init => XInv
<1> SUFFICES ASSUME Init PROVE XInv
  OBVIOUS
<1>1. PICK s \in Situations : events = s.events /\ files = s.files
  BY DEF Init
<1>2. s.events \in Events /\ s.files \in [Servers -> File] /\ \A h \in Servers : Sound(s.files[h], s.events)
  BY WorkflowAssumption
<1>3. files \in [Servers -> Files(events)]
  BY <1>1, <1>2 DEF Files
<1>4. outputs \in [Servers -> Seq(Files(events))]
  <2>1. <<>> \in Seq(Files(events))
    OBVIOUS
  <2> QED BY <2>1 DEF Init
<1> QED BY <1>3, <1>4 DEF Init, CacheInit, XInv

------------------------------------------------------------------------------
(* The theorems *)

IInv == WInv /\ PInv /\ RInv /\ XInv

LEMMA Inductive == (Init => IInv) /\ (IInv /\ [Next]_vars => IInv')
BY UploadsBegin, CommandsBegin, UploadsHold, CommandsHold DEF IInv

LEMMA WellFormed == IInv => TypeOK
<1> SUFFICES ASSUME IInv PROVE TypeOK
  OBVIOUS
<1>0. events \in Events /\ Block = Len(events) /\ Len(events) \in Nat
  BY PastType DEF IInv, WInv, WorldType, Block
<1>1. /\ given \in 0..MaxCommands /\ faults \in 0..MaxFaults /\ urls \in BOOLEAN
      /\ addresses \cup generated \subseteq Publishers /\ publicKeys \in {None, FileAttesters}
  BY DEF IInv, WInv, WorldType, SecretType
<1>2. signer \subseteq DOMAIN secrets
  BY DEF IInv, WInv, SecretType
<1>3. ASSUME NEW n \in DOMAIN secrets
      PROVE  /\ Entry(n.group, n.key) \in Keyed
             /\ n.id \in (IF n.group = "pub-eth" THEN {None} ELSE Nat)
             /\ secrets[n] \in Nat
  <2>1. n \in SecretNames /\ secrets[n] \in Nat
    BY DEF IInv, WInv, SecretType
  <2> QED BY <2>1 DEF SecretNames, Entry, Keyed
<1>4. ASSUME NEW o \in Operators, uploads[o] # None
      PROVE  /\ Range(uploads[o].todo) \subseteq Keyed
             /\ uploads[o].name \in {None} \cup DOMAIN secrets \/ uploads[o].phase = "create"
  <2>1. uploads[o] \in Upload /\ Storing(uploads[o], DOMAIN secrets)
    BY <1>4 DEF IInv, WInv, UploadType
  <2>2. uploads[o].todo \in Seq(Keyed)
    BY <2>1 DEF Upload
  <2> QED BY <2>1, <2>2 DEF Storing, Range
<1>5. cache \in {None, Torn} \/
        /\ cache.last \in 0..Block /\ cache.covered \subseteq Attesters
        /\ \A m \in cache.mappings : m.attester \in Attesters /\ m.block \in 1..Block
  <2> SUFFICES ASSUME cache \in Caches(events)
               PROVE  /\ cache.last \in 0..Block /\ cache.covered \subseteq Attesters
                      /\ \A m \in cache.mappings : m.attester \in Attesters /\ m.block \in 1..Block
    BY DEF IInv, XInv
  <2>1. cache.mappings \in SUBSET PastOf(events)
    BY DEF Caches
  <2>2. \A m \in cache.mappings : m.attester \in Attesters /\ m.block \in 1..Block
    BY <1>0, <2>1, PastType DEF MappingT
  <2> QED BY <1>0, <2>2 DEF Caches
<1>6. claims \subseteq {"claim", "distribute", "withdraw"} \X (Coinbase \cup {None})
  BY DEF IInv, XInv, CallT
<1>7. ASSUME NEW s \in Servers PROVE files[s] \in File /\ outputs[s] \in Seq(File)
  <2>1. Files(events) \subseteq File
    BY DEF Files
  <2>2. Seq(Files(events)) \subseteq Seq(File)
    BY <2>1
  <2> QED BY <2>1, <2>2 DEF IInv, XInv
<1> QED BY <1>1, <1>2, <1>3, <1>4, <1>5, <1>6, <1>7 DEF TypeOK

LEMMA CacheExact == IInv => CacheIsExact
<1> SUFFICES ASSUME IInv, cache \in Caches(events)
             PROVE  /\ {events[i].attester : i \in 1..cache.last} \cap cache.covered \subseteq
                            {m.attester : m \in cache.mappings}
                    /\ \A m \in cache.mappings :
                         events[m.block] = [attester |-> m.attester, coinbase |-> m.coinbase]
  BY DEF IInv, XInv, CacheIsExact
<1>0. events \in Events
  BY DEF IInv, WInv, WorldType
<1>1. {events[i].attester : i \in 1..cache.last} \cap cache.covered \subseteq
        {m.attester : m \in cache.mappings}
  BY DEF Caches, Mapped
<1>2. ASSUME NEW m \in cache.mappings
      PROVE  events[m.block] = [attester |-> m.attester, coinbase |-> m.coinbase]
  <2> DEFINE E == [attester : Attesters, coinbase : Coinbase \cup {Zero}]
             e == events[m.block]
  <2>1. m \in PastOf(events)
    BY DEF Caches
  <2>2. m.block \in 1..Len(events) /\ m = MappingIn(events, m.block)
    BY <1>0, <2>1, PastType
  <2>3. events \in Seq(E)
    BY <1>0 DEF Events
  <2>4. e \in E
    <3> HIDE DEF E
    <3> QED BY <2>2, <2>3
  <2>5. m.attester = e.attester /\ m.coinbase = e.coinbase
    BY <2>2 DEF MappingIn
  <2> HIDE DEF e
  <2>6. e = [attester |-> m.attester, coinbase |-> m.coinbase]
    BY <2>4, <2>5
  <2> QED BY <2>6 DEF e
<1> QED BY <1>1, <1>2

LEMMA FilesSound == IInv => FilesAreSound
<1> SUFFICES ASSUME IInv, NEW s \in Servers PROVE \A file \in {files[s]} \cup Range(outputs[s]) : Sound(file, events)
  BY DEF FilesAreSound
<1> DEFINE F == Files(events)
           versions == outputs[s]
<1>1. files[s] \in F /\ versions \in Seq(F)
  BY DEF IInv, XInv
<1> HIDE DEF F, versions
<1>2. \A file \in Range(versions) : file \in F
  BY <1>1 DEF Range
<1> QED BY <1>1, <1>2 DEF F, versions, Files

LEMMA SplitsFound == IInv => ClaimsFindSplits
<1> SUFFICES ASSUME IInv, NEW p \in Operators, Phase(p, "evaluate", "rows"),
                    NEW c \in Coinbases(jobs[p].mappings),
                    \/ FirstMapped(jobs[p].mappings, c) = CreatedAt(c)
                    \/ jobs[p].configured # None /\ jobs[p].configured <= CreatedAt(c)
             PROVE  c \in jobs[p].splits
  BY DEF ClaimsFindSplits
<1>1. jobs[p] \in Evaluations(events) /\ jobs[p].phase = "rows"
  BY JobIs DEF IInv, Processes
<1>2. Found(jobs[p], events)
  BY <1>1 DEF Evaluations
<1>3. CreatedAt(c) = CreatedIn(events, c)
  BY DEF CreatedAt, CreatedIn, Block
<1> QED BY <1>2, <1>3 DEF Found

\* TypeOK, whatever the constants.
THEOREM WorkflowTypeCorrect == Spec => []TypeOK
BY Inductive, WellFormed, PTL DEF Spec

\* StoredWhenWritten, whatever KeyFile, and however many operators: a key is
\* stored with a version before a file names it, and loaded by then when the
\* signers' URLs are configured and no request failed.
THEOREM KeysAreStored == Spec => []StoredWhenWritten
<1>1. IInv => StoredWhenWritten
  BY WrittenIsStored DEF IInv, PInv
<1> QED BY <1>1, Inductive, PTL DEF Spec

\* RerunsAddNothing: as long as no two commands were under way at once, a key
\* has one name and at most one version, and no number is given twice.
THEOREM KeysAreStoredOnce == Spec => []RerunsAddNothing
<1>1. IInv => RerunsAddNothing
  BY DEF IInv, RInv, Distinct, RerunsAddNothing
<1> QED BY <1>1, Inductive, PTL DEF Spec

\* CacheIsExact, whatever was staked, and however many scrapes overlap: of those
\* that every scrape behind it asked for the cache misses nobody up to its last
\* block, and it maps nobody but to a coinbase he was staked with.
THEOREM CacheStaysExact == Spec => []CacheIsExact
BY Inductive, CacheExact, PTL DEF Spec

\* FilesAreSound: no keys file, deployed or prepared, names an attester twice or
\* sends his rewards to a contract he was not staked with.
THEOREM FilesStaySound == Spec => []FilesAreSound
BY Inductive, FilesSound, PTL DEF Spec

\* ClaimsFindSplits, whatever LogRange and wherever the scan begins.
THEOREM ClaimsAlwaysFindSplits == Spec => []ClaimsFindSplits
BY Inductive, SplitsFound, PTL DEF Spec
=============================================================================
