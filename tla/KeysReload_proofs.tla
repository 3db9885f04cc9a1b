-------------------------- MODULE KeysReload_proofs --------------------------
(***************************************************************************)
(* For any files, keystores and operator: what loadAndMergeKeysFiles builds *)
(* one validator and one publisher after the other is what the files say    *)
(* taken together, and the lists in use are what the directory says unless  *)
(* something is still to happen, was dropped, or cannot be read.            *)
(***************************************************************************)
EXTENDS KeysReload, Prefixes, FiniteSetTheorems, TLAPS

-----------------------------------------------------------------------------
(* Maps, and the order of the files.                                         *)

Coinbases == {v.coinbase : v \in Validators}
Attesters == {v.attester : v \in Validators}
Lists == [serverId : Files, attesterCount : Nat \ {0}]

\* The maps that an attesterMap and a publisherMap can be.
MapsOf(D, R) == UNION {[d -> R] : d \in SUBSET D}
Configs == [attesters : MapsOf(Attesters, Coinbases), publishers : MapsOf(Publishers, Lists)]

LEMMA MapIs ==
  ASSUME NEW D, NEW R, NEW map
  PROVE  map \in MapsOf(D, R) <=> IsMap(map, D, R)
BY DEF MapsOf, IsMap

LEMMA ConfigIs ==
  ASSUME NEW c PROVE c \in Configs <=> IsConfig(c)
<1>1. c \in Configs <=>
        /\ c = [attesters |-> c.attesters, publishers |-> c.publishers]
        /\ c.attesters \in MapsOf(Attesters, Coinbases)
        /\ c.publishers \in MapsOf(Publishers, Lists)
  BY DEF Configs
<1> QED BY <1>1, MapIs DEF IsConfig, Attesters, Coinbases, Lists

\* A new entry takes the place of an old one.
LEMMA PutIs ==
  ASSUME NEW map, NEW key, NEW value
  PROVE  /\ DOMAIN Put(map, key, value) = DOMAIN map \cup {key}
         /\ Put(map, key, value)[key] = value
         /\ \A k \in DOMAIN map : k # key => Put(map, key, value)[k] = map[k]
         /\ Put(map, key, value) =
              [k \in DOMAIN map \cup {key} |-> IF k = key THEN value ELSE map[k]]
BY DEF Put

LEMMA PutMap ==
  ASSUME NEW D, NEW R, NEW map \in MapsOf(D, R), NEW key \in D, NEW value \in R
  PROVE  Put(map, key, value) \in MapsOf(D, R)
<1> DEFINE new == Put(map, key, value)
<1>1. DOMAIN map \subseteq D /\ map \in [DOMAIN map -> R]
  BY DEF MapsOf
<1>2. /\ DOMAIN new = DOMAIN map \cup {key}
      /\ new = [k \in DOMAIN map \cup {key} |-> IF k = key THEN value ELSE map[k]]
  BY DEF Put
<1> HIDE DEF new
<1>3. new \in [DOMAIN new -> R] /\ DOMAIN new \subseteq D
  BY <1>1, <1>2
<1> QED BY <1>3 DEF MapsOf, new

LEMMA RankIs ==
  /\ \A f \in Files : Rank(f) \in 1..Len(FileOrder) /\ FileOrder[Rank(f)] = f
  /\ \A f \in Files : Rank(f) \in Nat
  /\ \A f, g \in Files : Rank(f) = Rank(g) => f = g
<1>1. DOMAIN FileOrder = 1..Len(FileOrder) /\ Len(FileOrder) \in Nat
  BY FilesAssumption
<1>2. ASSUME NEW f \in Files PROVE Rank(f) \in DOMAIN FileOrder /\ FileOrder[Rank(f)] = f
  <2>1. \E n \in DOMAIN FileOrder : FileOrder[n] = f
    BY DEF Files, Range
  <2> QED BY <2>1 DEF Rank
<1>3. \A f \in Files : Rank(f) \in Nat
  BY <1>1, <1>2
<1> QED BY <1>1, <1>2, <1>3

\* A place is where its rank puts it.
LEMMA RankOfPlace ==
  ASSUME NEW n \in DOMAIN FileOrder
  PROVE  FileOrder[n] \in Files /\ Rank(FileOrder[n]) = n
<1>1. FileOrder[n] \in Files
  BY DEF Files, Range
<1>2. Rank(FileOrder[n]) \in DOMAIN FileOrder /\ FileOrder[Rank(FileOrder[n])] = FileOrder[n]
  <2>1. \E m \in DOMAIN FileOrder : FileOrder[m] = FileOrder[n]
    OBVIOUS
  <2> QED BY <2>1 DEF Rank
<1> QED BY <1>1, <1>2, FilesAssumption DEF IsInjective

-----------------------------------------------------------------------------
(* Adding a validator's publishers one by one.                               *)

\* What a publisher's entry becomes when one more validator names it.
Counted(pubs, p, file) ==
  IF p \in DOMAIN pubs
  THEN [serverId |-> pubs[p].serverId, attesterCount |-> pubs[p].attesterCount + 1]
  ELSE [serverId |-> file, attesterCount |-> 1]

LEMMA AddPublisherIs ==
  ASSUME NEW pubs \in MapsOf(Publishers, Lists), NEW p \in Publishers, NEW file \in Files
  PROVE  /\ AddPublisher(pubs, p, file) = Put(pubs, p, Counted(pubs, p, file))
         /\ Counted(pubs, p, file) \in Lists
         /\ AddPublisher(pubs, p, file) \in MapsOf(Publishers, Lists)
<1> DEFINE old == IF p \in DOMAIN pubs THEN pubs[p]
                  ELSE [serverId |-> file, attesterCount |-> 0]
           new == [old EXCEPT !.attesterCount = @ + 1]
<1>1. AddPublisher(pubs, p, file) = Put(pubs, p, new)
  BY DEF AddPublisher
<1>2. old = IF p \in DOMAIN pubs THEN pubs[p] ELSE [serverId |-> file, attesterCount |-> 0]
  OBVIOUS
<1>3. p \in DOMAIN pubs => pubs[p] \in Lists
  BY DEF MapsOf
<1> HIDE DEF old
<1>4. CASE p \in DOMAIN pubs
  <2>1. old \in Lists /\ old = pubs[p]
    BY <1>2, <1>3, <1>4
  <2>2. new = [serverId |-> old.serverId, attesterCount |-> old.attesterCount + 1]
    BY <2>1 DEF Lists
  <2>3. new = Counted(pubs, p, file)
    BY <1>4, <2>1, <2>2 DEF Counted
  <2>4. new \in Lists
    BY <2>1, <2>2 DEF Lists
  <2> QED BY <1>1, <2>3, <2>4, PutMap
<1>5. CASE p \notin DOMAIN pubs
  <2>1. old = [serverId |-> file, attesterCount |-> 0]
    BY <1>2, <1>5
  <2>2. new = [serverId |-> file, attesterCount |-> 1]
    BY <2>1
  <2>3. new = Counted(pubs, p, file)
    BY <1>5, <2>2 DEF Counted
  <2>4. new \in Lists
    BY <2>2 DEF Lists
  <2> QED BY <1>1, <2>3, <2>4, PutMap
<1> QED BY <1>4, <1>5

\* The map after every publisher of the list.
AddedUpTo(f, pubs, names, file) ==
  /\ f[0] = pubs
  /\ \A i \in 1..Len(names) : f[i] = AddPublisher(f[i - 1], names[i], file)
  /\ AddPublishers(pubs, names, file) = f[Len(names)]

LEMMA PublishersOneByOne ==
  ASSUME NEW pubs \in MapsOf(Publishers, Lists), NEW names \in Seq(Publishers),
         NEW file \in Files
  PROVE  \E f \in [0..Len(names) -> MapsOf(Publishers, Lists)] : AddedUpTo(f, pubs, names, file)
<1> DEFINE N == Len(names)
           M == MapsOf(Publishers, Lists)
           step == [i \in 1..N |-> [x \in M |-> AddPublisher(x, names[i], file)]]
           F == CHOOSE g : g = [i \in 0..N |-> IF i = 0 THEN pubs
                                 ELSE AddPublisher(g[i - 1], names[i], file)]
<1>1. N \in Nat /\ \A i \in 1..N : names[i] \in Publishers
  OBVIOUS
<1>2. ASSUME NEW i \in 1..N, NEW x \in M PROVE AddPublisher(x, names[i], file) \in M
  BY <1>1, AddPublisherIs
<1>3. step \in [1..N -> [M -> M]]
  <2> HIDE DEF N, M
  <2> QED BY <1>2
<1>4. \A i \in 1..N : \A x \in M : step[i][x] = AddPublisher(x, names[i], file)
  <2> HIDE DEF N, M
  <2> QED OBVIOUS
<1>5. PICK f \in [0..N -> M] : \A i \in 0..N : f[i] = IF i = 0 THEN pubs ELSE step[i][f[i - 1]]
  <2>1. pubs \in M
    OBVIOUS
  <2> HIDE DEF step, N, M
  <2>2. IsRecursion(step, N, M)
    BY <1>1, <1>3 DEF IsRecursion
  <2>3. \E f : f \in [0..N -> M] /\ Unfolds(f, step, N, pubs)
    BY <2>1, <2>2, PrefixRecursion
  <2> QED BY <2>3 DEF Unfolds
<1>6. ASSUME NEW i \in 1..N PROVE f[i] = AddPublisher(f[i - 1], names[i], file)
  <2>1. i \in 0..N /\ i # 0 /\ i - 1 \in 0..N
    BY <1>1
  <2> HIDE DEF step, N, M
  <2>2. f[i - 1] \in M /\ f[i] = step[i][f[i - 1]]
    BY <1>5, <2>1
  <2> QED BY <2>2, <1>4
<1>7. f[0] = pubs
  <2>1. 0 \in 0..N
    BY <1>1
  <2> HIDE DEF step, N, M, F
  <2> QED BY <1>5, <2>1
<1>8. f = [i \in 0..N |-> IF i = 0 THEN pubs ELSE AddPublisher(f[i - 1], names[i], file)]
  <2>1. \A i \in 0..N : i # 0 => i \in 1..N
    OBVIOUS
  <2> HIDE DEF N, M
  <2> QED BY <1>6, <1>7, <2>1
<1>9. F = [i \in 0..N |-> IF i = 0 THEN pubs ELSE AddPublisher(F[i - 1], names[i], file)]
  <2> HIDE DEF N, M
  <2> QED BY <1>8
<1>10. \A i \in 0..N : F[i] = f[i]
  <2> DEFINE Same == {i \in 0..N : F[i] = f[i]}
  <2>1. 0 \in Same
    <3> HIDE DEF F, N, M
    <3> QED BY <1>1, <1>7, <1>9
  <2>2. ASSUME NEW i \in 1..N, i - 1 \in Same PROVE i \in Same
    <3>1. i \in 0..N /\ i # 0
      OBVIOUS
    <3>2. F[i] = AddPublisher(F[i - 1], names[i], file)
      <4> HIDE DEF F, N, M
      <4> QED BY <1>9, <3>1
    <3> HIDE DEF F, N, M
    <3> QED BY <1>6, <2>2, <3>1, <3>2
  <2>3. \A i \in 0..N : i \in Same
    <3> HIDE DEF Same
    <3> QED BY <1>1, <2>1, <2>2, PrefixInduction, Zenon
  <2> QED BY <2>3
<1>11. AddPublishers(pubs, names, file) = F[N]
  BY DEF AddPublishers
<1>12. AddPublishers(pubs, names, file) = f[N]
  <2> HIDE DEF F, N
  <2> QED BY <1>1, <1>10, <1>11
<1> HIDE DEF step, F
<1> QED BY <1>6, <1>7, <1>12 DEF AddedUpTo

LEMMA AddPublishersType ==
  ASSUME NEW pubs \in MapsOf(Publishers, Lists), NEW names \in Seq(Publishers),
         NEW file \in Files
  PROVE  AddPublishers(pubs, names, file) \in MapsOf(Publishers, Lists)
<1>1. PICK f \in [0..Len(names) -> MapsOf(Publishers, Lists)] : AddedUpTo(f, pubs, names, file)
  BY PublishersOneByOne
<1>2. Len(names) \in 0..Len(names)
  OBVIOUS
<1> QED BY <1>1, <1>2 DEF AddedUpTo

-----------------------------------------------------------------------------
(* Merging a file's validators one by one.                                   *)

LEMMA ValidatorFields ==
  ASSUME NEW v \in Validators
  PROVE  v.attester \in Attesters /\ v.coinbase \in Coinbases /\ v.publishers \in Seq(Publishers)
BY KeystoresAssumption DEF Attesters, Coinbases

LEMMA MergeValidatorType ==
  ASSUME NEW m \in Configs, NEW v \in Validators, NEW file \in Files
  PROVE  /\ MergeValidator(m, v, file) \in Configs
         /\ MergeValidator(m, v, file).attesters = Put(m.attesters, v.attester, v.coinbase)
         /\ MergeValidator(m, v, file).publishers
              = AddPublishers(m.publishers, v.publishers, file)
<1>1. m.attesters \in MapsOf(Attesters, Coinbases) /\ m.publishers \in MapsOf(Publishers, Lists)
  BY DEF Configs
<1>2. Put(m.attesters, v.attester, v.coinbase) \in MapsOf(Attesters, Coinbases)
  BY <1>1, ValidatorFields, PutMap
<1>3. AddPublishers(m.publishers, v.publishers, file) \in MapsOf(Publishers, Lists)
  BY <1>1, ValidatorFields, AddPublishersType
<1> QED BY <1>2, <1>3 DEF MergeValidator, Configs

\* The maps after every validator of the file's content.
MergedUpTo(r, m, content, file) ==
  /\ r[0] = m
  /\ \A i \in 1..Len(content) : r[i] = MergeValidator(r[i - 1], content[i], file)

LEMMA ValidatorsOneByOne ==
  ASSUME NEW m \in Configs, NEW file \in Files, dir[file] \in Seq(Validators)
  PROVE  \E r \in [0..Len(dir[file]) -> Configs] :
            MergedUpTo(r, m, dir[file], file) /\ MergeFile(m, file) = r[Len(dir[file])]
<1> DEFINE content == dir[file]
           N == Len(content)
           step == [i \in 1..N |-> [x \in Configs |-> MergeValidator(x, content[i], file)]]
           F == CHOOSE g : g = [i \in 0..N |-> IF i = 0 THEN m
                                 ELSE MergeValidator(g[i - 1], content[i], file)]
<1>1. N \in Nat /\ \A i \in 1..N : content[i] \in Validators
  OBVIOUS
<1>2. ASSUME NEW i \in 1..N, NEW x \in Configs
      PROVE  MergeValidator(x, content[i], file) \in Configs
  <2>1. content[i] \in Validators
    BY <1>1
  <2> HIDE DEF content
  <2> QED BY <2>1, MergeValidatorType
<1>3. step \in [1..N -> [Configs -> Configs]]
  <2> HIDE DEF N, content
  <2> QED BY <1>2
<1>4. \A i \in 1..N : \A x \in Configs : step[i][x] = MergeValidator(x, content[i], file)
  <2> HIDE DEF N, content
  <2> QED OBVIOUS
<1>5. PICK f \in [0..N -> Configs] :
        \A i \in 0..N : f[i] = IF i = 0 THEN m ELSE step[i][f[i - 1]]
  <2> HIDE DEF step, N, content
  <2>2. IsRecursion(step, N, Configs)
    BY <1>1, <1>3 DEF IsRecursion
  <2>3. \E f : f \in [0..N -> Configs] /\ Unfolds(f, step, N, m)
    BY <2>2, PrefixRecursion
  <2> QED BY <2>3 DEF Unfolds
<1>6. ASSUME NEW i \in 1..N PROVE f[i] = MergeValidator(f[i - 1], content[i], file)
  <2>1. i \in 0..N /\ i # 0 /\ i - 1 \in 0..N
    BY <1>1
  <2> HIDE DEF step, N, content
  <2>2. f[i - 1] \in Configs /\ f[i] = step[i][f[i - 1]]
    BY <1>5, <2>1
  <2> QED BY <2>2, <1>4
<1>7. f[0] = m
  <2>1. 0 \in 0..N
    BY <1>1
  <2> HIDE DEF step, N, F, content
  <2> QED BY <1>5, <2>1
<1>8. f = [i \in 0..N |-> IF i = 0 THEN m ELSE MergeValidator(f[i - 1], content[i], file)]
  <2>1. \A i \in 0..N : i # 0 => i \in 1..N
    OBVIOUS
  <2> HIDE DEF N, content
  <2> QED BY <1>6, <1>7, <2>1
<1>9. F = [i \in 0..N |-> IF i = 0 THEN m ELSE MergeValidator(F[i - 1], content[i], file)]
  <2> HIDE DEF N, content
  <2> QED BY <1>8
<1>10. \A i \in 0..N : F[i] = f[i]
  <2> DEFINE Same == {i \in 0..N : F[i] = f[i]}
  <2>1. 0 \in Same
    <3> HIDE DEF F, N, content
    <3> QED BY <1>1, <1>7, <1>9
  <2>2. ASSUME NEW i \in 1..N, i - 1 \in Same PROVE i \in Same
    <3>1. i \in 0..N /\ i # 0
      OBVIOUS
    <3>2. F[i] = MergeValidator(F[i - 1], content[i], file)
      <4> HIDE DEF F, N, content
      <4> QED BY <1>9, <3>1
    <3> HIDE DEF F, N, content
    <3> QED BY <1>6, <2>2, <3>1, <3>2
  <2>3. \A i \in 0..N : i \in Same
    <3> HIDE DEF Same
    <3> QED BY <1>1, <2>1, <2>2, PrefixInduction, Zenon
  <2> QED BY <2>3
<1>11. MergeFile(m, file) = F[N]
  BY DEF MergeFile
<1>12. MergeFile(m, file) = f[N]
  <2> HIDE DEF F, N
  <2> QED BY <1>1, <1>10, <1>11
<1> HIDE DEF step, F
<1> QED BY <1>6, <1>7, <1>12 DEF MergedUpTo

LEMMA MergeFileType ==
  ASSUME NEW m \in Configs, NEW file \in Files, dir[file] \in Seq(Validators)
  PROVE  MergeFile(m, file) \in Configs
<1>1. PICK r \in [0..Len(dir[file]) -> Configs] : MergeFile(m, file) = r[Len(dir[file])]
  BY ValidatorsOneByOne
<1>2. Len(dir[file]) \in 0..Len(dir[file])
  OBVIOUS
<1> QED BY <1>1, <1>2

-----------------------------------------------------------------------------
(* What a set of places says, file by file: the last place for an attester,  *)
(* the first file and the number of namings for a publisher.  seen is what   *)
(* was read of each file.                                                     *)

At(seen, p) == seen[p[1]][p[2]]
NameAt(seen, q) == At(seen, q[1]).publishers[q[2]]

LastOf(seen, P, p, a) ==
  At(seen, p).attester = a /\ \A q \in P : At(seen, q).attester = a => ~Before(p, q)

AttestersFrom(m, seen, P) ==
  /\ DOMAIN m = {At(seen, p).attester : p \in P}
  /\ m = [a \in DOMAIN m |-> m[a]]
  /\ \A a \in DOMAIN m : \E p \in P : LastOf(seen, P, p, a) /\ m[a] = At(seen, p).coinbase

NamingsOf(seen, N, u) == {q \in N : NameAt(seen, q) = u}
FilesNaming(seen, N, u) == {q[1][1] : q \in NamingsOf(seen, N, u)}

FirstIn(seen, N, f, u) ==
  f \in FilesNaming(seen, N, u) /\ \A g \in FilesNaming(seen, N, u) : Rank(f) <= Rank(g)

PublishersFrom(m, seen, N) ==
  /\ IsFiniteSet(N)
  /\ DOMAIN m = {NameAt(seen, q) : q \in N}
  /\ m = [u \in DOMAIN m |-> m[u]]
  /\ \A u \in DOMAIN m :
        \E f \in Files :
          /\ FirstIn(seen, N, f, u)
          /\ m[u] = [serverId |-> f, attesterCount |-> Cardinality(NamingsOf(seen, N, u))]

LEMMA BeforeIsStrict ==
  ASSUME NEW p \in Files \X Nat, NEW q \in Files \X Nat
  PROVE  /\ Before(p, q) => ~Before(q, p)
         /\ ~Before(p, p)
         /\ p # q => Before(p, q) \/ Before(q, p)
<1>1. p[1] \in Files /\ q[1] \in Files /\ p[2] \in Nat /\ q[2] \in Nat
  OBVIOUS
<1>2. p = <<p[1], p[2]>> /\ q = <<q[1], q[2]>>
  OBVIOUS
<1>3. Rank(p[1]) \in Nat /\ Rank(q[1]) \in Nat
  BY <1>1, RankIs
<1>4. Rank(p[1]) = Rank(q[1]) => p[1] = q[1]
  BY <1>1, RankIs
<1>5. p[1] = q[1] /\ p[2] = q[2] => p = q
  BY <1>2
<1> QED BY <1>1, <1>3, <1>4, <1>5 DEF Before

\* The next place overrides what the earlier ones said of its attester.
LEMMA AttesterStep ==
  ASSUME NEW m, NEW seen, NEW P \in SUBSET (Files \X Nat), AttestersFrom(m, seen, P),
         NEW p \in Files \X Nat, \A q \in P : Before(q, p)
  PROVE  AttestersFrom(Put(m, At(seen, p).attester, At(seen, p).coinbase), seen, P \cup {p})
<1> DEFINE b == At(seen, p).attester
           new == Put(m, b, At(seen, p).coinbase)
           all == P \cup {p}
<1>1. /\ DOMAIN new = DOMAIN m \cup {b} /\ new[b] = At(seen, p).coinbase
      /\ \A a \in DOMAIN m : a # b => new[a] = m[a]
      /\ new = [a \in DOMAIN m \cup {b} |-> IF a = b THEN At(seen, p).coinbase ELSE m[a]]
  BY DEF Put
<1>2. \A q \in all : ~Before(p, q)
  BY BeforeIsStrict
<1> HIDE DEF new
<1>3. DOMAIN new = {At(seen, q).attester : q \in all}
  BY <1>1 DEF AttestersFrom
<1>4. new = [a \in DOMAIN new |-> new[a]]
  BY <1>1
<1>5. ASSUME NEW a \in DOMAIN new
      PROVE  \E q \in all : LastOf(seen, all, q, a) /\ new[a] = At(seen, q).coinbase
  <2>1. CASE a = b
    BY <1>1, <1>2, <2>1 DEF LastOf
  <2>2. CASE a # b
    <3>1. a \in DOMAIN m /\ new[a] = m[a]
      BY <1>1, <2>2
    <3>2. PICK q \in P : LastOf(seen, P, q, a) /\ m[a] = At(seen, q).coinbase
      BY <3>1 DEF AttestersFrom
    <3>3. LastOf(seen, all, q, a)
      BY <2>2, <3>2 DEF LastOf
    <3> QED BY <3>1, <3>2, <3>3
  <2> QED BY <2>1, <2>2
<1> QED BY <1>3, <1>4, <1>5 DEF AttestersFrom, new

\* The next naming counts, and changes the file of no publisher that has one.
LEMMA PublisherStep ==
  ASSUME NEW m \in MapsOf(Publishers, Lists), NEW seen, NEW N, PublishersFrom(m, seen, N),
         NEW q, q \notin N, NEW file \in Files, q[1][1] = file,
         NameAt(seen, q) \in Publishers,
         \A r \in N : r[1][1] \in Files /\ Rank(r[1][1]) <= Rank(file)
  PROVE  PublishersFrom(AddPublisher(m, NameAt(seen, q), file), seen, N \cup {q})
<1> DEFINE w == NameAt(seen, q)
           entry == Counted(m, w, file)
           new == Put(m, w, entry)
           all == N \cup {q}
<1>1. AddPublisher(m, w, file) = new /\ entry \in Lists
  BY AddPublisherIs
<1> HIDE DEF entry
<1>2. /\ DOMAIN new = DOMAIN m \cup {w} /\ new[w] = entry
      /\ \A u \in DOMAIN m : u # w => new[u] = m[u]
      /\ new = [u \in DOMAIN m \cup {w} |-> IF u = w THEN entry ELSE m[u]]
  BY DEF Put
<1> HIDE DEF new
<1>3. IsFiniteSet(all)
  BY FS_AddElement DEF PublishersFrom
<1>4. DOMAIN new = {NameAt(seen, r) : r \in all}
  BY <1>2 DEF PublishersFrom
<1>5. new = [u \in DOMAIN new |-> new[u]]
  BY <1>2
<1>6. Rank(file) \in Nat
  BY RankIs
<1>7. ASSUME NEW u \in DOMAIN new
      PROVE  \E f \in Files :
               /\ FirstIn(seen, all, f, u)
               /\ new[u] = [serverId |-> f, attesterCount |-> Cardinality(NamingsOf(seen, all, u))]
  <2>1. CASE u # w
    <3>1. NamingsOf(seen, all, u) = NamingsOf(seen, N, u)
      BY <2>1 DEF NamingsOf
    <3>2. new[u] = m[u] /\ u \in DOMAIN m
      BY <1>2, <2>1
    <3>3. PICK f \in Files :
            /\ FirstIn(seen, N, f, u)
            /\ m[u] = [serverId |-> f, attesterCount |-> Cardinality(NamingsOf(seen, N, u))]
      BY <3>2 DEF PublishersFrom
    <3>4. FirstIn(seen, all, f, u)
      BY <3>1, <3>3 DEF FirstIn, FilesNaming
    <3> QED BY <3>1, <3>2, <3>3, <3>4
  <2>2. CASE u = w /\ w \in DOMAIN m
    <3>1. PICK f \in Files :
            /\ FirstIn(seen, N, f, w)
            /\ m[w] = [serverId |-> f, attesterCount |-> Cardinality(NamingsOf(seen, N, w))]
      BY <2>2 DEF PublishersFrom
    <3> DEFINE before == NamingsOf(seen, N, w)
    <3>2. NamingsOf(seen, all, w) = before \cup {q} /\ q \notin before
      BY DEF NamingsOf
    <3>3. IsFiniteSet(before)
      <4>1. before \subseteq N
        BY DEF NamingsOf
      <4> HIDE DEF before
      <4> QED BY <4>1, FS_Subset DEF PublishersFrom
    <3>4. Cardinality(before \cup {q}) = Cardinality(before) + 1
      <4> HIDE DEF before
      <4> QED BY <3>2, <3>3, FS_AddElement
    <3> HIDE DEF before
    <3>5. entry = [serverId |-> f, attesterCount |-> Cardinality(before) + 1]
      BY <2>2, <3>1 DEF entry, Counted, before
    <3>6. FilesNaming(seen, all, w) = FilesNaming(seen, N, w) \cup {file}
      BY <3>2 DEF FilesNaming, before
    <3>7. f \in FilesNaming(seen, N, w) /\ \A g \in FilesNaming(seen, N, w) : Rank(f) <= Rank(g)
      BY <3>1 DEF FirstIn
    <3>8. Rank(f) <= Rank(file)
      <4>1. PICK r \in N : f = r[1][1]
        BY <3>7 DEF FilesNaming, NamingsOf
      <4> QED BY <4>1
    <3>9. FirstIn(seen, all, f, w)
      BY <3>6, <3>7, <3>8 DEF FirstIn
    <3> QED BY <1>2, <2>2, <3>2, <3>4, <3>5, <3>9
  <2>3. CASE u = w /\ w \notin DOMAIN m
    <3>1. NamingsOf(seen, N, w) = {}
      BY <2>3 DEF NamingsOf, PublishersFrom
    <3>2. NamingsOf(seen, all, w) = {q}
      BY <3>1 DEF NamingsOf
    <3>3. Cardinality({q}) = 1
      BY FS_Singleton
    <3>4. entry = [serverId |-> file, attesterCount |-> 1]
      BY <2>3 DEF entry, Counted
    <3>5. FilesNaming(seen, all, w) = {file}
      BY <3>2 DEF FilesNaming
    <3>6. FirstIn(seen, all, file, w)
      <4>1. Rank(file) <= Rank(file)
        BY <1>6
      <4> HIDE DEF all, w
      <4> QED BY <3>5, <4>1, Zenon DEF FirstIn
    <3> QED BY <1>2, <2>3, <3>2, <3>3, <3>4, <3>6
  <2> QED BY <2>1, <2>2, <2>3
<1>8. PublishersFrom(new, seen, all)
  BY <1>3, <1>4, <1>5, <1>7 DEF PublishersFrom
<1> QED BY <1>1, <1>8

\* All the publishers of the validator at place p.
LEMMA PublishersStep ==
  ASSUME NEW m \in MapsOf(Publishers, Lists), NEW seen, NEW N, PublishersFrom(m, seen, N),
         NEW p, NEW file \in Files, p[1] = file, At(seen, p) \in Validators,
         \A r \in N : r[1] # p /\ r[1][1] \in Files /\ Rank(r[1][1]) <= Rank(file)
  PROVE  PublishersFrom(AddPublishers(m, At(seen, p).publishers, file), seen,
                        N \cup ({p} \X DOMAIN At(seen, p).publishers))
<1> DEFINE names == At(seen, p).publishers
           L == Len(names)
           upTo(j) == N \cup ({p} \X (1..j))
<1>1. names \in Seq(Publishers) /\ L \in Nat /\ DOMAIN names = 1..L
  <2>1. names \in Seq(Publishers)
    BY ValidatorFields
  <2> HIDE DEF names
  <2> QED BY <2>1
<1>2. PICK f \in [0..L -> MapsOf(Publishers, Lists)] : AddedUpTo(f, m, names, file)
  <2> HIDE DEF names
  <2> QED BY <1>1, PublishersOneByOne
<1> DEFINE Good == {j \in 0..L : PublishersFrom(f[j], seen, upTo(j))}
<1>3. 0 \in Good
  <2>1. upTo(0) = N
    <3>1. 1..0 = {}
      OBVIOUS
    <3>2. {p} \X {} = {}
      OBVIOUS
    <3> QED BY <3>1, <3>2
  <2>2. f[0] = m
    BY <1>2 DEF AddedUpTo
  <2> QED BY <1>1, <2>1, <2>2
<1>4. ASSUME NEW j \in 1..L, j - 1 \in Good PROVE j \in Good
  <2>1. j \in 0..L /\ j - 1 \in 0..L /\ j \in Nat
    BY <1>1
  <2> DEFINE old == f[j - 1]
             before == upTo(j - 1)
             q == <<p, j>>
  <2>2. old \in MapsOf(Publishers, Lists)
    BY <2>1
  <2>3. PublishersFrom(old, seen, before)
    BY <1>4
  <2>4. q[1] = p /\ q[2] = j
    OBVIOUS
  <2>5. NameAt(seen, q) = names[j] /\ names[j] \in Publishers
    <3>1. NameAt(seen, q) = names[j]
      BY <2>4 DEF NameAt
    <3> HIDE DEF names
    <3> QED BY <1>1, <3>1
  <2>6. upTo(j) = before \cup {q}
    <3>1. 1..j = (1..(j - 1)) \cup {j}
      BY <2>1
    <3>2. {p} \X ((1..(j - 1)) \cup {j}) = ({p} \X (1..(j - 1))) \cup {q}
      OBVIOUS
    <3> QED BY <3>1, <3>2
  <2>7. q \notin before
    <3>1. q \notin N
      BY <2>4
    <3>2. j \notin 1..(j - 1)
      BY <2>1
    <3> QED BY <3>1, <3>2
  <2>8. \A r \in before : r[1][1] \in Files /\ Rank(r[1][1]) <= Rank(file)
    <3>1. Rank(file) \in Nat
      BY RankIs
    <3> QED BY <3>1
  <2>9. f[j] = AddPublisher(old, NameAt(seen, q), file)
    BY <1>2, <2>5 DEF AddedUpTo
  <2> HIDE DEF old, before, q, names, L
  <2>10. PublishersFrom(AddPublisher(old, NameAt(seen, q), file), seen, before \cup {q})
    BY <2>2, <2>3, <2>4, <2>5, <2>7, <2>8, PublisherStep
  <2> QED BY <2>1, <2>6, <2>9, <2>10
<1>5. \A j \in 0..L : j \in Good
  <2> HIDE DEF Good, L
  <2> QED BY <1>1, <1>3, <1>4, PrefixInduction, Zenon
<1>6. L \in Good
  <2> HIDE DEF Good, L
  <2> QED BY <1>1, <1>5
<1> QED BY <1>1, <1>2, <1>6 DEF AddedUpTo

-----------------------------------------------------------------------------
(* Whole validators, and whole files.                                        *)

NamingsAt(seen, P) == UNION {{p} \X DOMAIN At(seen, p).publishers : p \in P}

Says(m, seen, P) ==
  /\ m \in Configs
  /\ AttestersFrom(m.attesters, seen, P)
  /\ PublishersFrom(m.publishers, seen, NamingsAt(seen, P))

LEMMA MergeStep ==
  ASSUME NEW m, NEW seen, NEW P \in SUBSET (Files \X Nat), Says(m, seen, P),
         NEW p \in Files \X Nat, \A q \in P : Before(q, p), At(seen, p) \in Validators
  PROVE  Says(MergeValidator(m, At(seen, p), p[1]), seen, P \cup {p})
<1> DEFINE v == At(seen, p)
           file == p[1]
           N == NamingsAt(seen, P)
<1>1. m \in Configs /\ file \in Files /\ v \in Validators
  BY DEF Says
<1>2. m.publishers \in MapsOf(Publishers, Lists)
  BY <1>1 DEF Configs
<1>3. AttestersFrom(Put(m.attesters, v.attester, v.coinbase), seen, P \cup {p})
  BY AttesterStep DEF Says
<1>4. ASSUME NEW r \in N
      PROVE  r[1] # p /\ r[1][1] \in Files /\ Rank(r[1][1]) <= Rank(file)
  <2>1. PICK q \in P : r \in {q} \X DOMAIN At(seen, q).publishers
    BY DEF NamingsAt
  <2>2. r[1] = q
    BY <2>1
  <2>3. Before(q, p) /\ q[1] \in Files
    OBVIOUS
  <2>4. q # p
    BY <2>3, BeforeIsStrict
  <2>5. Rank(q[1]) \in Nat /\ Rank(file) \in Nat
    BY <1>1, <2>3, RankIs
  <2>6. Rank(q[1]) <= Rank(file)
    BY <2>3, <2>5 DEF Before
  <2> QED BY <2>2, <2>3, <2>4, <2>6
<1>5. PublishersFrom(m.publishers, seen, N)
  BY DEF Says
<1>6. PublishersFrom(AddPublishers(m.publishers, v.publishers, file), seen,
                     N \cup ({p} \X DOMAIN v.publishers))
  <2> DEFINE pubs == m.publishers
  <2>1. pubs \in MapsOf(Publishers, Lists) /\ PublishersFrom(pubs, seen, N)
    BY <1>2, <1>5
  <2>2. file \in Files /\ p[1] = file /\ At(seen, p) \in Validators
    BY <1>1
  <2> HIDE DEF pubs, N, file
  <2>3. PublishersFrom(AddPublishers(pubs, At(seen, p).publishers, file), seen,
                       N \cup ({p} \X DOMAIN At(seen, p).publishers))
    BY <1>4, <2>1, <2>2, PublishersStep
  <2> QED BY <2>3 DEF pubs
<1>7. NamingsAt(seen, P \cup {p}) = N \cup ({p} \X DOMAIN v.publishers)
  BY DEF NamingsAt
<1>8. /\ MergeValidator(m, v, file) \in Configs
      /\ MergeValidator(m, v, file).attesters = Put(m.attesters, v.attester, v.coinbase)
      /\ MergeValidator(m, v, file).publishers = AddPublishers(m.publishers, v.publishers, file)
  <2> HIDE DEF v, file
  <2> QED BY <1>1, MergeValidatorType
<1> HIDE DEF v, file, N
<1>9. Says(MergeValidator(m, v, file), seen, P \cup {p})
  BY <1>3, <1>6, <1>7, <1>8 DEF Says
<1> QED BY <1>9 DEF v, file

\* A file adds what it says to what the earlier files say.
LEMMA FileStep ==
  ASSUME NEW m, NEW seen, NEW P \in SUBSET (Files \X Nat), Says(m, seen, P),
         NEW file \in Files, seen[file] = dir[file], dir[file] \in Seq(Validators),
         \A q \in P : Rank(q[1]) < Rank(file)
  PROVE  Says(MergeFile(m, file), seen, P \cup ({file} \X DOMAIN dir[file]))
<1> DEFINE content == dir[file]
           L == Len(content)
           upTo(i) == P \cup ({file} \X (1..i))
<1>1. /\ L \in Nat /\ DOMAIN content = 1..L
      /\ \A i \in 1..L : content[i] \in Validators
  OBVIOUS
<1>2. m \in Configs
  BY DEF Says
<1>3. PICK r \in [0..L -> Configs] : MergedUpTo(r, m, content, file) /\ MergeFile(m, file) = r[L]
  BY <1>2, ValidatorsOneByOne
<1> DEFINE Good == {i \in 0..L : Says(r[i], seen, upTo(i))}
<1>4. 0 \in Good
  <2>1. upTo(0) = P
    <3>1. 1..0 = {} /\ {file} \X {} = {}
      OBVIOUS
    <3> QED BY <3>1
  <2>2. r[0] = m
    BY <1>3 DEF MergedUpTo
  <2>3. Says(r[0], seen, upTo(0))
    <3> HIDE DEF upTo
    <3> QED BY <2>1, <2>2
  <2> QED BY <1>1, <2>3
<1>5. ASSUME NEW i \in 1..L, i - 1 \in Good PROVE i \in Good
  <2> DEFINE old == r[i - 1]
             before == upTo(i - 1)
             p == <<file, i>>
  <2>1. i \in 0..L /\ i - 1 \in 0..L /\ i \in Nat
    BY <1>1
  <2>2. Says(old, seen, before)
    BY <1>5
  <2>3. before \in SUBSET (Files \X Nat)
    OBVIOUS
  <2>4. p \in Files \X Nat /\ p[1] = file /\ p[2] = i
    BY <2>1
  <2>5. At(seen, p) = content[i] /\ At(seen, p) \in Validators
    <3>1. At(seen, p) = content[i]
      BY <2>4 DEF At
    <3> HIDE DEF content, L, p
    <3> QED BY <1>1, <3>1
  <2>6. ASSUME NEW q \in before PROVE Before(q, p)
    <3>1. CASE q \in P
      BY <2>4, <3>1 DEF Before
    <3>2. CASE q \in {file} \X (1..(i - 1))
      <4>1. q[1] = file /\ q[2] \in 1..(i - 1)
        BY <3>2
      <4>2. q[2] < i
        BY <2>1, <4>1
      <4> QED BY <2>4, <4>1, <4>2 DEF Before
    <3> QED BY <3>1, <3>2
  <2>7. upTo(i) = before \cup {p}
    <3>1. 1..i = (1..(i - 1)) \cup {i}
      BY <2>1
    <3>2. {file} \X ((1..(i - 1)) \cup {i}) = ({file} \X (1..(i - 1))) \cup {p}
      OBVIOUS
    <3> QED BY <3>1, <3>2
  <2>8. r[i] = MergeValidator(old, content[i], file)
    BY <1>3 DEF MergedUpTo
  <2> HIDE DEF old, before, p, content, L
  <2>9. Says(MergeValidator(old, At(seen, p), p[1]), seen, before \cup {p})
    BY <2>2, <2>3, <2>4, <2>5, <2>6, MergeStep
  <2> QED BY <2>1, <2>4, <2>5, <2>7, <2>8, <2>9
<1>6. \A i \in 0..L : i \in Good
  <2> HIDE DEF Good, L
  <2> QED BY <1>1, <1>4, <1>5, PrefixInduction, Zenon
<1>7. L \in Good
  <2> HIDE DEF Good, L
  <2> QED BY <1>1, <1>6
<1> QED BY <1>1, <1>3, <1>7

\* What a set of places says depends on their files only.
LEMMA SaysSame ==
  ASSUME NEW m, NEW seen, NEW other, NEW P, Says(m, seen, P),
         \A p \in P : seen[p[1]] = other[p[1]]
  PROVE  Says(m, other, P)
<1> DEFINE N == NamingsAt(seen, P)
<1>1. \A p \in P : At(seen, p) = At(other, p)
  BY DEF At
<1>2. NamingsAt(other, P) = N
  BY <1>1 DEF NamingsAt
<1>3. \A q \in N : NameAt(seen, q) = NameAt(other, q)
  <2> SUFFICES ASSUME NEW q \in N PROVE NameAt(seen, q) = NameAt(other, q)
    OBVIOUS
  <2>1. PICK p \in P : q \in {p} \X DOMAIN At(seen, p).publishers
    BY DEF NamingsAt
  <2>2. q[1] = p
    BY <2>1
  <2> QED BY <1>1, <2>2 DEF NameAt
<1>4. AttestersFrom(m.attesters, other, P)
  <2>1. AttestersFrom(m.attesters, seen, P)
    BY DEF Says
  <2>2. DOMAIN m.attesters = {At(other, p).attester : p \in P}
    BY <1>1, <2>1 DEF AttestersFrom
  <2>3. ASSUME NEW a \in DOMAIN m.attesters
        PROVE  \E p \in P : LastOf(other, P, p, a) /\ m.attesters[a] = At(other, p).coinbase
    <3>1. PICK p \in P : LastOf(seen, P, p, a) /\ m.attesters[a] = At(seen, p).coinbase
      BY <2>1 DEF AttestersFrom
    <3> QED BY <1>1, <3>1 DEF LastOf
  <2> QED BY <2>1, <2>2, <2>3 DEF AttestersFrom
<1> HIDE DEF N
<1>5. \A u : NamingsOf(seen, N, u) = NamingsOf(other, N, u)
  BY <1>3 DEF NamingsOf
<1>6. \A u, f : FirstIn(seen, N, f, u) <=> FirstIn(other, N, f, u)
  BY <1>5 DEF FirstIn, FilesNaming
<1>7. PublishersFrom(m.publishers, other, N)
  <2>1. PublishersFrom(m.publishers, seen, N)
    BY DEF Says, N
  <2>2. {NameAt(other, q) : q \in N} = {NameAt(seen, q) : q \in N}
    BY <1>3
  <2> QED BY <2>1, <2>2, <1>5, <1>6 DEF PublishersFrom
<1> QED BY <1>2, <1>4, <1>7 DEF Says

\* Nothing read, nothing said.
LEMMA NothingSays ==
  ASSUME NEW seen PROVE Says(Nothing, seen, {})
<1>1. NamingsAt(seen, {}) = {}
  BY DEF NamingsAt
<1>2. DOMAIN <<>> = {} /\ <<>> = [x \in {} |-> <<>>[x]]
  OBVIOUS
<1>3. \A D, R : <<>> \in MapsOf(D, R)
  <2> SUFFICES ASSUME NEW D, NEW R PROVE <<>> \in MapsOf(D, R)
    OBVIOUS
  <2>1. <<>> \in [{} -> R]
    BY <1>2
  <2> QED BY <2>1 DEF MapsOf
<1>4. /\ Nothing \in Configs /\ Nothing.attesters = <<>> /\ Nothing.publishers = <<>>
  BY <1>3 DEF Nothing, Configs
<1>5. AttestersFrom(<<>>, seen, {})
  BY <1>2 DEF AttestersFrom
<1>6. PublishersFrom(<<>>, seen, {})
  BY <1>2, FS_EmptySet DEF PublishersFrom
<1> QED BY <1>1, <1>4, <1>5, <1>6 DEF Says

\* The lists that say what the whole directory says are its meaning.
LEMMA SaysAll ==
  ASSUME NEW m, Says(m, dir, Places), Places \subseteq Files \X Nat
  PROVE  m = Meaning
<1>1. \A p : At(dir, p) = Validator(p)
  BY DEF At, Validator
<1>2. \A q : NameAt(dir, q) = Named(q)
  BY <1>1 DEF NameAt, Named
<1>3. NamingsAt(dir, Places) = Namings
  BY <1>1 DEF NamingsAt, Namings
<1>4. /\ AttestersFrom(m.attesters, dir, Places) /\ PublishersFrom(m.publishers, dir, Namings)
      /\ m = [attesters |-> m.attesters, publishers |-> m.publishers]
  BY <1>3 DEF Says, Configs
<1>5. m.attesters = [a \in {Validator(p).attester : p \in Places} |->
                        Validator(LastPlace(a)).coinbase]
  <2> DEFINE map == m.attesters
  <2>1. /\ DOMAIN map = {Validator(p).attester : p \in Places}
        /\ map = [a \in DOMAIN map |-> map[a]]
    BY <1>1, <1>4 DEF AttestersFrom
  <2>2. ASSUME NEW a \in DOMAIN map PROVE map[a] = Validator(LastPlace(a)).coinbase
    <3>1. PICK p \in Places : LastOf(dir, Places, p, a) /\ map[a] = Validator(p).coinbase
      BY <1>1, <1>4 DEF AttestersFrom
    <3>2. /\ Validator(p).attester = a
          /\ \A q \in Places : Validator(q).attester = a => ~Before(p, q)
      BY <1>1, <3>1 DEF LastOf
    <3>3. /\ LastPlace(a) \in Places /\ Validator(LastPlace(a)).attester = a
          /\ \A q \in Places : Validator(q).attester = a => ~Before(LastPlace(a), q)
      BY <3>2 DEF LastPlace
    <3>4. p = LastPlace(a)
      BY <3>2, <3>3, BeforeIsStrict
    <3> QED BY <3>1, <3>4
  <2> HIDE DEF map
  <2>3. map = [a \in {Validator(p).attester : p \in Places} |-> Validator(LastPlace(a)).coinbase]
    BY <2>1, <2>2
  <2> QED BY <2>3 DEF map
<1>6. m.publishers = [u \in {Named(q) : q \in Namings} |->
                        [serverId |-> FirstFile(u),
                         attesterCount |-> Cardinality({q \in Namings : Named(q) = u})]]
  <2> DEFINE map == m.publishers
  <2>1. DOMAIN map = {Named(q) : q \in Namings} /\ map = [u \in DOMAIN map |-> map[u]]
    BY <1>2, <1>4 DEF PublishersFrom
  <2>2. \A u : NamingsOf(dir, Namings, u) = {q \in Namings : Named(q) = u}
    BY <1>2 DEF NamingsOf
  <2>3. \A u : FilesNaming(dir, Namings, u) = NamingFiles(u)
    BY <2>2 DEF FilesNaming, NamingFiles
  <2>4. ASSUME NEW u \in DOMAIN map
        PROVE  map[u] = [serverId |-> FirstFile(u),
                         attesterCount |-> Cardinality({q \in Namings : Named(q) = u})]
    <3>1. PICK f \in Files :
            /\ FirstIn(dir, Namings, f, u)
            /\ map[u] = [serverId |-> f,
                         attesterCount |-> Cardinality(NamingsOf(dir, Namings, u))]
      BY <1>4 DEF PublishersFrom
    <3>2. f \in NamingFiles(u) /\ \A g \in NamingFiles(u) : Rank(f) <= Rank(g)
      BY <2>3, <3>1 DEF FirstIn
    <3>3. /\ FirstFile(u) \in NamingFiles(u)
          /\ \A g \in NamingFiles(u) : Rank(FirstFile(u)) <= Rank(g)
      BY <3>2 DEF FirstFile
    <3>4. FirstFile(u) \in Files
      <4>1. PICK q \in Namings : FirstFile(u) = q[1][1]
        BY <3>3 DEF NamingFiles
      <4>2. PICK p \in Places : q \in {p} \X DOMAIN Validator(p).publishers
        BY DEF Namings
      <4>3. q[1] = p /\ p \in Files \X Nat
        BY <4>2
      <4> QED BY <4>1, <4>3
    <3>5. f = FirstFile(u)
      <4>1. Rank(f) \in Nat /\ Rank(FirstFile(u)) \in Nat
        BY <3>4, RankIs
      <4>2. Rank(f) = Rank(FirstFile(u))
        BY <3>2, <3>3, <4>1
      <4> QED BY <3>4, <4>2, RankIs
    <3> QED BY <2>2, <3>1, <3>5
  <2> HIDE DEF map
  <2>5. map = [u \in {Named(q) : q \in Namings} |->
                [serverId |-> FirstFile(u),
                 attesterCount |-> Cardinality({q \in Namings : Named(q) = u})]]
    BY <2>1, <2>4
  <2> QED BY <2>5 DEF map
<1> QED BY <1>4, <1>5, <1>6 DEF Meaning

-----------------------------------------------------------------------------
(* Where a load or a reload can be.                                          *)

ControlInv ==
  /\ phase \in {"booting", "nodeInfo", "watching", "skipped"}
  /\ loading \in {"no", "listing", "reading"}
  /\ isReloading \in BOOLEAN /\ scanned \in BOOLEAN
  /\ isReloading => phase = "watching" /\ loading # "no" /\ scanned
  /\ phase = "watching" /\ loading # "no" => isReloading
  /\ phase \in {"nodeInfo", "skipped"} => loading = "no"
  /\ phase = "booting" => loading # "no"
  /\ scanned => phase = "watching"

\* A timer was set by a change that the watcher had seen.
Due(f) == timers[f] + (IF f \in changed THEN 1 ELSE 0)

WatchInv ==
  /\ writes \in 0..MaxWrites /\ failures \in 0..MaxFailures /\ restarts \in 0..MaxRestarts
  /\ dir \in [Files -> Keystores \cup {Absent, Broken}]
  /\ changed \subseteq Files /\ timers \in [Files -> Nat]
  /\ \A f \in Files : Due(f) <= writes
  /\ ~scanned => changed = {} /\ \A f \in Files : timers[f] = 0
  /\ dropped \subseteq Files /\ covers \subseteq Files

Growing(files) ==
  \A i, j \in DOMAIN files : i < j => Rank(files[i]) < Rank(files[j])

LoadInv ==
  /\ todo \in Seq(Files) /\ Growing(todo)
  /\ loading # "reading" => todo = <<>>
  /\ loading # "reading" /\ phase # "nodeInfo" => merged = Nothing
  /\ merged \in Configs /\ config \in Configs /\ scraped \subseteq Publishers

\* Something is still to happen, or was dropped, because of this file.
Pending(f) == f \in changed \/ f \in dropped \/ timers[f] > 0

PlacesIn(seen, S) == UNION {{f} \X DOMAIN seen[f] : f \in {g \in S : seen[g] \in Keystores}}

\* seen is what the load has read of the files that are not to do any more.
ReadSoFar(seen) ==
  /\ seen \in [Files -> Keystores \cup {Absent}]
  /\ Says(merged, seen, PlacesIn(seen, Files \ Range(todo)))
  /\ \A f \in Files \ Range(todo) : seen[f] = dir[f] \/ Pending(f)
  /\ \A f \in Files \ Range(todo), g \in Range(todo) :
        seen[f] # Absent => Rank(f) < Rank(g)

Loaded == loading = "reading" \/ phase = "nodeInfo"

ReadInv ==
  /\ Loaded => \E seen : ReadSoFar(seen)
  /\ phase = "watching" => \A f \in Range(todo) : dir[f] # Absent \/ Pending(f)

\* The lists in use say what the directory says, or there is a reason.
UseInv ==
  phase = "watching" =>
    \/ config = Meaning \/ loading # "no" \/ ~Usable
    \/ \E f \in Files : Pending(f)

KeysInv == ControlInv /\ WatchInv /\ LoadInv /\ ReadInv /\ UseInv

LEMMA NextControl ==
  ControlInv /\ WatchInv /\ LoadInv /\ [Next]_vars => ControlInv'
<1> SUFFICES ASSUME ControlInv, WatchInv, LoadInv, [Next]_vars PROVE ControlInv'
  OBVIOUS
<1>1. ASSUME UNCHANGED <<phase, loading, isReloading, scanned>> PROVE ControlInv'
  BY <1>1 DEF ControlInv
<1>2. CASE List
  BY <1>2 DEF List, watcher, ControlInv
<1>3. CASE ReadFile
  BY <1>1, <1>3 DEF ReadFile, watcher
<1>4. ASSUME NEW lost, LoadThrows(lost), loading # "no" PROVE ControlInv'
  BY <1>4 DEF LoadThrows, Abandon, StopLoading, watcher, ControlInv
<1>5. CASE ReadUnusable
  BY <1>4, <1>5 DEF ReadUnusable
<1>6. CASE ReadFails
  BY <1>4, <1>6 DEF ReadFails, LoadInv
<1>7. CASE BootLoaded \/ NodeInfoAnswers \/ NodeInfoThrows \/ Restart \/ FirstScan
           \/ ReloadApplies
  <2>1. CASE BootLoaded
    BY <2>1 DEF BootLoaded, watcher, ControlInv
  <2>2. CASE NodeInfoAnswers \/ NodeInfoThrows
    BY <2>2 DEF NodeInfoAnswers, NodeInfoThrows, watcher, ControlInv
  <2>3. CASE Restart
    BY <2>3 DEF Restart, ControlInv
  <2>4. CASE FirstScan
    BY <2>4 DEF FirstScan, load, ControlInv
  <2>5. CASE ReloadApplies
    BY <2>5 DEF ReloadApplies, StopLoading, watcher, ControlInv
  <2> QED BY <1>7, <2>1, <2>2, <2>3, <2>4, <2>5
<1>8. ASSUME NEW f \in Files, NEW c, Write(f, c) PROVE ControlInv'
  BY <1>1, <1>8 DEF Write, load
<1>9. ASSUME NEW f \in Files, Notice(f) PROVE ControlInv'
  BY <1>1, <1>9 DEF Notice, load
<1>10. ASSUME NEW f \in Files, ReloadStarts(f) PROVE ControlInv'
  <2>1. timers[f] > 0
    BY <1>10 DEF ReloadStarts, Fire
  <2>2. scanned
    BY <2>1 DEF WatchInv
  <2> QED BY <1>10, <2>2 DEF ReloadStarts, ControlInv
<1>11. ASSUME NEW f \in Files, ReloadRefused(f) PROVE ControlInv'
  BY <1>1, <1>11 DEF ReloadRefused, load
<1>12. CASE ReloadEmpty
  BY <1>4, <1>12 DEF ReloadEmpty
<1>13. CASE UNCHANGED vars
  BY <1>1, <1>13 DEF vars, watcher, load
<1> QED BY <1>2, <1>3, <1>5, <1>6, <1>7, <1>8, <1>9, <1>10, <1>11, <1>12, <1>13 DEF Next

LEMMA NextWatch ==
  ControlInv /\ WatchInv /\ [Next]_vars => WatchInv'
<1> SUFFICES ASSUME ControlInv, WatchInv, [Next]_vars PROVE WatchInv'
  OBVIOUS
<1>0. /\ MaxWrites \in Nat /\ MaxFailures \in Nat /\ MaxRestarts \in Nat
      /\ writes \in Nat /\ failures \in Nat /\ restarts \in Nat
      /\ \A f \in Files : timers[f] \in Nat
  BY BoundsAssumption DEF WatchInv
<1>1. ASSUME UNCHANGED <<dir, writes, watcher>>, failures' \in 0..MaxFailures,
             restarts' \in 0..MaxRestarts, dropped' \subseteq Files, covers' \subseteq Files
      PROVE  WatchInv'
  BY <1>1 DEF watcher, WatchInv, Due
<1>2. ASSUME failures < MaxFailures, failures' = failures + 1
      PROVE  failures' \in 0..MaxFailures
  BY <1>0, <1>2
<1>3. CASE List \/ BootLoaded \/ NodeInfoAnswers \/ ReloadApplies
  <2>1. UNCHANGED <<external, watcher>> /\ dropped' \subseteq Files /\ covers' \subseteq Files
    BY <1>3 DEF List, BootLoaded, NodeInfoAnswers, ReloadApplies, Observed, StopLoading, WatchInv
  <2> QED BY <1>1, <2>1 DEF external, WatchInv
<1>4. CASE ReadFile
  <2>1. UNCHANGED <<external, watcher>> /\ dropped' \subseteq Files /\ covers' \subseteq Files
    BY <1>4 DEF ReadFile, Observed, WatchInv
  <2> QED BY <1>1, <2>1 DEF external, WatchInv
<1>5. ASSUME NEW lost \in SUBSET Files, LoadThrows(lost), failures' \in 0..MaxFailures
      PROVE  WatchInv'
  <2>1. UNCHANGED <<dir, writes, restarts, watcher>> /\ dropped' \subseteq Files /\ covers' = {}
    BY <1>5 DEF LoadThrows, Abandon, StopLoading, WatchInv
  <2> QED BY <1>1, <1>5, <2>1 DEF WatchInv
<1>6. CASE ReadUnusable \/ ReloadEmpty
  BY <1>5, <1>6 DEF ReadUnusable, ReloadEmpty, WatchInv
<1>7. CASE ReadFails
  BY <1>2, <1>5, <1>7 DEF ReadFails
<1>8. CASE NodeInfoThrows
  BY <1>1, <1>2, <1>8 DEF NodeInfoThrows, WatchInv
<1>9. CASE Restart
  <2>1. restarts' \in 0..MaxRestarts
    BY <1>0, <1>9 DEF Restart
  <2>2. /\ changed' = {} /\ timers' = [f \in Files |-> 0] /\ dropped' = {} /\ covers' = {}
        /\ UNCHANGED <<dir, writes, failures>>
    BY <1>9 DEF Restart
  <2> QED BY <1>0, <2>1, <2>2 DEF WatchInv, Due
<1>10. ASSUME NEW f \in Files, NEW c \in Keystores \cup {Absent, Broken}, Write(f, c)
       PROVE  WatchInv'
  <2>1. /\ writes' = writes + 1 /\ writes' \in 0..MaxWrites
        /\ UNCHANGED <<failures, restarts, timers, covers, scanned>>
    BY <1>0, <1>10 DEF Write, load
  <2>2. dir' \in [Files -> Keystores \cup {Absent, Broken}]
    BY <1>10 DEF Write, WatchInv
  <2>3. changed' \subseteq changed \cup {f} /\ dropped' \subseteq Files
    BY <1>10 DEF Write, WatchInv
  <2>4. ASSUME NEW g \in Files PROVE Due(g)' <= writes'
    BY <1>0, <2>1 DEF Due, WatchInv
  <2>5. ~scanned' => changed' = {}
    BY <1>10 DEF Write, WatchInv
  <2> QED BY <2>1, <2>2, <2>3, <2>4, <2>5 DEF WatchInv
<1>11. CASE FirstScan
  BY <1>11 DEF FirstScan, external, load, WatchInv, Due
<1>12. ASSUME NEW f \in Files, Notice(f) PROVE WatchInv'
  <2>1. /\ f \in changed /\ changed' = changed \ {f}
        /\ timers' = [timers EXCEPT ![f] = @ + 1]
        /\ UNCHANGED <<external, scanned, covers, dropped>>
    BY <1>12 DEF Notice, load
  <2>2. timers' \in [Files -> Nat]
    BY <1>0, <2>1 DEF WatchInv
  <2>3. ASSUME NEW g \in Files PROVE Due(g)' <= writes
    BY <1>0, <2>1 DEF Due, WatchInv
  <2>4. scanned
    BY <2>1 DEF WatchInv
  <2> QED BY <2>1, <2>2, <2>3, <2>4 DEF external, WatchInv
<1>13. ASSUME NEW f \in Files, ReloadStarts(f) \/ ReloadRefused(f) PROVE WatchInv'
  <2>1. /\ timers[f] > 0 /\ timers' = [timers EXCEPT ![f] = @ - 1]
        /\ UNCHANGED <<external, scanned, covers, changed>> /\ dropped' \subseteq Files
    BY <1>13 DEF ReloadStarts, ReloadRefused, Fire, load, WatchInv
  <2>2. timers' \in [Files -> Nat]
    BY <1>0, <2>1 DEF WatchInv
  <2>3. ASSUME NEW g \in Files PROVE Due(g)' <= writes
    BY <1>0, <2>1 DEF Due, WatchInv
  <2>4. scanned
    BY <2>1 DEF WatchInv
  <2> QED BY <2>1, <2>2, <2>3, <2>4 DEF external, WatchInv
<1>14. CASE UNCHANGED vars
  BY <1>1, <1>14 DEF vars, external, load, WatchInv
<1> QED BY <1>3, <1>4, <1>6, <1>7, <1>8, <1>9, <1>10, <1>11, <1>12, <1>13, <1>14 DEF Next

\* Files are discovered in the order of their paths.
LEMMA DiscoveredGrows ==
  /\ Discovered \in Seq(Files) /\ Growing(Discovered) /\ Range(Discovered) = Present
<1> DEFINE kept == Kept(FileOrder, Present)
<1>1. /\ FileOrder \in Seq(Files) /\ DOMAIN FileOrder = 1..Len(FileOrder)
      /\ Len(FileOrder) \in Nat
  BY FilesAssumption
<1>2. kept \in Seq(Files) /\ Range(kept) = Range(FileOrder) \cap Present
  BY <1>1, KeptElements
<1>3. PICK at \in Seq(Nat) : TakenFrom(at, kept, FileOrder, Present, Len(FileOrder))
  BY <1>1, KeptPlaces
<1> HIDE DEF kept
<1>4. /\ \A j \in DOMAIN kept : at[j] \in DOMAIN FileOrder /\ kept[j] = FileOrder[at[j]]
      /\ \A j, k \in DOMAIN kept : j < k => at[j] < at[k]
  BY <1>1, <1>3 DEF TakenFrom
<1>5. \A j \in DOMAIN kept : Rank(kept[j]) = at[j]
  BY <1>4, RankOfPlace
<1>6. Growing(kept)
  BY <1>4, <1>5 DEF Growing
<1>7. Range(kept) = Present
  BY <1>2 DEF Present, Files
<1> QED BY <1>2, <1>6, <1>7 DEF Discovered, kept

LEMMA RestGrows ==
  ASSUME NEW files \in Seq(Files), Growing(files), files # <<>>
  PROVE  /\ Tail(files) \in Seq(Files) /\ Growing(Tail(files))
         /\ Head(files) \in Files /\ Head(files) \in Range(files)
         /\ Range(Tail(files)) = Range(files) \ {Head(files)}
         /\ \A g \in Range(Tail(files)) : Rank(Head(files)) < Rank(g)
<1> DEFINE N == Len(files)
<1>1. /\ N \in Nat /\ N > 0 /\ DOMAIN files = 1..N /\ Head(files) = files[1]
      /\ \A i \in 1..N : files[i] \in Files
  OBVIOUS
<1>2. /\ DOMAIN Tail(files) = 1..(N - 1)
      /\ \A i \in 1..(N - 1) : Tail(files)[i] = files[i + 1]
  <2>1. Len(Tail(files)) = N - 1 /\ Tail(files) \in Seq(Files)
    OBVIOUS
  <2>2. DOMAIN Tail(files) = 1..(N - 1)
    BY <1>1, <2>1
  <2>3. \A i \in 1..(N - 1) : Tail(files)[i] = files[i + 1]
    BY <1>1, <2>1
  <2> QED BY <2>2, <2>3
<1>3. \A i \in 1..(N - 1) : i + 1 \in 1..N /\ 1 < i + 1
  BY <1>1
<1>4. \A i, j \in 1..N : i < j => Rank(files[i]) < Rank(files[j])
  BY <1>1 DEF Growing
<1>5. IsInjective(files)
  <2> SUFFICES ASSUME NEW i \in 1..N, NEW j \in 1..N, files[i] = files[j] PROVE i = j
    BY <1>1 DEF IsInjective
  <2>1. Rank(files[i]) \in Nat
    BY <1>1, RankIs
  <2>2. ~(i < j) /\ ~(j < i)
    BY <1>4, <2>1
  <2> QED BY <2>2
<1>6. /\ Tail(files) \in Seq(Files) /\ Head(files) \in Range(files)
      /\ Range(Tail(files)) = Range(files) \ {Head(files)}
  BY <1>5, TailElements
<1>7. Head(files) \in Files /\ 1 \in 1..N
  BY <1>1
<1> HIDE DEF N
<1>8. Growing(Tail(files))
  <2> SUFFICES ASSUME NEW i \in 1..(N - 1), NEW j \in 1..(N - 1), i < j
               PROVE  Rank(Tail(files)[i]) < Rank(Tail(files)[j])
    BY <1>2 DEF Growing
  <2>1. i + 1 < j + 1
    OBVIOUS
  <2> QED BY <1>2, <1>3, <1>4, <2>1
<1>9. ASSUME NEW g \in Range(Tail(files)) PROVE Rank(Head(files)) < Rank(g)
  <2>1. PICK i \in 1..(N - 1) : g = files[i + 1]
    BY <1>2 DEF Range
  <2> QED BY <1>1, <1>3, <1>4, <1>7, <2>1
<1> QED BY <1>6, <1>7, <1>8, <1>9

LEMMA NothingIsConfig == Nothing \in Configs
BY NothingSays DEF Says

LEMMA NextLoad ==
  ControlInv /\ WatchInv /\ LoadInv /\ [Next]_vars => LoadInv'
<1> SUFFICES ASSUME ControlInv, WatchInv, LoadInv, [Next]_vars PROVE LoadInv'
  OBVIOUS
<1>0. <<>> \in Seq(Files) /\ Growing(<<>>) /\ Nothing \in Configs
  <2>1. <<>> \in Seq(Files) /\ DOMAIN <<>> = {}
    OBVIOUS
  <2> QED BY <2>1, NothingIsConfig DEF Growing
<1>1. ASSUME UNCHANGED <<phase, loading, todo, merged, running>> PROVE LoadInv'
  BY <1>1 DEF running, LoadInv
<1>2. CASE List
  <2>1. todo' \in Seq(Files) /\ Growing(todo)'
    BY <1>2, DiscoveredGrows DEF List, Growing
  <2> QED BY <1>2, <2>1 DEF List, running, LoadInv
<1>3. CASE ReadFile
  <2>1. todo # <<>> /\ todo' = Tail(todo) /\ loading' = "reading"
    BY <1>3 DEF ReadFile
  <2>2. todo' \in Seq(Files) /\ Growing(todo)' /\ Head(todo) \in Files
    BY <2>1, RestGrows DEF LoadInv, Growing
  <2>3. dir[Head(todo)] \in Seq(Validators)
    BY <1>3, KeystoresAssumption DEF ReadFile
  <2>4. merged' \in Configs
    BY <1>3, <2>2, <2>3, MergeFileType DEF ReadFile, LoadInv
  <2> QED BY <1>3, <2>1, <2>2, <2>4 DEF ReadFile, running, LoadInv
<1>4. ASSUME NEW lost, LoadThrows(lost) PROVE LoadInv'
  <2>1. loading' = "no" /\ todo' = <<>> /\ merged' = Nothing /\ UNCHANGED running
    BY <1>4 DEF LoadThrows, Abandon, StopLoading
  <2> QED BY <1>0, <2>1 DEF running, LoadInv, Growing
<1>5. CASE ReadUnusable \/ ReadFails \/ ReloadEmpty
  BY <1>4, <1>5 DEF ReadUnusable, ReadFails, ReloadEmpty
<1>6. CASE BootLoaded
  BY <1>6 DEF BootLoaded, LoadInv
<1>7. CASE NodeInfoAnswers
  <2>1. scraped' = DOMAIN merged.publishers /\ config' = merged /\ merged' = Nothing
    BY <1>7 DEF NodeInfoAnswers
  <2>2. DOMAIN merged.publishers \subseteq Publishers
    <3>1. merged.publishers \in MapsOf(Publishers, Lists)
      BY DEF LoadInv, Configs
    <3> QED BY <3>1, MapIs DEF IsMap
  <2> QED BY <1>0, <1>7, <2>1, <2>2 DEF NodeInfoAnswers, LoadInv
<1>8. CASE NodeInfoThrows
  BY <1>0, <1>8 DEF NodeInfoThrows, running, LoadInv
<1>9. CASE Restart
  <2>1. DOMAIN <<>> = {}
    OBVIOUS
  <2> QED BY <1>0, <1>9 DEF Restart, LoadInv, Growing
<1>10. ASSUME NEW f \in Files, NEW c, Write(f, c) PROVE LoadInv'
  BY <1>1, <1>10 DEF Write, load
<1>11. CASE FirstScan
  BY <1>1, <1>11 DEF FirstScan, load
<1>12. ASSUME NEW f \in Files, Notice(f) \/ ReloadRefused(f) PROVE LoadInv'
  BY <1>1, <1>12 DEF Notice, ReloadRefused, load
<1>13. ASSUME NEW f \in Files, ReloadStarts(f) PROVE LoadInv'
  <2>1. timers[f] > 0 /\ ~isReloading
    BY <1>13 DEF ReloadStarts, Fire
  <2>2. phase = "watching" /\ loading = "no"
    BY <2>1 DEF ControlInv, WatchInv
  <2> QED BY <1>13, <2>2 DEF ReloadStarts, running, LoadInv
<1>14. CASE ReloadApplies
  BY <1>0, <1>14 DEF ReloadApplies, StopLoading, ReplaceLists, LoadInv, Growing
<1>15. CASE UNCHANGED vars
  BY <1>1, <1>15 DEF vars, load
<1> QED BY <1>2, <1>3, <1>5, <1>6, <1>7, <1>8, <1>9, <1>10, <1>11, <1>12, <1>13, <1>14, <1>15
        DEF Next

-----------------------------------------------------------------------------
(* What a load has read is still what the directory says, or the change is    *)
(* pending.                                                                   *)

LEMMA KeystoreIs ==
  ASSUME NEW k \in Keystores
  PROVE  k \in Seq(Validators) /\ k # Absent /\ k # Broken /\ DOMAIN k \subseteq Nat
<1>1. k \in Seq(Validators) /\ k # Absent /\ k # Broken
  BY KeystoresAssumption
<1> QED BY <1>1

LEMMA PlacesInFiles ==
  ASSUME NEW seen, NEW S \in SUBSET Files
  PROVE  PlacesIn(seen, S) \subseteq Files \X Nat
BY KeystoreIs DEF PlacesIn

\* Once a change is pending it stays so, unless the load has just read the file.
LEMMA StaysPending ==
  ASSUME WatchInv, NEW g \in Files, Pending(g),
         \/ UNCHANGED <<watcher, dropped>>
         \/ \E f \in Files : \E c : Write(f, c)
         \/ \E f \in Files : Notice(f)
         \/ \E f \in Files : ReloadRefused(f) /\ loading # "no"
  PROVE  Pending(g)'
<1>0. \A f \in Files : timers[f] \in Nat
  BY DEF WatchInv
<1>1. CASE UNCHANGED <<watcher, dropped>>
  BY <1>1 DEF watcher, Pending
<1>2. ASSUME NEW f \in Files, NEW c, Write(f, c) PROVE Pending(g)'
  <2>1. timers' = timers /\ changed \subseteq changed' /\ dropped \subseteq dropped'
    BY <1>2 DEF Write
  <2> QED BY <2>1 DEF Pending
<1>3. ASSUME NEW f \in Files, Notice(f) PROVE Pending(g)'
  <2>1. /\ changed' = changed \ {f} /\ dropped' = dropped
        /\ timers' = [timers EXCEPT ![f] = timers[f] + 1]
    BY <1>3 DEF Notice
  <2>2. timers'[g] = IF g = f THEN timers[f] + 1 ELSE timers[g]
    BY <2>1 DEF WatchInv
  <2> QED BY <1>0, <2>1, <2>2 DEF Pending
<1>4. ASSUME NEW f \in Files, ReloadRefused(f), loading # "no" PROVE Pending(g)'
  <2>1. /\ changed' = changed /\ dropped' = dropped \cup {f}
        /\ timers' = [timers EXCEPT ![f] = timers[f] - 1]
    BY <1>4 DEF ReloadRefused, Fire
  <2>2. g # f => timers'[g] = timers[g]
    BY <2>1 DEF WatchInv
  <2> QED BY <2>1, <2>2 DEF Pending
<1> QED BY <1>1, <1>2, <1>3, <1>4

\* A step that touches neither the load nor the directory.
LEMMA ReadFrame ==
  ASSUME ReadInv, UNCHANGED <<dir, merged, todo>>, Loaded' => Loaded,
         phase' = "watching" => phase = "watching" \/ todo = <<>>,
         \A g \in Files : Pending(g) => Pending(g)', todo \in Seq(Files)
  PROVE  ReadInv'
<1>1. ASSUME NEW seen, ReadSoFar(seen) PROVE ReadSoFar(seen)'
  BY <1>1 DEF ReadSoFar
<1>2. Loaded' => \E seen : ReadSoFar(seen)'
  BY <1>1 DEF ReadInv
<1>3. phase' = "watching" => \A f \in Range(todo)' : dir'[f] # Absent \/ Pending(f)'
  <2>1. Range(todo)' = Range(todo) /\ Range(todo) \subseteq Files
    BY DEF Range
  <2>2. todo = <<>> => Range(todo) = {}
    <3>1. DOMAIN <<>> = {}
      OBVIOUS
    <3> QED BY <3>1 DEF Range
  <2> QED BY <2>1, <2>2 DEF ReadInv
<1> QED BY <1>2, <1>3 DEF ReadInv

LEMMA ListReads ==
  ASSUME ControlInv, LoadInv, List PROVE ReadInv'
<1> DEFINE seen == [f \in Files |-> Absent]
<1>1. /\ todo' = Discovered /\ dir' = dir /\ merged' = merged /\ phase' = phase
      /\ loading = "listing"
  BY DEF List, external
<1>2. merged' = Nothing
  BY <1>1 DEF ControlInv, LoadInv
<1>3. Range(todo)' = Present /\ Present = {f \in Files : dir[f] # Absent}
  BY <1>1, DiscoveredGrows DEF Present, Range
<1>4. seen \in [Files -> Keystores \cup {Absent}] /\ \A f \in Files : seen[f] = Absent
  OBVIOUS
<1> HIDE DEF seen
<1>5. PlacesIn(seen, Files \ Range(todo)') = {}
  BY <1>4, KeystoreIs DEF PlacesIn
<1>6. Says(merged', seen, PlacesIn(seen, Files \ Range(todo)'))
  BY <1>2, <1>5, NothingSays
<1>7. ReadSoFar(seen)'
  BY <1>1, <1>3, <1>4, <1>6 DEF ReadSoFar
<1> QED BY <1>1, <1>3, <1>7 DEF ReadInv

\* Reading the next file adds what it says now.
LEMMA FileReads ==
  ASSUME WatchInv, LoadInv, ReadInv, ReadFile PROVE ReadInv'
<1> DEFINE f == Head(todo)
           R == Files \ Range(todo)
<1>1. /\ todo # <<>> /\ loading = "reading" /\ dir[f] \in Keystores
      /\ merged' = MergeFile(merged, f) /\ todo' = Tail(todo) /\ dropped' = dropped \ {f}
      /\ UNCHANGED <<dir, phase, changed, timers>>
  BY DEF ReadFile, external, watcher, Observed
<1>2. /\ f \in Files /\ f \in Range(todo) /\ Range(todo)' = Range(todo) \ {f}
      /\ \A g \in Range(todo)' : Rank(f) < Rank(g)
  <2>1. /\ f \in Files /\ f \in Range(todo) /\ Range(Tail(todo)) = Range(todo) \ {f}
        /\ \A g \in Range(Tail(todo)) : Rank(f) < Rank(g)
    BY <1>1, RestGrows DEF LoadInv
  <2>2. Range(todo)' = Range(Tail(todo))
    BY <1>1 DEF Range
  <2> QED BY <2>1, <2>2
<1>3. PICK seen : ReadSoFar(seen)
  BY <1>1 DEF ReadInv, Loaded
<1> DEFINE P == PlacesIn(seen, R)
<1>4. dir[f] \in Seq(Validators) /\ dir[f] # Absent
  BY <1>1, KeystoreIs
<1> HIDE DEF f
<1>4a. PICK next : next = [seen EXCEPT ![f] = dir[f]]
  OBVIOUS
<1>5. /\ next \in [Files -> Keystores \cup {Absent}] /\ next[f] = dir[f]
      /\ \A g \in Files : g # f => next[g] = seen[g]
  BY <1>1, <1>2, <1>3, <1>4a DEF ReadSoFar
<1> HIDE DEF R
<1>6. P \in SUBSET (Files \X Nat) /\ R \subseteq Files /\ f \notin R
  BY <1>2, PlacesInFiles DEF R
<1>7. Says(merged, seen, P)
  BY <1>3 DEF ReadSoFar, R
<1>8. ASSUME NEW p \in P PROVE p[1] \in R /\ seen[p[1]] # Absent
  <2>1. PICK g \in R : seen[g] \in Keystores /\ p \in {g} \X DOMAIN seen[g]
    BY DEF PlacesIn
  <2>2. p[1] = g
    BY <2>1
  <2> QED BY <2>1, <2>2, KeystoreIs
<1>9. \A p \in P : seen[p[1]] = next[p[1]]
  BY <1>5, <1>6, <1>8
<1>10. Says(merged, next, P)
  <2> HIDE DEF P
  <2> QED BY <1>7, <1>9, SaysSame
<1>11. \A p \in P : Rank(p[1]) < Rank(f)
  BY <1>2, <1>3, <1>8 DEF ReadSoFar, R
<1>12. Says(MergeFile(merged, f), next, P \cup ({f} \X DOMAIN dir[f]))
  <2> HIDE DEF P
  <2> QED BY <1>2, <1>4, <1>5, <1>6, <1>10, <1>11, FileStep
<1>13. Files \ Range(todo)' = R \cup {f}
  BY <1>2 DEF R
<1>14. PlacesIn(next, R \cup {f}) = P \cup ({f} \X DOMAIN dir[f])
  BY <1>1, <1>5, <1>6 DEF PlacesIn
<1>15. Says(merged', next, PlacesIn(next, Files \ Range(todo)'))
  BY <1>1, <1>12, <1>13, <1>14
<1>16. ASSUME NEW g \in R \cup {f} PROVE next[g] = dir'[g] \/ Pending(g)'
  <2>1. CASE g = f
    BY <1>1, <1>5, <2>1
  <2>2. CASE g # f
    <3>1. seen[g] = dir[g] \/ Pending(g)
      BY <1>3, <1>6, <2>2 DEF ReadSoFar, R
    <3>2. next[g] = seen[g]
      BY <1>5, <1>6, <2>2
    <3>3. Pending(g) => Pending(g)'
      BY <1>1, <2>2 DEF Pending
    <3> QED BY <1>1, <3>1, <3>2, <3>3
  <2> QED BY <2>1, <2>2
<1>17. ASSUME NEW g \in R \cup {f}, NEW h \in Range(todo)', next[g] # Absent
       PROVE  Rank(g) < Rank(h)
  <2>1. CASE g = f
    BY <1>2, <2>1
  <2>2. CASE g # f
    <3>1. seen[g] # Absent /\ g \in R /\ h \in Range(todo)
      BY <1>2, <1>5, <1>6, <1>17, <2>2
    <3> QED BY <1>3, <3>1 DEF ReadSoFar, R
  <2> QED BY <2>1, <2>2
<1>18. ReadSoFar(next)'
  BY <1>5, <1>13, <1>15, <1>16, <1>17 DEF ReadSoFar
<1>19. phase' = "watching" => \A g \in Range(todo)' : dir'[g] # Absent \/ Pending(g)'
  <2> SUFFICES ASSUME phase = "watching", NEW g \in Range(todo)'
               PROVE  dir[g] # Absent \/ Pending(g)'
    BY <1>1
  <2>1. g \in Range(todo) /\ g # f
    BY <1>2
  <2>2. dir[g] # Absent \/ Pending(g)
    BY <2>1 DEF ReadInv
  <2>3. Pending(g) => Pending(g)'
    BY <1>1, <2>1 DEF Pending
  <2> QED BY <2>2, <2>3
<1> QED BY <1>18, <1>19 DEF ReadInv

\* A file that changes after it was read has a change pending.
LEMMA WriteReads ==
  ASSUME ControlInv, WatchInv, LoadInv, ReadInv, NEW f \in Files, NEW c, Write(f, c)
  PROVE  ReadInv'
<1>1. /\ dir' = [dir EXCEPT ![f] = c] /\ UNCHANGED <<phase, loading, todo, merged>>
      /\ Range(todo)' = Range(todo)
  BY DEF Write, load, Range
<1>2. \A g \in Files : Pending(g) => Pending(g)'
  BY StaysPending
<1>3. \A g \in Files : g # f => dir'[g] = dir[g]
  BY <1>1 DEF WatchInv
<1>4. scanned \/ Read(f) => Pending(f)'
  BY DEF Write, Pending
<1>5. ASSUME NEW seen, ReadSoFar(seen), Loaded PROVE ReadSoFar(seen)'
  <2>1. ASSUME NEW g \in Files \ Range(todo) PROVE seen[g] = dir'[g] \/ Pending(g)'
    <3>1. CASE g = f
      BY <1>4, <1>5, <3>1 DEF Read, Loaded
    <3>2. CASE g # f
      BY <1>2, <1>3, <1>5, <3>2 DEF ReadSoFar
    <3> QED BY <3>1, <3>2
  <2> QED BY <1>1, <1>5, <2>1 DEF ReadSoFar
<1>6. Loaded' => \E seen : ReadSoFar(seen)'
  BY <1>1, <1>5 DEF ReadInv, Loaded
<1>7. ASSUME phase' = "watching", NEW g \in Range(todo)'
      PROVE  dir'[g] # Absent \/ Pending(g)'
  <2>1. g \in Range(todo) /\ phase = "watching" /\ g \in Files
    BY <1>1, <1>7 DEF LoadInv, Range
  <2>2. todo # <<>>
    <3>1. DOMAIN <<>> = {}
      OBVIOUS
    <3> QED BY <2>1, <3>1 DEF Range
  <2>3. scanned
    BY <2>1, <2>2 DEF LoadInv, ControlInv
  <2> QED BY <1>2, <1>3, <1>4, <2>1, <2>3 DEF ReadInv
<1> QED BY <1>6, <1>7 DEF ReadInv

LEMMA NextRead ==
  ControlInv /\ WatchInv /\ LoadInv /\ ReadInv /\ [Next]_vars => ReadInv'
<1> SUFFICES ASSUME ControlInv, WatchInv, LoadInv, ReadInv, [Next]_vars PROVE ReadInv'
  OBVIOUS
<1>0. DOMAIN <<>> = {} /\ todo \in Seq(Files)
  BY DEF LoadInv
<1>1. ASSUME ~Loaded', todo' = <<>> PROVE ReadInv'
  BY <1>0, <1>1 DEF ReadInv, Range
<1>2. CASE List
  BY <1>2, ListReads
<1>3. CASE ReadFile
  BY <1>3, FileReads
<1>4. ASSUME NEW lost, LoadThrows(lost), loading # "no" PROVE ReadInv'
  <2>1. todo' = <<>> /\ loading' = "no" /\ phase' # "nodeInfo"
    BY <1>4 DEF LoadThrows, Abandon, StopLoading, ControlInv
  <2> QED BY <1>1, <2>1 DEF Loaded
<1>5. CASE ReadUnusable \/ ReadFails \/ ReloadEmpty
  BY <1>4, <1>5 DEF ReadUnusable, ReadFails, ReloadEmpty, LoadInv
<1>6. CASE BootLoaded
  <2>1. /\ UNCHANGED <<dir, merged, todo, watcher, dropped>> /\ Loaded /\ phase' # "watching"
    BY <1>6 DEF BootLoaded, external, Loaded
  <2> QED BY <1>0, <2>1, ReadFrame, StaysPending
<1>7. CASE NodeInfoAnswers \/ NodeInfoThrows
  <2>1. loading' = "no" /\ phase' # "nodeInfo" /\ todo' = todo /\ todo = <<>>
    BY <1>7 DEF NodeInfoAnswers, NodeInfoThrows, ControlInv, LoadInv
  <2> QED BY <1>1, <2>1 DEF Loaded
<1>8. CASE Restart
  BY <1>1, <1>8 DEF Restart, Loaded
<1>9. ASSUME NEW f \in Files, NEW c, Write(f, c) PROVE ReadInv'
  BY <1>9, WriteReads
<1>10. CASE FirstScan
  <2>1. \A g \in Files : Pending(g) => Pending(g)'
    BY <1>10 DEF FirstScan, Pending
  <2> QED BY <1>0, <1>10, <2>1, ReadFrame DEF FirstScan, external, load, Loaded
<1>11. ASSUME NEW f \in Files, Notice(f) PROVE ReadInv'
  <2>1. \A g \in Files : Pending(g) => Pending(g)'
    BY <1>11, StaysPending
  <2> QED BY <1>0, <1>11, <2>1, ReadFrame DEF Notice, external, load, Loaded
<1>12. ASSUME NEW f \in Files, ReloadRefused(f) PROVE ReadInv'
  <2>1. loading # "no"
    BY <1>12 DEF ReloadRefused, ControlInv
  <2>2. \A g \in Files : Pending(g) => Pending(g)'
    BY <1>12, <2>1, StaysPending
  <2> QED BY <1>0, <1>12, <2>2, ReadFrame DEF ReloadRefused, external, load, Loaded
<1>13. ASSUME NEW f \in Files, ReloadStarts(f) PROVE ReadInv'
  <2>1. timers[f] > 0 /\ ~isReloading
    BY <1>13 DEF ReloadStarts, Fire
  <2>2. phase = "watching" /\ loading = "no"
    BY <2>1 DEF ControlInv, WatchInv
  <2> QED BY <1>1, <1>13, <2>2 DEF ReloadStarts, Loaded, LoadInv
<1>14. CASE ReloadApplies
  BY <1>1, <1>14 DEF ReloadApplies, StopLoading, Loaded
<1>15. CASE UNCHANGED vars
  <2>1. \A g \in Files : Pending(g) => Pending(g)'
    BY <1>15 DEF vars, watcher, Pending
  <2> QED BY <1>0, <1>15, <2>1, ReadFrame DEF vars, external, load, Loaded
<1> QED BY <1>2, <1>3, <1>5, <1>6, <1>7, <1>8, <1>9, <1>10, <1>11, <1>12, <1>13, <1>14, <1>15
        DEF Next

-----------------------------------------------------------------------------
(* The lists in use.                                                         *)

LEMMA MeaningFrame ==
  ASSUME UNCHANGED dir PROVE Meaning' = Meaning /\ (Usable' <=> Usable)
BY DEF Meaning, Places, Validator, Namings, Named, LastPlace, FirstFile, NamingFiles, Usable,
   Present, Before, Rank

\* A load that has read everything knows what the directory means, or a change to one
\* of the files is pending.
LEMMA LoadDone ==
  ASSUME WatchInv, ReadInv, Loaded, todo = <<>>
  PROVE  merged = Meaning \/ \E f \in Files : Pending(f)
<1> SUFFICES ASSUME \A f \in Files : ~Pending(f) PROVE merged = Meaning
  OBVIOUS
<1>1. Files \ Range(todo) = Files
  <2>1. DOMAIN <<>> = {}
    OBVIOUS
  <2> QED BY <2>1 DEF Range
<1>2. PICK seen : ReadSoFar(seen)
  BY DEF ReadInv
<1>3. \A f \in Files : seen[f] = dir[f]
  BY <1>1, <1>2 DEF ReadSoFar
<1>4. seen \in [Files -> Keystores \cup {Absent}]
      /\ dir \in [Files -> Keystores \cup {Absent, Broken}]
  BY <1>2 DEF ReadSoFar, WatchInv
<1>5. seen = dir
  BY <1>3, <1>4
<1>6. PlacesIn(seen, Files) = Places
  BY <1>5 DEF PlacesIn, Places
<1>7. Says(merged, dir, Places)
  BY <1>1, <1>2, <1>5, <1>6 DEF ReadSoFar
<1>8. Places \subseteq Files \X Nat
  BY <1>6, PlacesInFiles
<1> QED BY <1>7, <1>8, SaysAll

LEMMA UseFrame ==
  ASSUME UseInv, UNCHANGED <<dir, config>>, loading # "no" => loading' # "no",
         phase' = "watching" => phase = "watching",
         \A g \in Files : Pending(g) => Pending(g)'
  PROVE  UseInv'
BY MeaningFrame DEF UseInv

LEMMA ThrowsUse ==
  ASSUME WatchInv, NEW lost \in SUBSET Files, LoadThrows(lost), phase' = "watching",
         ~Usable \/ (\E f \in Files : Pending(f)) \/ lost # {}
  PROVE  UseInv'
<1>1. dir' = dir /\ UNCHANGED watcher /\ dropped' = dropped \cup covers \cup lost
  BY DEF LoadThrows, Abandon
<1>2. CASE ~Usable
  BY <1>1, <1>2, MeaningFrame DEF UseInv
<1>3. ASSUME NEW f \in Files, Pending(f) PROVE UseInv'
  <2>1. Pending(f)'
    BY <1>1, <1>3 DEF watcher, Pending
  <2> QED BY <2>1 DEF UseInv
<1>4. CASE lost # {}
  BY <1>1, <1>4 DEF UseInv, Pending
<1> QED BY <1>2, <1>3, <1>4

LEMMA AppliesUse ==
  ASSUME WatchInv, ReadInv, Loaded, todo = <<>>, config' = merged,
         UNCHANGED <<dir, watcher, dropped>>
  PROVE  UseInv'
<1>1. CASE merged = Meaning
  BY <1>1, MeaningFrame DEF UseInv
<1>2. ASSUME NEW f \in Files, Pending(f) PROVE UseInv'
  <2>1. Pending(f)'
    BY <1>2 DEF watcher, Pending
  <2> QED BY <2>1 DEF UseInv
<1> QED BY <1>1, <1>2, LoadDone

LEMMA NextUse ==
  KeysInv /\ [Next]_vars => UseInv'
<1> SUFFICES ASSUME KeysInv, [Next]_vars PROVE UseInv'
  OBVIOUS
<1>0. ControlInv /\ WatchInv /\ LoadInv /\ ReadInv /\ UseInv
  BY DEF KeysInv
<1>1. CASE List
  BY <1>1 DEF List, UseInv
<1>2. CASE ReadFile
  BY <1>2 DEF ReadFile, UseInv
<1>3. CASE ReadUnusable
  <2>1. /\ todo # <<>> /\ LoadThrows({}) /\ dir[Head(todo)] \in {Absent, Broken}
    BY <1>3 DEF ReadUnusable
  <2>2. Head(todo) \in Files /\ Head(todo) \in Range(todo)
    BY <1>0, <2>1, RestGrows DEF LoadInv
  <2>3. CASE phase' # "watching"
    BY <2>3 DEF UseInv
  <2>4. CASE phase' = "watching"
    <3>1. phase = "watching"
      BY <2>1, <2>4 DEF LoadThrows
    <3>2. CASE dir[Head(todo)] = Broken
      <4>1. ~Usable
        BY <2>2, <3>2, KeystoresAssumption DEF Usable, Present
      <4> QED BY <1>0, <2>1, <2>4, <4>1, ThrowsUse
    <3>3. CASE dir[Head(todo)] = Absent
      <4>1. Pending(Head(todo))
        BY <1>0, <2>2, <3>1, <3>3 DEF ReadInv
      <4> QED BY <1>0, <2>1, <2>2, <2>4, <4>1, ThrowsUse
    <3> QED BY <2>1, <3>2, <3>3
  <2> QED BY <2>3, <2>4
<1>4. CASE ReadFails
  <2>1. LoadThrows(Files)
    BY <1>4 DEF ReadFails
  <2>2. Files = {} => ~Usable
    BY DEF Usable, Present
  <2>3. CASE phase' # "watching"
    BY <2>3 DEF UseInv
  <2>4. CASE phase' = "watching"
    BY <1>0, <2>1, <2>2, <2>4, ThrowsUse
  <2> QED BY <2>3, <2>4
<1>5. CASE ReloadEmpty
  <2>1. LoadThrows({}) /\ ~Usable
    BY <1>5 DEF ReloadEmpty, Usable
  <2>2. CASE phase' # "watching"
    BY <2>2 DEF UseInv
  <2>3. CASE phase' = "watching"
    BY <1>0, <2>1, <2>3, ThrowsUse
  <2> QED BY <2>2, <2>3
<1>6. CASE BootLoaded \/ NodeInfoThrows \/ Restart
  BY <1>6 DEF BootLoaded, NodeInfoThrows, Restart, UseInv
<1>7. CASE NodeInfoAnswers
  <2>1. Loaded /\ todo = <<>> /\ config' = merged /\ UNCHANGED <<dir, watcher, dropped>>
    BY <1>0, <1>7 DEF NodeInfoAnswers, Loaded, external, ControlInv, LoadInv
  <2> QED BY <1>0, <2>1, AppliesUse
<1>8. CASE ReloadApplies
  <2>1. Loaded /\ todo = <<>> /\ config' = merged /\ UNCHANGED <<dir, watcher, dropped>>
    BY <1>8 DEF ReloadApplies, ReplaceLists, Loaded, external
  <2> QED BY <1>0, <2>1, AppliesUse
<1>9. ASSUME NEW f \in Files, NEW c, Write(f, c) PROVE UseInv'
  <2>1. phase' = phase
    BY <1>9 DEF Write
  <2>2. phase = "watching" => Pending(f)'
    BY <1>9 DEF Write, Read, Pending
  <2> QED BY <2>1, <2>2 DEF UseInv
<1>10. CASE FirstScan
  <2>1. \A g \in Files : Pending(g) => Pending(g)'
    BY <1>10 DEF FirstScan, Pending
  <2> QED BY <1>0, <1>10, <2>1, UseFrame DEF FirstScan, external, load, running
<1>11. ASSUME NEW f \in Files, Notice(f) PROVE UseInv'
  <2>1. \A g \in Files : Pending(g) => Pending(g)'
    BY <1>0, <1>11, StaysPending
  <2> QED BY <1>0, <1>11, <2>1, UseFrame DEF Notice, external, load, running
<1>12. ASSUME NEW f \in Files, ReloadStarts(f) PROVE UseInv'
  BY <1>12 DEF ReloadStarts, UseInv
<1>13. ASSUME NEW f \in Files, ReloadRefused(f) PROVE UseInv'
  <2>1. loading # "no"
    BY <1>0, <1>13 DEF ReloadRefused, ControlInv
  <2>2. \A g \in Files : Pending(g) => Pending(g)'
    BY <1>0, <1>13, <2>1, StaysPending
  <2> QED BY <1>0, <1>13, <2>2, UseFrame DEF ReloadRefused, external, load, running
<1>14. CASE UNCHANGED vars
  <2>1. \A g \in Files : Pending(g) => Pending(g)'
    BY <1>14 DEF vars, watcher, Pending
  <2> QED BY <1>0, <1>14, <2>1, UseFrame DEF vars, external, load, running
<1> QED BY <1>1, <1>2, <1>3, <1>4, <1>5, <1>6, <1>7, <1>8, <1>9, <1>10, <1>11, <1>12, <1>13, <1>14
        DEF Next

LEMMA InitKeys == Init => KeysInv
<1> SUFFICES ASSUME Init PROVE KeysInv
  OBVIOUS
<1>1. MaxWrites \in Nat /\ MaxFailures \in Nat /\ MaxRestarts \in Nat
  BY BoundsAssumption
<1>2. DOMAIN <<>> = {} /\ <<>> \in Seq(Files)
  OBVIOUS
<1>3. ControlInv
  BY DEF Init, ControlInv
<1>4. WatchInv
  <2>1. 0 \in 0..MaxWrites /\ 0 \in 0..MaxFailures /\ 0 \in 0..MaxRestarts
    BY <1>1
  <2>2. dir \in [Files -> Keystores \cup {Absent, Broken}]
    BY DEF Init
  <2>3. timers \in [Files -> Nat] /\ \A f \in Files : timers[f] = 0
    BY DEF Init
  <2>4. \A f \in Files : Due(f) <= writes
    BY <2>3 DEF Init, Due
  <2> QED BY <2>1, <2>2, <2>3, <2>4 DEF Init, WatchInv
<1>5. LoadInv
  BY <1>2, NothingIsConfig DEF Init, LoadInv, Growing
<1>6. ReadInv /\ UseInv
  BY DEF Init, ReadInv, UseInv, Loaded
<1> QED BY <1>3, <1>4, <1>5, <1>6 DEF KeysInv

LEMMA NextKeys == KeysInv /\ [Next]_vars => KeysInv'
BY NextControl, NextWatch, NextLoad, NextRead, NextUse DEF KeysInv

\* Every variable keeps its type: no publisher is counted zero times, no list holds an
\* entry that no keys file could have given it, and no change sets more timers than
\* there were changes (loadAndMergeKeysFiles, onKeysFileChange), for any files and
\* keystores.
THEOREM KeysTypeCorrect == Spec => []TypeOK
<1>1. KeysInv => TypeOK
  <2> SUFFICES ASSUME KeysInv PROVE TypeOK
    OBVIOUS
  <2>0. ControlInv /\ WatchInv /\ LoadInv
    BY DEF KeysInv
  <2>1. timers \in [Files -> 0..MaxWrites]
    <3>1. ASSUME NEW f \in Files PROVE timers[f] \in 0..MaxWrites
      <4>1. timers[f] \in Nat /\ Due(f) <= writes /\ writes \in 0..MaxWrites
        BY <2>0 DEF WatchInv
      <4> QED BY <4>1, BoundsAssumption DEF Due
    <3> QED BY <2>0, <3>1 DEF WatchInv
  <2>2. IsConfig(merged) /\ IsConfig(config)
    BY <2>0, ConfigIs DEF LoadInv
  <2> QED BY <2>0, <2>1, <2>2 DEF ControlInv, WatchInv, LoadInv, TypeOK
<1> QED BY <1>1, InitKeys, NextKeys, PTL DEF Spec

\* When nothing is left to do and nothing was dropped, the lists in use are what the
\* directory means: last file for an attester, first file and total count for a
\* publisher (loadAndMergeKeysFiles, ConfigReloader.reload), for any files, keystores,
\* operator, failures and restarts.
THEOREM ListsFollowDirectory == Spec => []FollowsDirectory
<1>1. KeysInv => FollowsDirectory
  <2> SUFFICES ASSUME KeysInv, Quiet, Usable, dropped = {} PROVE config = Meaning
    BY DEF FollowsDirectory
  <2>1. UseInv /\ phase = "watching" /\ loading = "no"
    BY DEF KeysInv, Quiet
  <2>2. \A f \in Files : ~Pending(f)
    BY DEF Quiet, Pending
  <2> QED BY <2>1, <2>2 DEF UseInv
<1> QED BY <1>1, InitKeys, NextKeys, PTL DEF Spec
=============================================================================
