------------------------ MODULE AttesterTracking_proofs ------------------------
(* What holds of AttesterTracking for every set of attesters and every bound.  *)
EXTENDS AttesterTracking, TLAPS

\* updateAttesterState only ever stores one of the five states.
LEMMA ProcessType ==
    ASSUME NEW s \in States \cup {NoState}, NEW v \in Views, NEW q \in BOOLEAN
    PROVE  ProcessAttesterState(s, v, q) \in States
BY DEF ProcessAttesterState, InitialState, HandleStateTransitions, ViewState, Placing,
       BecomeActive, EndActive, States, Views, NoState

\* Reads return known views, and the chain stays within its phases.
LEMMA ViewsType ==
    ASSUME NEW p \in Phases
    PROVE  ChainViews(p) \subseteq Views /\ ChainSuccessors(p) \subseteq Phases
BY DEF ChainViews, ChainSuccessors, Views, Phases

\* The content of an empty map, which a fresh start and a lost file yield.
LEMMA NoEntriesType ==
    /\ NoEntries \in [state : [Attesters -> States \cup {NoState}], view : [Attesters -> Views]]
    /\ NoEntries.state = [a \in Attesters |-> NoState]
    /\ NoEntries.view = [a \in Attesters |-> "NoView"]
BY DEF NoEntries, Views

\* What a restart loads is well typed, also from a truncated file.
LEMMA LoadedType ==
    ASSUME TypeOK
    PROVE  Loaded \in [state : [Attesters -> States \cup {NoState}], view : [Attesters -> Views]]
BY NoEntriesType DEF TypeOK, Loaded

\* Initializing from the keys files keeps the map well typed.
LEMMA InitFromCacheType ==
    ASSUME NEW st \in [Attesters -> States \cup {NoState}], NEW keys
    PROVE  InitFromCache(st, keys) \in [Attesters -> States \cup {NoState}]
BY DEF InitFromCache, States

\* Every variable keeps its type: the model describes one well-formed server.
THEOREM TypeCorrect == Spec => []TypeOK
<1>1. Init => TypeOK
  <2> SUFFICES ASSUME Init PROVE TypeOK
    OBVIOUS
  <2>1. phase \in [Attesters -> Phases] /\ reached \in [Attesters -> SUBSET Phases]
    BY DEF Init, Phases
  <2>2. /\ state \in [Attesters -> States \cup {NoState}] /\ view \in [Attesters -> Views]
        /\ disk \in [state : [Attesters -> States \cup {NoState}], view : [Attesters -> Views]]
    BY NoEntriesType DEF Init, Views
  <2> QED BY <2>1, <2>2 DEF Init, TypeOK
<1>2. TypeOK /\ [Next]_vars => TypeOK'
  <2> SUFFICES ASSUME TypeOK, [Next]_vars PROVE TypeOK'
    OBVIOUS
  <2>1. ASSUME NEW a \in Attesters, ChainMove(a) PROVE TypeOK'
    BY <2>1, ViewsType DEF ChainMove, TypeOK, rollup, provider, storage
  <2>2. CASE RollupStart
    BY <2>2 DEF RollupStart, TypeOK, chain, provider, storage
  <2>3. ASSUME NEW a \in Attesters, RollupRead(a) PROVE TypeOK'
    <3>1. PICK v \in ChainViews(phase[a]) : fetched' = [att |-> a, view |-> v]
      BY <2>3 DEF RollupRead
    <3>2. v \in Views
      BY <3>1, ViewsType DEF TypeOK
    <3> QED BY <2>3, <3>1, <3>2 DEF RollupRead, TypeOK, chain, provider, storage
  <2>4. ASSUME NEW a \in Attesters, RollupReadFails(a) PROVE TypeOK'
    BY <2>4 DEF RollupReadFails, TypeOK, chain, provider, storage, Views
  <2>5. CASE RollupApply
    <3>1. fetched \in [att : Attesters, view : Views]
      BY <2>5 DEF RollupApply, TypeOK
    <3>2. providerTodo' \in SUBSET Attesters
      BY <2>5, <3>1 DEF RollupApply, AlsoProcess, TypeOK
    <3>3. state' \in [Attesters -> States \cup {NoState}] /\ view' \in [Attesters -> Views]
      BY <2>5, <3>1 DEF RollupApply, TypeOK, States
    <3> QED BY <2>5, <3>2, <3>3 DEF RollupApply, ScheduleSave, TypeOK, chain
  <2>6. CASE ProviderRead
    BY <2>6 DEF ProviderRead, TypeOK, Queued, chain, rollup, storage
  <2>7. CASE ProviderReadSkips
    BY <2>7 DEF ProviderReadSkips, TypeOK, Queued, chain, rollup, storage
  <2>8. CASE ProviderApply
    BY <2>8 DEF ProviderApply, TypeOK, Known, chain, rollup, storage
  <2>9. ASSUME NEW a \in Attesters, ProcessAttester(a) PROVE TypeOK'
    <3>1. ProcessAttesterState(state[a], view[a], InProviderQueue(a)) \in States
      BY ProcessType DEF TypeOK, InProviderQueue
    <3> QED BY <2>9, <3>1 DEF ProcessAttester, ScheduleSave, TypeOK, chain, rollup
  <2>10. ASSUME NEW keys \in KeyFiles, Reload(keys) PROVE TypeOK'
    <3>1. state' \in [Attesters -> States \cup {NoState}] /\ keys \in SUBSET Attesters
      BY <2>10, InitFromCacheType, KeyFilesAssumption DEF Reload, TypeOK
    <3> QED BY <2>10, <3>1 DEF Reload, ScheduleSave, AlsoProcess, TypeOK, chain, rollup
  <2>11. ASSUME NEW keys \in KeyFiles, Start(keys) PROVE TypeOK'
    <3>1. Loaded.state \in [Attesters -> States \cup {NoState}] /\ Loaded.view \in [Attesters -> Views]
      BY LoadedType
    <3>2. state' \in [Attesters -> States \cup {NoState}] /\ keys \in SUBSET Attesters
      BY <2>11, <3>1, InitFromCacheType, KeyFilesAssumption DEF Start
    <3> QED BY <2>11, <3>1, <3>2 DEF Start, ScheduleSave, TypeOK, chain, rollup, provider
  <2>12. CASE SaveSucceeds
    <3>1. Snapshot \in [state : [Attesters -> States \cup {NoState}], view : [Attesters -> Views]]
      BY DEF Snapshot, TypeOK
    <3> QED BY <2>12, <3>1 DEF SaveSucceeds, TypeOK, chain, rollup, provider
  <2>13. CASE SaveFails
    <3>1. disk' \in {disk, Torn} /\ saveFailed' = TRUE /\ timer' = FALSE
      BY <2>13 DEF SaveFails
    <3>2. UNCHANGED <<chain, deaths, up, state, view, config, rollup, provider>>
      BY <2>13 DEF SaveFails
    <3>3. failures' \in Nat
      BY <2>13 DEF SaveFails, TypeOK
    <3> QED BY <3>1, <3>2, <3>3 DEF TypeOK, chain, rollup, provider
  <2>14. CASE Die
    <3>1. disk' \in {disk, Torn}
      BY <2>14 DEF Die
    <3>2. /\ state' \in [Attesters -> States \cup {NoState}] /\ view' \in [Attesters -> Views]
          /\ deaths' \in Nat
      BY <2>14, NoEntriesType DEF Die, TypeOK
    <3> QED BY <2>14, <3>1, <3>2 DEF Die, TypeOK, chain
  <2>15. CASE UNCHANGED vars
    BY <2>15 DEF vars, chain, rollup, provider, storage, TypeOK
  <2> QED BY <2>1, <2>2, <2>3, <2>4, <2>5, <2>6, <2>7, <2>8, <2>9, <2>10, <2>11, <2>12,
             <2>13, <2>14, <2>15 DEF Next
<1> QED BY <1>1, <1>2, PTL DEF Spec

------------------------------------------------------------------------------
(* A save is never lost silently.                                              *)

\* Whenever attesterStates differs from what a restart would load, a save is due
\* or the last one failed: every writer schedules the save.
THEOREM SaveNotLost == Spec => []NoLostSave
<1>1. Init => NoLostSave
  BY DEF Init, NoLostSave
<1>2. TypeOK /\ NoLostSave /\ [Next]_vars => NoLostSave'
  <2> SUFFICES ASSUME TypeOK, NoLostSave, [Next]_vars PROVE NoLostSave'
    OBVIOUS
  <2> USE DEF NoLostSave, Snapshot, Loaded
  <2>1. CASE UNCHANGED <<up, state, view, storage>>
    BY <2>1 DEF storage
  <2>2. CASE RollupApply
    BY <2>2 DEF RollupApply, ScheduleSave
  <2>3. ASSUME NEW a \in Attesters, ProcessAttester(a) PROVE NoLostSave'
    <3>1. CASE ProcessAttesterState(state[a], view[a], InProviderQueue(a)) = state[a]
      <4>1. state' = state /\ timer' = timer
        BY <2>3, <3>1 DEF ProcessAttester, ScheduleSave, TypeOK
      <4> QED BY <2>3, <4>1 DEF ProcessAttester
    <3>2. CASE ProcessAttesterState(state[a], view[a], InProviderQueue(a)) # state[a]
      BY <2>3, <3>2 DEF ProcessAttester, ScheduleSave
    <3> QED BY <3>1, <3>2
  <2>4. ASSUME NEW keys \in KeyFiles, Reload(keys) PROVE NoLostSave'
    <3>1. CASE keys \ Known = {}
      <4>1. state' = state /\ timer' = timer
        BY <2>4, <3>1, KeyFilesAssumption
        DEF Reload, ScheduleSave, Known, InitFromCache, TypeOK
      <4> QED BY <2>4, <4>1 DEF Reload
    <3>2. CASE keys \ Known # {}
      BY <2>4, <3>2 DEF Reload, ScheduleSave
    <3> QED BY <3>1, <3>2
  <2>5. ASSUME NEW keys \in KeyFiles, Start(keys) PROVE NoLostSave'
    <3>1. CASE \E a \in keys : Loaded.state[a] = NoState
      BY <2>5, <3>1 DEF Start, ScheduleSave
    <3>2. CASE ~ \E a \in keys : Loaded.state[a] = NoState
      <4>1. Loaded \in [state : [Attesters -> States \cup {NoState}],
                        view : [Attesters -> Views]]
        BY LoadedType
      <4>2. InitFromCache(Loaded.state, keys) = Loaded.state
        BY <3>2, <4>1 DEF InitFromCache
      <4>3. Snapshot' = Loaded /\ Loaded' = Loaded
        BY <2>5, <4>1, <4>2 DEF Start
      <4> QED BY <4>3
    <3> QED BY <3>1, <3>2
  <2>6. CASE SaveSucceeds
    <3>1. Snapshot # Torn
      BY NullAssumption DEF TypeOK
    <3>2. disk' = Snapshot /\ Snapshot' = Snapshot
      BY <2>6 DEF SaveSucceeds
    <3>3. Loaded' = Snapshot'
      BY <3>1, <3>2
    <3> QED BY <3>3
  <2>7. CASE SaveFails
    BY <2>7 DEF SaveFails
  <2>8. CASE Die
    BY <2>8 DEF Die
  <2>9. ASSUME \/ \E a \in Attesters : ChainMove(a) \/ RollupRead(a) \/ RollupReadFails(a)
               \/ RollupStart \/ ProviderRead \/ ProviderReadSkips \/ ProviderApply
               \/ UNCHANGED vars
        PROVE  UNCHANGED <<up, state, view, storage>>
    BY <2>9 DEF ChainMove, RollupRead, RollupReadFails, RollupStart, ProviderRead,
                ProviderReadSkips, ProviderApply, vars
  <2> QED BY <2>1, <2>2, <2>3, <2>4, <2>5, <2>6, <2>7, <2>8, <2>9 DEF Next
<1> QED BY <1>1, <1>2, TypeCorrect, PTL DEF Spec

------------------------------------------------------------------------------
(* Provenance.  The invariant extends to everything that may become a state:   *)
(* the stored views, the file, and the answers that were read and are not yet  *)
(* applied.                                                                    *)

Staged == {"NoneStaked", "Validating"}

ViewClaim(v) == IF v = "NoneStaked" THEN "entryQueue" ELSE "validating"

HonestStates(st) ==
    \A a \in Attesters : st[a] \in Claiming => Claim(st[a]) \in reached[a]

HonestViews(vw) ==
    \A a \in Attesters : vw[a] \in Staged => ViewClaim(vw[a]) \in reached[a]

HonestQueue(q) ==
    \A a \in Attesters : q # NoData /\ a \in q => "providerQueue" \in reached[a]

HonestFetch ==
    fetched # NoData /\ fetched.view \in Staged
        => ViewClaim(fetched.view) \in reached[fetched.att]

HonestInv ==
    /\ \A a \in Attesters : phase[a] \in reached[a]
    /\ HonestStates(state) /\ HonestViews(view)
    /\ HonestStates(Loaded.state) /\ HonestViews(Loaded.view)
    /\ HonestQueue(queue) /\ HonestQueue(providerRead)
    /\ HonestFetch

\* A transition claims no stage that its inputs do not vouch for.
LEMMA ProcessHonest ==
    ASSUME NEW s \in States \cup {NoState}, NEW v \in Views, NEW q \in BOOLEAN,
           NEW R, s \in Claiming => Claim(s) \in R,
           v \in Staged => ViewClaim(v) \in R, q => "providerQueue" \in R,
           ProcessAttesterState(s, v, q) \in Claiming
    PROVE  Claim(ProcessAttesterState(s, v, q)) \in R
BY DEF ProcessAttesterState, InitialState, HandleStateTransitions, ViewState, Placing,
       BecomeActive, EndActive, States, Views, NoState, Claiming, Claim, Staged, ViewClaim

\* A successful read vouches for the phase it shows.
LEMMA ReadHonest ==
    ASSUME NEW p \in Phases, NEW v \in ChainViews(p), v \in Staged
    PROVE  ViewClaim(v) = p
BY DEF ChainViews, Phases, Staged, ViewClaim

\* Starting an attester as NEW claims nothing.
LEMMA InitHonest ==
    ASSUME NEW st \in [Attesters -> States \cup {NoState}], NEW keys, HonestStates(st)
    PROVE  HonestStates(InitFromCache(st, keys))
BY DEF HonestStates, InitFromCache, Claiming, NoState

\* The empty map claims nothing.
LEMMA NoEntriesHonest == HonestStates(NoEntries.state) /\ HonestViews(NoEntries.view)
BY NoEntriesType DEF HonestStates, HonestViews, Claiming, Staged, NoState

\* What is honest stays honest as the history of the attesters grows.
LEMMA HonestGrows ==
    ASSUME TypeOK, TypeOK', \A a \in Attesters : reached[a] \subseteq reached'[a],
           UNCHANGED <<state, view, disk, queue, providerRead, fetched>>, HonestInv,
           \A a \in Attesters : phase'[a] \in reached'[a]
    PROVE  HonestInv'
<1>1. Loaded' = Loaded
  BY DEF Loaded
<1>2. HonestStates(state)' /\ HonestStates(Loaded.state)'
  BY <1>1 DEF HonestInv, HonestStates
<1>3. HonestViews(view)' /\ HonestViews(Loaded.view)'
  BY <1>1 DEF HonestInv, HonestViews
<1>4. HonestQueue(queue)' /\ HonestQueue(providerRead)'
  BY DEF HonestInv, HonestQueue
<1>5. HonestFetch'
  BY DEF HonestInv, HonestFetch, TypeOK
<1> QED BY <1>2, <1>3, <1>4, <1>5 DEF HonestInv

LEMMA HonestInductive == Spec => []HonestInv
<1>1. Init => HonestInv
  <2> SUFFICES ASSUME Init PROVE HonestInv
    OBVIOUS
  <2>1. Loaded = NoEntries
    BY DEF Init, Loaded
  <2>2. HonestStates(state) /\ HonestViews(view)
        /\ HonestStates(Loaded.state) /\ HonestViews(Loaded.view)
    BY <2>1, NoEntriesHonest DEF Init
  <2>3. HonestQueue(queue) /\ HonestQueue(providerRead) /\ HonestFetch
    BY DEF Init, HonestQueue, HonestFetch
  <2> QED BY <2>2, <2>3 DEF Init, HonestInv
<1>2. TypeOK /\ TypeOK' /\ HonestInv /\ [Next]_vars => HonestInv'
  <2> SUFFICES ASSUME TypeOK, TypeOK', HonestInv, [Next]_vars PROVE HonestInv'
    OBVIOUS
  <2>1. ASSUME NEW a \in Attesters, ChainMove(a) PROVE HonestInv'
    <3>1. \A b \in Attesters : reached[b] \subseteq reached'[b] /\ phase'[b] \in reached'[b]
      BY <2>1 DEF ChainMove, HonestInv, TypeOK
    <3> QED BY <2>1, <3>1, HonestGrows DEF ChainMove, rollup, provider, storage
  <2>2. ASSUME UNCHANGED <<chain, state, view, disk, queue, providerRead, fetched>>
        PROVE  HonestInv'
    BY <2>2, HonestGrows DEF chain, HonestInv
  <2>3. ASSUME NEW a \in Attesters, RollupRead(a) PROVE HonestInv'
    <3>1. PICK v \in ChainViews(phase[a]) : fetched' = [att |-> a, view |-> v]
      BY <2>3 DEF RollupRead
    <3>2. v \in Staged => ViewClaim(v) \in reached[a]
      BY <3>1, ReadHonest DEF HonestInv, TypeOK
    <3>3. HonestFetch'
      BY <2>3, <3>1, <3>2 DEF HonestFetch, RollupRead, chain
    <3> QED BY <2>3, <3>3
        DEF HonestInv, HonestStates, HonestViews, HonestQueue, Loaded, RollupRead, chain,
            provider, storage
  <2>4. ASSUME NEW a \in Attesters, RollupReadFails(a) PROVE HonestInv'
    <3>1. HonestFetch'
      BY <2>4 DEF HonestFetch, RollupReadFails, Staged
    <3> QED BY <2>4, <3>1
        DEF HonestInv, HonestStates, HonestViews, HonestQueue, Loaded, RollupReadFails, chain,
            provider, storage
  <2>5. CASE RollupApply
    <3>1. fetched \in [att : Attesters, view : Views]
      BY <2>5 DEF RollupApply, TypeOK
    <3>2. HonestStates(state)' /\ HonestViews(view)'
      BY <2>5, <3>1 DEF RollupApply, HonestInv, HonestStates, HonestViews, HonestFetch, TypeOK,
                        Claiming, chain
    <3>3. HonestFetch'
      BY <2>5 DEF RollupApply, HonestFetch
    <3> QED BY <2>5, <3>2, <3>3
        DEF RollupApply, HonestInv, HonestStates, HonestViews, HonestQueue, Loaded, chain
  <2>6. CASE ProviderRead \/ ProviderReadSkips
    <3>1. HonestQueue(providerRead)'
      BY <2>6 DEF ProviderRead, ProviderReadSkips, Queued, HonestQueue, HonestInv, chain
    <3> QED BY <2>6, <3>1
        DEF ProviderRead, ProviderReadSkips, HonestInv, HonestStates, HonestViews, HonestQueue,
            HonestFetch, Loaded, chain, rollup, storage
  <2>7. CASE ProviderApply
    BY <2>7 DEF ProviderApply, HonestInv, HonestStates, HonestViews, HonestQueue, HonestFetch,
                Loaded, chain, rollup, storage
  <2>8. ASSUME NEW a \in Attesters, ProcessAttester(a) PROVE HonestInv'
    <3> DEFINE next == ProcessAttesterState(state[a], view[a], InProviderQueue(a))
    <3>1. next \in Claiming => Claim(next) \in reached[a]
      <4>1. InProviderQueue(a) \in BOOLEAN
            /\ (InProviderQueue(a) => "providerQueue" \in reached[a])
        BY DEF InProviderQueue, HonestInv, HonestQueue
      <4>2. /\ state[a] \in Claiming => Claim(state[a]) \in reached[a]
            /\ view[a] \in Staged => ViewClaim(view[a]) \in reached[a]
        BY DEF HonestInv, HonestStates, HonestViews
      <4> HIDE DEF next
      <4> QED BY <4>1, <4>2, ProcessHonest DEF TypeOK, next
    <3>2. state' = [state EXCEPT ![a] = next]
      BY <2>8 DEF ProcessAttester
    <3> HIDE DEF next
    <3>3. HonestStates(state)'
      BY <2>8, <3>1, <3>2 DEF ProcessAttester, HonestInv, HonestStates, TypeOK, chain
    <3> QED BY <2>8, <3>3
        DEF ProcessAttester, HonestInv, HonestStates, HonestViews, HonestQueue, HonestFetch,
            Loaded, chain, rollup
  <2>9. ASSUME NEW keys \in KeyFiles, Reload(keys) PROVE HonestInv'
    <3>1. HonestStates(state')
      BY <2>9, InitHonest DEF Reload, HonestInv, TypeOK
    <3>2. HonestStates(state)'
      BY <2>9, <3>1 DEF Reload, HonestStates, chain
    <3> QED BY <2>9, <3>2
        DEF Reload, HonestInv, HonestStates, HonestViews, HonestQueue, HonestFetch, Loaded,
            chain, rollup
  <2>10. ASSUME NEW keys \in KeyFiles, Start(keys) PROVE HonestInv'
    <3>1. HonestStates(state')
      BY <2>10, InitHonest, LoadedType DEF Start, HonestInv
    <3>2. HonestStates(state)' /\ HonestViews(view)'
      BY <2>10, <3>1 DEF Start, HonestInv, HonestStates, HonestViews, chain
    <3> QED BY <2>10, <3>2
        DEF Start, HonestInv, HonestStates, HonestViews, HonestQueue, HonestFetch, Loaded,
            chain, rollup, provider
  <2>11. CASE SaveSucceeds
    <3>1. Loaded' = Snapshot
      BY <2>11, NullAssumption DEF SaveSucceeds, Loaded, Snapshot, TypeOK
    <3>2. HonestStates(Loaded.state)' /\ HonestViews(Loaded.view)'
      BY <2>11, <3>1 DEF SaveSucceeds, Snapshot, HonestInv, HonestStates, HonestViews, chain
    <3> QED BY <2>11, <3>2
        DEF SaveSucceeds, HonestInv, HonestStates, HonestViews, HonestQueue, HonestFetch,
            chain, rollup, provider
  <2>12. ASSUME SaveFails \/ Die PROVE HonestInv'
    <3>1. Loaded' = Loaded \/ Loaded' = NoEntries
      BY <2>12 DEF SaveFails, Die, Loaded, NoEntries
    <3>2. reached' = reached /\ phase' = phase
      BY <2>12 DEF SaveFails, Die, chain
    <3>3. HonestStates(Loaded.state)' /\ HonestViews(Loaded.view)'
      BY <3>1, <3>2, NoEntriesHonest DEF HonestInv, HonestStates, HonestViews
    <3>4. HonestStates(state)' /\ HonestViews(view)'
      BY <2>12, <3>2, NoEntriesHonest
      DEF SaveFails, Die, HonestInv, HonestStates, HonestViews
    <3>5. HonestQueue(queue)' /\ HonestQueue(providerRead)' /\ HonestFetch'
      BY <2>12, <3>2 DEF SaveFails, Die, HonestInv, HonestQueue, HonestFetch, rollup, provider
    <3> QED BY <3>2, <3>3, <3>4, <3>5 DEF HonestInv
  <2>13. CASE RollupStart \/ UNCHANGED vars
    BY <2>2, <2>13 DEF RollupStart, vars, chain, rollup, provider, storage
  <2> QED BY <2>1, <2>3, <2>4, <2>5, <2>6, <2>7, <2>8, <2>9, <2>10, <2>11, <2>12, <2>13
      DEF Next
<1> QED BY <1>1, <1>2, TypeCorrect, PTL DEF Spec

\* No recorded state claims a stage of the lifecycle that the attester never was in,
\* whatever was stale when it was applied and however often the server restarted.
THEOREM ProvenanceHolds == Spec => []Provenance
<1>1. HonestInv => Provenance
  BY DEF HonestInv, HonestStates, Provenance
<1> QED BY <1>1, HonestInductive, PTL

------------------------------------------------------------------------------
(* An ACTIVE attester is dropped only if it left.  Because a rollup scrape     *)
(* never overlaps the previous one, the views of one attester are applied in   *)
(* the order in which they were read; so no view older than the one that made  *)
(* the attester ACTIVE can still be on its way.                                *)

StillIn == {"Validating", "NoView"}

\* Nothing that is stored or on its way contradicts an ACTIVE that is true.
Consistent(st, vw) ==
    \A a \in Attesters : ~HasLeft(a) /\ st[a] = "ACTIVE" => vw[a] \in StillIn

FreshFetch ==
    fetched # NoData =>
        LET a == fetched.att IN
        ~HasLeft(a) /\ (state[a] = "ACTIVE" \/ view[a] = "Validating")
            => fetched.view \in StillIn

FreshInv ==
    /\ \A a \in Attesters :
          ~HasLeft(a) /\ "validating" \in reached[a] => phase[a] = "validating"
    /\ ~up => state = NoEntries.state /\ fetched = NoData
    /\ Consistent(state, view) /\ Consistent(Loaded.state, Loaded.view)
    /\ FreshFetch

\* A transition makes or keeps an attester ACTIVE only on a view that agrees.
LEMMA ProcessConsistent ==
    ASSUME NEW s \in States \cup {NoState}, NEW v \in Views, NEW q \in BOOLEAN,
           s = "ACTIVE" => v \in StillIn
    PROVE  /\ ProcessAttesterState(s, v, q) = "ACTIVE" =>
                  v \in StillIn /\ (s = "ACTIVE" \/ v = "Validating")
           /\ s = "ACTIVE" => ProcessAttesterState(s, v, q) = "ACTIVE"
BY DEF ProcessAttesterState, InitialState, HandleStateTransitions, ViewState, Placing,
       BecomeActive, EndActive, States, Views, NoState, StillIn

\* Nobody is ACTIVE in an empty map.
LEMMA NoEntriesConsistent == Consistent(NoEntries.state, NoEntries.view)
BY NoEntriesType DEF Consistent, NoState

LEMMA FreshInductive == Spec => []FreshInv
<1>1. Init => FreshInv
  <2> SUFFICES ASSUME Init PROVE FreshInv
    OBVIOUS
  <2>1. Loaded = NoEntries
    BY DEF Init, Loaded
  <2>2. Consistent(state, view) /\ Consistent(Loaded.state, Loaded.view)
    BY <2>1, NoEntriesConsistent DEF Init
  <2> QED BY <2>2 DEF Init, FreshInv, FreshFetch
<1>2. TypeOK /\ TypeOK' /\ HonestInv /\ FreshInv /\ [Next]_vars => FreshInv'
  <2> SUFFICES ASSUME TypeOK, TypeOK', HonestInv, FreshInv, [Next]_vars PROVE FreshInv'
    OBVIOUS
  <2>1. ASSUME NEW a \in Attesters, ChainMove(a) PROVE FreshInv'
    <3>1. PICK p \in ChainSuccessors(phase[a]) :
             /\ phase' = [phase EXCEPT ![a] = p]
             /\ reached' = [reached EXCEPT ![a] = @ \cup {p}]
      BY <2>1 DEF ChainMove
    <3>2. \A b \in Attesters : HasLeft(b) => HasLeft(b)'
      BY <3>1 DEF HasLeft, TypeOK
    <3>3. ASSUME NEW b \in Attesters, ~HasLeft(b)', "validating" \in reached'[b]
          PROVE  phase'[b] = "validating"
      <4>1. CASE b = a /\ p # "validating"
        <5>1. "validating" \in reached[a] /\ ~HasLeft(a)
          BY <3>1, <3>2, <3>3, <4>1 DEF TypeOK
        <5>2. phase[a] = "validating"
          BY <5>1 DEF FreshInv
        <5>3. p = "leaving"
          BY <5>2 DEF ChainSuccessors
        <5> QED BY <3>1, <3>3, <4>1, <5>3 DEF HasLeft, TypeOK
      <4>2. CASE b # a \/ p = "validating"
        BY <3>1, <3>2, <3>3, <4>2 DEF FreshInv, TypeOK
      <4> QED BY <4>1, <4>2
    <3>4. UNCHANGED <<up, state, view, fetched, disk>>
      BY <2>1 DEF ChainMove, rollup, storage
    <3>5. Consistent(state, view)' /\ Consistent(Loaded.state, Loaded.view)'
      BY <3>2, <3>4 DEF FreshInv, Consistent, Loaded
    <3>6. FreshFetch'
      BY <3>2, <3>4 DEF FreshInv, FreshFetch, TypeOK
    <3> QED BY <3>3, <3>4, <3>5, <3>6 DEF FreshInv
  <2>2. ASSUME UNCHANGED <<chain, up, state, view, disk, fetched>> PROVE FreshInv'
    BY <2>2 DEF chain, FreshInv, Consistent, FreshFetch, HasLeft, Loaded
  <2>3. ASSUME NEW a \in Attesters, RollupRead(a) PROVE FreshInv'
    <3>1. PICK v \in ChainViews(phase[a]) : fetched' = [att |-> a, view |-> v]
      BY <2>3 DEF RollupRead
    <3>2. UNCHANGED <<chain, up, state, view, disk>> /\ up
      BY <2>3 DEF RollupRead, storage
    <3>3. ASSUME ~HasLeft(a), state[a] = "ACTIVE" \/ view[a] = "Validating"
          PROVE  v = "Validating"
      <4>1. "validating" \in reached[a]
        BY <3>3 DEF HonestInv, HonestStates, HonestViews, Claiming, Claim, Staged, ViewClaim
      <4>2. phase[a] = "validating"
        BY <3>3, <4>1 DEF FreshInv
      <4> QED BY <3>1, <4>2 DEF ChainViews
    <3>4. FreshFetch'
      BY <3>1, <3>2, <3>3 DEF FreshFetch, HasLeft, StillIn, chain
    <3> QED BY <3>2, <3>4 DEF chain, FreshInv, Consistent, HasLeft, Loaded
  <2>4. ASSUME NEW a \in Attesters, RollupReadFails(a) PROVE FreshInv'
    <3>1. FreshFetch'
      BY <2>4 DEF RollupReadFails, FreshFetch, StillIn
    <3>2. UNCHANGED <<chain, up, state, view, disk>> /\ up
      BY <2>4 DEF RollupReadFails, storage
    <3> QED BY <3>1, <3>2 DEF chain, FreshInv, Consistent, HasLeft, Loaded
  <2>5. CASE RollupApply
    <3>1. fetched \in [att : Attesters, view : Views]
      BY <2>5 DEF RollupApply, TypeOK
    <3>2. UNCHANGED <<chain, up, disk>> /\ up
      BY <2>5 DEF RollupApply
    <3>3. Consistent(state, view)'
      BY <2>5, <3>1 DEF RollupApply, FreshInv, Consistent, FreshFetch, HasLeft, TypeOK, chain
    <3>4. FreshFetch'
      BY <2>5 DEF RollupApply, FreshFetch
    <3> QED BY <3>2, <3>3, <3>4 DEF FreshInv, Consistent, HasLeft, Loaded, chain
  <2>6. ASSUME NEW a \in Attesters, ProcessAttester(a) PROVE FreshInv'
    <3> DEFINE next == ProcessAttesterState(state[a], view[a], InProviderQueue(a))
    <3>1. state' = [state EXCEPT ![a] = next] /\ UNCHANGED <<chain, up, view, disk, fetched>> /\ up
      BY <2>6 DEF ProcessAttester, rollup
    <3>2. ASSUME ~HasLeft(a), next = "ACTIVE"
          PROVE  view[a] \in StillIn /\ (state[a] = "ACTIVE" \/ view[a] = "Validating")
      <4>1. state[a] = "ACTIVE" => view[a] \in StillIn
        BY <3>2 DEF FreshInv, Consistent
      <4>2. InProviderQueue(a) \in BOOLEAN
        BY DEF InProviderQueue
      <4>3. /\ state[a] \in States \cup {NoState} /\ view[a] \in Views
        BY DEF TypeOK
      <4>4. next = "ACTIVE" => view[a] \in StillIn /\ (state[a] = "ACTIVE" \/ view[a] = "Validating")
        BY <4>1, <4>2, <4>3, ProcessConsistent
      <4> QED BY <3>2, <4>4
    <3> HIDE DEF next
    <3>3. Consistent(state, view)'
      BY <3>1, <3>2 DEF FreshInv, Consistent, HasLeft, TypeOK, chain
    <3>4. FreshFetch'
      BY <3>1, <3>2 DEF FreshInv, FreshFetch, HasLeft, TypeOK, chain
    <3> QED BY <3>1, <3>3, <3>4 DEF FreshInv, Consistent, HasLeft, Loaded, chain
  <2>7. ASSUME NEW keys \in KeyFiles, Reload(keys) PROVE FreshInv'
    <3>1. \A a \in Attesters : state'[a] = "ACTIVE" => state[a] = "ACTIVE"
      BY <2>7 DEF Reload, InitFromCache
    <3>2. UNCHANGED <<chain, up, view, disk, fetched>> /\ up
      BY <2>7 DEF Reload, rollup
    <3>3. Consistent(state, view)'
      BY <3>1, <3>2 DEF FreshInv, Consistent, HasLeft, chain
    <3>4. FreshFetch'
      BY <3>1, <3>2 DEF FreshInv, FreshFetch, HasLeft, TypeOK, chain
    <3> QED BY <3>2, <3>3, <3>4 DEF FreshInv, Consistent, HasLeft, Loaded, chain
  <2>8. ASSUME NEW keys \in KeyFiles, Start(keys) PROVE FreshInv'
    <3>1. \A a \in Attesters : state'[a] = "ACTIVE" => Loaded.state[a] = "ACTIVE"
      BY <2>8 DEF Start, InitFromCache
    <3>2. view' = Loaded.view /\ UNCHANGED <<chain, disk, fetched>> /\ up'
      BY <2>8 DEF Start, rollup
    <3>3. Consistent(state, view)'
      BY <3>1, <3>2 DEF FreshInv, Consistent, HasLeft, chain
    <3>4. fetched = NoData
      BY <2>8 DEF Start, FreshInv
    <3> QED BY <3>2, <3>3, <3>4 DEF FreshInv, FreshFetch, Consistent, HasLeft, Loaded, chain
  <2>9. CASE SaveSucceeds
    <3>1. Loaded' = Snapshot
      BY <2>9, NullAssumption DEF SaveSucceeds, Loaded, Snapshot, TypeOK
    <3>2. UNCHANGED <<chain, up, state, view, fetched>>
      BY <2>9 DEF SaveSucceeds, rollup
    <3> QED BY <3>1, <3>2 DEF Snapshot, FreshInv, FreshFetch, Consistent, HasLeft, chain
  <2>10. ASSUME SaveFails \/ Die PROVE FreshInv'
    <3>1. Loaded' = Loaded \/ Loaded' = NoEntries
      BY <2>10 DEF SaveFails, Die, Loaded, NoEntries
    <3>2. UNCHANGED chain
      BY <2>10 DEF SaveFails, Die
    <3>3. Consistent(Loaded.state, Loaded.view)'
      BY <3>1, <3>2, NoEntriesConsistent DEF FreshInv, Consistent, HasLeft, chain
    <3>4. CASE SaveFails
      BY <3>2, <3>3, <3>4 DEF SaveFails, rollup, FreshInv, FreshFetch, Consistent, HasLeft, chain
    <3>5. CASE Die
      <4>1. Consistent(state, view)' /\ FreshFetch'
        BY <3>5, NoEntriesType DEF Die, Consistent, FreshFetch, NoState
      <4>2. state' = NoEntries'.state /\ fetched' = NoData
        BY <3>5 DEF Die, NoEntries
      <4> QED BY <3>2, <3>3, <4>1, <4>2 DEF FreshInv, HasLeft, chain
    <3> QED BY <2>10, <3>4, <3>5
  <2>11. ASSUME RollupStart \/ ProviderRead \/ ProviderReadSkips \/ ProviderApply
                \/ UNCHANGED vars
         PROVE  FreshInv'
    BY <2>2, <2>11 DEF RollupStart, ProviderRead, ProviderReadSkips, ProviderApply, vars, chain,
                       rollup, storage
  <2> QED BY <2>1, <2>3, <2>4, <2>5, <2>6, <2>7, <2>8, <2>9, <2>10, <2>11 DEF Next
<1> QED BY <1>1, <1>2, TypeCorrect, HonestInductive, PTL DEF Spec

\* The transition step reports an ACTIVE attester as NO_LONGER_ACTIVE only if it began
\* to leave: neither a failed read nor a late answer nor a restart drops it.
THEOREM ActiveIsKept == Spec => ActiveLostOnlyIfLeft
<1>1. TypeOK /\ FreshInv /\ [Next]_vars =>
        \A a \in Attesters :
           state[a] = "ACTIVE" /\ state'[a] = "NO_LONGER_ACTIVE" => HasLeft(a)
  <2> SUFFICES ASSUME TypeOK, FreshInv, [Next]_vars, NEW a \in Attesters,
                      state[a] = "ACTIVE", state'[a] = "NO_LONGER_ACTIVE", ~HasLeft(a)
               PROVE  FALSE
    OBVIOUS
  <2>1. view[a] \in StillIn
    BY DEF FreshInv, Consistent
  <2>2. ASSUME NEW b \in Attesters, ProcessAttester(b) PROVE FALSE
    <3>1. b = a /\ state'[a] = ProcessAttesterState(state[a], view[a], InProviderQueue(a))
      BY <2>2 DEF ProcessAttester, TypeOK
    <3>2. InProviderQueue(a) \in BOOLEAN
      BY DEF InProviderQueue
    <3> QED BY <2>1, <3>1, <3>2, ProcessConsistent DEF TypeOK
  <2>3. CASE RollupApply
    BY <2>3 DEF RollupApply, TypeOK
  <2>4. ASSUME NEW keys \in KeyFiles, Reload(keys) PROVE FALSE
    BY <2>4 DEF Reload, InitFromCache
  <2>5. ASSUME NEW keys \in KeyFiles, Start(keys) PROVE FALSE
    BY <2>5, NoEntriesType DEF Start, FreshInv, NoState
  <2>6. CASE Die
    BY <2>6, NoEntriesType DEF Die, NoState
  <2>7. CASE UNCHANGED state
    BY <2>7
  <2>8. ASSUME \/ \E b \in Attesters : ChainMove(b) \/ RollupRead(b) \/ RollupReadFails(b)
               \/ RollupStart \/ ProviderRead \/ ProviderReadSkips \/ ProviderApply
               \/ SaveSucceeds \/ SaveFails \/ UNCHANGED vars
        PROVE  UNCHANGED state
    BY <2>8 DEF ChainMove, RollupRead, RollupReadFails, RollupStart, ProviderRead,
                ProviderReadSkips, ProviderApply, SaveSucceeds, SaveFails, vars
  <2> QED BY <2>2, <2>3, <2>4, <2>5, <2>6, <2>7, <2>8 DEF Next
<1> QED BY <1>1, TypeCorrect, FreshInductive, PTL DEF Spec, ActiveLostOnlyIfLeft
================================================================================
