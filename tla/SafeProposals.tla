---------------------------- MODULE SafeProposals ----------------------------
(* Topping up publishers through the Safe multisig of one network.  Actors:    *)
(* the publisher scraper, which reads balances one await at a time and then    *)
(* calls PublisherTopUpHandler for each; SafeGlobalClient, which works through *)
(* a queue of proposals and keeps a list of pending transactions that a poller *)
(* refreshes; the Safe transaction service; and the owners, who execute or     *)
(* reject what is pending.  Requests, poll answers and owners interleave at    *)
(* every await.                                                                *)
EXTENDS Integers, Sequences, FiniteSets

CONSTANTS
    Publishers,      \* publisher addresses of the keys files
    Checksummed,     \* those spelled as the transaction service spells them
    Polls,           \* fetches of pending transactions that may overlap
    MaxDrains,       \* bound on balances that fall below the threshold
    MaxFaults,       \* bound on failed calls, rejections and restarts
    MaxUnfinished,   \* bounds: queued plus pending requests of each publisher
    NoFetch          \* no fetch in flight

ASSUME BoundsAssumption == MaxDrains \in Nat /\ MaxFaults \in Nat

ASSUME UnfinishedAssumption == MaxUnfinished \in [Publishers -> Nat]

ASSUME AddressAssumption == Checksummed \subseteq Publishers

ASSUME NoFetchAssumption == \A S \in SUBSET Publishers : S # NoFetch

VARIABLES
    low,             \* publishers that need at least TOP_UP_THRESHOLD
    executed,        \* the Safe's on-chain nonce
    txs,             \* pending transactions at the service, one top-up each
    drains, faults,
    todo, need,      \* the publisher scrape: balances to read; low ones, in order
    scraping,        \* a publisher scrape is in progress
    queue,           \* the promise chain proposalQueue, oldest request first
    cached,          \* pendingTransactions: the addresses sent ETH by them
    fetches          \* fetches in flight: what the service answered to each

safe == <<low, executed, txs, drains>>
scrape == <<todo, need, scraping>>
client == <<queue, cached, fetches>>
vars == <<safe, faults, scrape, client>>

Tx == [to : Publishers, nonce : Nat]
Request == [to : Publishers, step : {"waiting", "checked", "numbered"}, nonce : Nat]

ToBePaid == {t.to : t \in txs}
Fault == faults < MaxFaults /\ faults' = faults + 1

------------------------------------------------------------------------------
(* The chain and the owners (external).                                        *)

Drain(p) ==
    /\ p \notin low /\ drains < MaxDrains
    /\ drains' = drains + 1
    /\ low' = low \cup {p}
    /\ UNCHANGED <<executed, txs, faults, scrape, client>>

\* A nonce is used up: whatever else was pending with it can no longer execute.
UseNonce ==
    /\ executed' = executed + 1
    /\ txs' = {t \in txs : t.nonce # executed}

Execute(t) ==
    /\ t.nonce = executed
    /\ UseNonce
    /\ low' = low \ {t.to}
    /\ UNCHANGED <<drains, faults, scrape, client>>

Reject(t) ==
    /\ t.nonce = executed /\ Fault
    /\ UseNonce
    /\ UNCHANGED <<low, drains, scrape, client>>

------------------------------------------------------------------------------
(* PublisherScraper.scrape and, in the step of its last line,                  *)
(* updatePublisherData and the callback of PublisherTopUpHandler.              *)

ScrapeStart ==
    /\ ~scraping
    /\ scraping' = TRUE /\ todo' = Publishers /\ need' = <<>>
    /\ UNCHANGED <<safe, faults, client>>

Unfinished(p) ==
    Cardinality({i \in DOMAIN queue : queue[i].to = p}) + Cardinality({t \in txs : t.to = p})

NeedsTopUp(p) == p \in low /\ Unfinished(p) < MaxUnfinished[p]

ScrapeRead(p) ==
    /\ p \in todo
    /\ todo' = todo \ {p}
    /\ need' = IF NeedsTopUp(p) THEN Append(need, p) ELSE need
    /\ UNCHANGED <<safe, faults, scraping, client>>

\* A balance that cannot be read ends the scrape; nothing is updated.
ScrapeFails ==
    /\ todo # {} /\ Fault
    /\ scraping' = FALSE /\ todo' = {} /\ need' = <<>>
    /\ UNCHANGED <<safe, client>>

\* Every data entry counts as new, so every low publisher is proposed again.
Proposals == [i \in 1..Len(need) |-> [to |-> need[i], step |-> "waiting", nonce |-> 0]]

ScrapeUpdate ==
    /\ scraping /\ todo = {}
    /\ scraping' = FALSE /\ need' = <<>>
    /\ queue' = queue \o Proposals
    /\ UNCHANGED <<safe, faults, todo, cached, fetches>>

------------------------------------------------------------------------------
(* SafeGlobalClient: the pending list.                                         *)

FetchStart(s) ==
    /\ fetches[s] = NoFetch
    /\ fetches' = [fetches EXCEPT ![s] = ToBePaid]
    /\ UNCHANGED <<safe, faults, scrape, queue, cached>>

\* Answers are applied in the order they arrive, not the order they were asked for.
FetchApply(s) ==
    /\ fetches[s] # NoFetch
    /\ cached' = fetches[s]
    /\ fetches' = [fetches EXCEPT ![s] = NoFetch]
    /\ UNCHANGED <<safe, faults, scrape, queue>>

\* A failed fetch keeps the list; the mistake is to take it for an empty answer.
NoResults == {}
AfterFailedFetch == cached

FetchFails(s) ==
    /\ fetches[s] # NoFetch /\ Fault
    /\ fetches' = [fetches EXCEPT ![s] = NoFetch]
    /\ cached' = AfterFailedFetch
    /\ UNCHANGED <<safe, scrape, queue>>

------------------------------------------------------------------------------
(* SafeGlobalClient: the proposals.                                            *)

\* proposeTransactions chains each request to the previous one.
AnyTurn(i) == TRUE
Turn(i) == i = 1

Without(i) == SubSeq(queue, 1, i - 1) \o SubSeq(queue, i + 1, Len(queue))

\* The catch of proposeTransactions lets the next request run after a failed one.
Rejected(i) == [queue EXCEPT ![i] = [@ EXCEPT !.step = "failed"]]
AfterFailure(i) == Without(i)

\* The addresses are compared as strings; inFlightKeys is never filled.
IsBeingProposed(p) == p \in Checksummed /\ p \in cached

\* initProtocolKit, the preflight, then the test for a duplicate.
Check(i) ==
    /\ Turn(i) /\ queue[i].step = "waiting"
    /\ queue' = IF IsBeingProposed(queue[i].to) THEN Without(i)
                ELSE [queue EXCEPT ![i] = [to |-> queue[i].to, step |-> "checked", nonce |-> 0]]
    /\ UNCHANGED <<safe, faults, scrape, cached, fetches>>

\* The service's next nonce: above every pending one and not yet used on chain.
\* The mistake is to ask the chain only.
OnChainNonce(n) == n = executed
NextNonce(n) ==
    /\ n >= executed
    /\ \A t \in txs : t.nonce < n
    /\ n = executed \/ \E t \in txs : n = t.nonce + 1

ReadNonce(i) ==
    /\ Turn(i) /\ queue[i].step = "checked"
    /\ \E n \in {executed} \cup {t.nonce + 1 : t \in txs} :
          /\ NextNonce(n)
          /\ queue' = [queue EXCEPT ![i] = [to |-> queue[i].to, step |-> "numbered", nonce |-> n]]
    /\ UNCHANGED <<safe, faults, scrape, cached, fetches>>

Propose(i) ==
    /\ Turn(i) /\ queue[i].step = "numbered"
    /\ txs' = txs \cup {[to |-> queue[i].to, nonce |-> queue[i].nonce]}

Submit(i) ==
    /\ Propose(i)
    /\ queue' = Without(i)
    /\ UNCHANGED <<low, executed, drains, faults, scrape, cached, fetches>>

\* The service has the transaction but its answer is lost.
SubmitUnanswered(i) ==
    /\ Propose(i) /\ Fault
    /\ queue' = AfterFailure(i)
    /\ UNCHANGED <<low, executed, drains, scrape, cached, fetches>>

\* Any call of _proposeTransactionsInternal throws before the service has it.
ProposalFails(i) ==
    /\ Turn(i) /\ Fault
    /\ queue' = AfterFailure(i)
    /\ UNCHANGED <<safe, scrape, cached, fetches>>

------------------------------------------------------------------------------
(* A new process knows nothing; the constructor sends the first fetch.         *)

FirstFetch(s) == [f \in Polls |-> IF f = s THEN ToBePaid ELSE NoFetch]

Restart ==
    /\ Fault
    /\ queue' = <<>> /\ cached' = {}
    /\ \E s \in Polls : fetches' = FirstFetch(s)
    /\ scraping' = FALSE /\ todo' = {} /\ need' = <<>>
    /\ UNCHANGED safe

Init ==
    /\ low \in SUBSET Publishers /\ executed = 0 /\ txs = {} /\ drains = 0
    /\ faults = 0 /\ scraping = FALSE /\ todo = {} /\ need = <<>>
    /\ queue = <<>> /\ cached = {}
    /\ \E s \in Polls : fetches = FirstFetch(s)

ScrapeNext == ScrapeStart \/ (\E p \in Publishers : ScrapeRead(p)) \/ ScrapeUpdate
FetchNext(s) == FetchStart(s) \/ FetchApply(s)
ProposalNext(i) == Check(i) \/ ReadNonce(i) \/ Submit(i)

Next ==
    \/ \E p \in Publishers : Drain(p) \/ ScrapeRead(p)
    \/ \E t \in txs : Execute(t) \/ Reject(t)
    \/ ScrapeStart \/ ScrapeFails \/ ScrapeUpdate
    \/ \E s \in Polls : FetchStart(s) \/ FetchApply(s) \/ FetchFails(s)
    \/ \E i \in DOMAIN queue : Check(i) \/ ReadNonce(i) \/ Submit(i)
    \/ \E i \in DOMAIN queue : SubmitUnanswered(i) \/ ProposalFails(i)
    \/ Restart

Spec == Init /\ [][Next]_vars

\* Timers keep firing and calls return; owners need not do anything.
FairSpec ==
    /\ Spec
    /\ WF_vars(ScrapeNext)
    /\ \A s \in Polls : WF_vars(FetchNext(s))
    /\ WF_vars(\E i \in DOMAIN queue : ProposalNext(i))

------------------------------------------------------------------------------
(* Properties.                                                                 *)

TypeOK ==
    /\ low \in SUBSET Publishers /\ executed \in Nat /\ txs \in SUBSET Tx
    /\ drains \in 0..MaxDrains /\ faults \in 0..MaxFaults
    /\ todo \in SUBSET Publishers /\ need \in Seq(Publishers) /\ scraping \in BOOLEAN
    /\ queue \in Seq(Request)
    /\ cached \in SUBSET Publishers
    /\ fetches \in [Polls -> (SUBSET Publishers) \cup {NoFetch}]

\* The comments on proposalQueue and proposeTransaction: the queue prevents nonce
\* conflicts, whatever fails, executes or restarts between the steps of a proposal.
NoNonceConflict == \A t, u \in txs : t.nonce = u.nonce => t = u

\* Every pending top-up can still be executed: its nonce is unused and no smaller
\* nonce is missing, so the owners never face a transaction stuck behind a gap.
Executable ==
    \A t \in txs : /\ t.nonce >= executed
                   /\ \A n \in executed..t.nonce : \E u \in txs : u.nonce = n

\* The process knows of p's pending top-up, and nothing under way says otherwise.
Settled(p) ==
    /\ p \in ToBePaid /\ p \in cached
    /\ \A s \in Polls : fetches[s] # NoFetch => p \in fetches[s]
    /\ \A i \in DOMAIN queue : queue[i].to = p => queue[i].step = "waiting"

\* isBeingProposed over time: a known pending top-up stays known until the owners
\* decide or the process restarts, and meanwhile is never proposed a second time,
\* although polls overlap, fail and answer out of order.
KnownIsNotRepeated ==
    [][\A p \in Checksummed : Settled(p) =>
          /\ Settled(p)' \/ p \notin ToBePaid' \/ (queue' = <<>> /\ cached' = {})
          /\ {t \in txs' : t.to = p} \subseteq txs]_vars

\* PublisherTopUpHandler: a low publisher ends up with a top-up before the owners,
\* although scrapes, proposals and fetches fail, and the list in use is stale.
LowReachesOwners == \A p \in Publishers : p \in low ~> (p \notin low \/ p \in ToBePaid)

\* The comment on isBeingProposed: a top-up is not proposed when an outgoing one to
\* that address exists (in-flight ones included: "covers bursts").
OneTopUpEach == \A t, u \in txs : t.to = u.to => t = u
==============================================================================
