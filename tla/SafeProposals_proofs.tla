------------------------ MODULE SafeProposals_proofs ------------------------
(* What holds of SafeProposals for every set of publishers, every number of  *)
(* overlapping fetches and every bound on drains, faults and requests.       *)
EXTENDS SafeProposals, SequenceTheorems, TLAPS

------------------------------------------------------------------------------
(* The queue: taking out an entry, replacing one, appending new ones.          *)

LEMMA WithoutType ==
  ASSUME queue \in Seq(Request), NEW i \in DOMAIN queue
  PROVE  /\ Without(i) \in Seq(Request)
         /\ \A j \in DOMAIN Without(i) : \E k \in DOMAIN queue :
               Without(i)[j] = queue[k] /\ (i = 1 => k = j + 1)
<1> DEFINE n == Len(queue)
           a == SubSeq(queue, 1, i - 1)
           b == SubSeq(queue, i + 1, n)
<1>1. i \in 1..n /\ n \in Nat /\ DOMAIN queue = 1..n
  BY LenProperties
<1>2. a \in Seq(Request) /\ Len(a) = i - 1 /\ \A j \in 1..(i - 1) : a[j] = queue[j]
  BY <1>1, SubSeqProperties, SMT
<1>3. b \in Seq(Request) /\ Len(b) = n - i /\ \A j \in 1..(n - i) : b[j] = queue[i + j]
  <2>1. i + 1 \in 1..(n + 1) /\ n \in i..n
    BY <1>1
  <2> QED BY <1>1, <2>1, SubSeqProperties, SMT
<1>4. /\ Without(i) = a \o b /\ Without(i) \in Seq(Request) /\ Len(Without(i)) = n - 1
      /\ \A j \in 1..(n - 1) : Without(i)[j] = IF j <= i - 1 THEN a[j] ELSE b[j - (i - 1)]
  <2>1. a \in Seq(Request) /\ b \in Seq(Request)
    BY <1>2, <1>3, Zenon
  <2>2. Len(a) = i - 1 /\ Len(b) = n - i
    BY <1>2, <1>3, Zenon
  <2>3. Without(i) = a \o b
    BY Zenon DEF Without
  <2> HIDE DEF a, b, n
  <2>4. /\ a \o b \in Seq(Request)
        /\ Len(a \o b) = Len(a) + Len(b)
        /\ \A j \in 1..(Len(a) + Len(b)) :
              (a \o b)[j] = IF j <= Len(a) THEN a[j] ELSE b[j - Len(a)]
    BY <2>1, ConcatProperties
  <2>5. Len(a) + Len(b) = n - 1
    BY <2>2, <1>1
  <2> QED BY <2>2, <2>3, <2>4, <2>5
<1>5. DOMAIN Without(i) = 1..(n - 1)
  BY <1>4, LenProperties, <1>1
<1>6. ASSUME NEW j \in 1..(n - 1)
      PROVE  \E k \in 1..n : Without(i)[j] = queue[k] /\ (i = 1 => k = j + 1)
  <2>1. CASE j <= i - 1
    BY <1>1, <1>2, <1>4, <2>1
  <2>2. CASE j > i - 1
    <3>1. j - (i - 1) \in 1..(n - i) /\ i + (j - (i - 1)) = j + 1 /\ j + 1 \in 1..n
      BY <1>1, <2>2
    <3>2. Without(i)[j] = b[j - (i - 1)]
      <4> HIDE DEF a, b, n
      <4> QED BY <1>4, <2>2, <1>1
    <3>3. b[j - (i - 1)] = queue[j + 1]
      BY <1>3, <3>1
    <3> QED BY <3>1, <3>2, <3>3
  <2> QED BY <2>1, <2>2, <1>1
<1> QED BY <1>1, <1>4, <1>5, <1>6

LEMMA ProposalsType ==
  ASSUME need \in Seq(Publishers)
  PROVE  /\ Proposals \in Seq(Request)
         /\ \A i \in DOMAIN Proposals : Proposals[i].step = "waiting"
<1>1. Len(need) \in Nat /\ \A i \in 1..Len(need) : need[i] \in Publishers
  BY ElementOfSeq, LenProperties
<1>2. Proposals \in [1..Len(need) -> Request]
  BY <1>1 DEF Proposals, Request
<1> QED BY <1>1, <1>2, SeqDef DEF Proposals

LEMMA EnqueuedType ==
  ASSUME queue \in Seq(Request), need \in Seq(Publishers)
  PROVE  /\ queue \o Proposals \in Seq(Request)
         /\ \A i \in DOMAIN (queue \o Proposals) :
               \/ i \in DOMAIN queue /\ (queue \o Proposals)[i] = queue[i]
               \/ (queue \o Proposals)[i].step = "waiting"
<1>1. Proposals \in Seq(Request) /\ \A i \in DOMAIN Proposals : Proposals[i].step = "waiting"
  BY ProposalsType
<1>2. DOMAIN Proposals = 1..Len(Proposals) /\ DOMAIN queue = 1..Len(queue)
      /\ Len(queue) \in Nat /\ Len(Proposals) \in Nat
  BY <1>1, LenProperties
<1> HIDE DEF Proposals
<1>3. /\ queue \o Proposals \in Seq(Request)
      /\ DOMAIN (queue \o Proposals) = 1..(Len(queue) + Len(Proposals))
      /\ \A i \in 1..(Len(queue) + Len(Proposals)) :
            (queue \o Proposals)[i] = IF i <= Len(queue) THEN queue[i]
                                                         ELSE Proposals[i - Len(queue)]
  BY <1>1, ConcatProperties, LenProperties
<1> QED BY <1>1, <1>2, <1>3

LEMMA MovedType ==
  ASSUME queue \in Seq(Request), NEW i \in DOMAIN queue, NEW r \in Request
  PROVE  /\ [queue EXCEPT ![i] = r] \in Seq(Request)
         /\ DOMAIN [queue EXCEPT ![i] = r] = DOMAIN queue
<1>1. i \in 1..Len(queue)
  BY LenProperties
<1> QED BY <1>1, ExceptSeq

------------------------------------------------------------------------------
(* Type correctness.                                                           *)

LEMMA FaultType == TypeOK /\ Fault => faults' \in 0..MaxFaults
BY BoundsAssumption DEF TypeOK, Fault

LEMMA NextStepType ==
  TypeOK /\ Next => TypeOK'
<1> SUFFICES ASSUME TypeOK, Next PROVE TypeOK'
  OBVIOUS
<1> USE BoundsAssumption DEF TypeOK
<1>1. ASSUME NEW p \in Publishers, Drain(p) PROVE TypeOK'
  BY <1>1 DEF Drain, scrape, client
<1>2. ASSUME NEW p \in Publishers, ScrapeRead(p) PROVE TypeOK'
  <2>1. Append(need, p) \in Seq(Publishers)
    BY AppendProperties
  <2> QED BY <1>2, <2>1 DEF ScrapeRead, safe, client
<1>3. ASSUME NEW t \in txs, Execute(t) \/ Reject(t) PROVE TypeOK'
  BY <1>3 DEF Execute, Reject, UseNonce, Fault, scrape, client, Tx
<1>4. CASE ScrapeStart \/ ScrapeFails
  <2>1. <<>> \in Seq(Publishers)
    BY EmptySeq
  <2>2. need' = <<>> /\ need' \in Seq(Publishers)
    BY <1>4, <2>1, Zenon DEF ScrapeStart, ScrapeFails
  <2>3. /\ scraping' \in BOOLEAN /\ todo' \in SUBSET Publishers
        /\ faults' \in 0..MaxFaults /\ UNCHANGED <<safe, client>>
    BY <1>4, FaultType, Zenon DEF ScrapeStart, ScrapeFails
  <2> QED BY <2>2, <2>3 DEF safe, client
<1>5. CASE ScrapeUpdate
  <2>1. <<>> \in Seq(Publishers)
    BY EmptySeq
  <2>2. queue' \in Seq(Request)
    BY <1>5, EnqueuedType DEF ScrapeUpdate
  <2>3. need' \in Seq(Publishers)
    BY <1>5, <2>1, Zenon DEF ScrapeUpdate
  <2> QED BY <1>5, <2>3, <2>2 DEF ScrapeUpdate, safe
<1>6. ASSUME NEW s \in Polls, FetchStart(s) \/ FetchApply(s) \/ FetchFails(s) PROVE TypeOK'
  <2>1. ToBePaid \in SUBSET Publishers
    BY DEF ToBePaid, Tx
  <2> QED BY <1>6, <2>1
       DEF FetchStart, FetchApply, FetchFails, AfterFailedFetch, Fault, safe, scrape
<1>7. ASSUME NEW i \in DOMAIN queue, Check(i) \/ ReadNonce(i) PROVE TypeOK'
  <2>0. queue[i] \in Request
    BY ElementOfSeq, LenProperties
  <2>1. Without(i) \in Seq(Request)
    BY WithoutType
  <2>2. [to |-> queue[i].to, step |-> "checked", nonce |-> 0] \in Request
    BY <2>0 DEF Request
  <2>3. ASSUME NEW n \in Nat
        PROVE  [to |-> queue[i].to, step |-> "numbered", nonce |-> n] \in Request
    BY <2>0 DEF Request
  <2>4. CASE Check(i)
    <3>1. queue' \in Seq(Request)
      BY <2>4, <2>1, <2>2, MovedType DEF Check
    <3> QED BY <2>4, <3>1 DEF Check, safe, scrape
  <2>5. CASE ReadNonce(i)
    <3>1. PICK n \in {executed} \cup {t.nonce + 1 : t \in txs} :
             queue' = [queue EXCEPT ![i] = [to |-> queue[i].to, step |-> "numbered", nonce |-> n]]
      BY <2>5 DEF ReadNonce
    <3>2. n \in Nat
      BY DEF Tx
    <3>3. queue' \in Seq(Request)
      BY <2>3, <3>1, <3>2, MovedType
    <3> QED BY <2>5, <3>3 DEF ReadNonce, safe, scrape
  <2> QED BY <1>7, <2>4, <2>5
<1>8. ASSUME NEW i \in DOMAIN queue, Submit(i) \/ SubmitUnanswered(i) \/ ProposalFails(i)
      PROVE  TypeOK'
  <2>1. queue[i] \in Request
    BY ElementOfSeq, LenProperties
  <2>2. queue' \in Seq(Request)
    BY <1>8, WithoutType DEF Submit, SubmitUnanswered, ProposalFails, AfterFailure
  <2>3. txs' \in SUBSET Tx
    BY <1>8, <2>1 DEF Submit, SubmitUnanswered, ProposalFails, Propose, safe, Tx, Request
  <2> QED BY <1>8, <2>2, <2>3
       DEF Submit, SubmitUnanswered, ProposalFails, Fault, safe, scrape
<1>9. CASE Restart
  <2>1. <<>> \in Seq(Publishers) /\ <<>> \in Seq(Request)
    BY EmptySeq
  <2>2. ToBePaid \in SUBSET Publishers
    BY DEF ToBePaid, Tx
  <2>3. fetches' \in [Polls -> (SUBSET Publishers) \cup {NoFetch}]
    BY <1>9, <2>2 DEF Restart, FirstFetch
  <2>4. need' \in Seq(Publishers) /\ queue' \in Seq(Request)
    BY <1>9, <2>1, Zenon DEF Restart
  <2>5. /\ scraping' \in BOOLEAN /\ todo' \in SUBSET Publishers
        /\ cached' \in SUBSET Publishers /\ faults' \in 0..MaxFaults /\ UNCHANGED safe
    BY <1>9, FaultType, Zenon DEF Restart
  <2> QED BY <2>3, <2>4, <2>5 DEF safe
<1> QED BY <1>1, <1>2, <1>3, <1>4, <1>5, <1>6, <1>7, <1>8, <1>9 DEF Next

LEMMA InitType == Init => TypeOK
<1> SUFFICES ASSUME Init PROVE TypeOK
  OBVIOUS
<1>1. <<>> \in Seq(Publishers) /\ <<>> \in Seq(Request)
  BY EmptySeq
<1>2. ToBePaid = {}
  BY DEF Init, ToBePaid
<1>3. need \in Seq(Publishers) /\ queue \in Seq(Request)
  BY <1>1, Zenon DEF Init
<1>4. fetches \in [Polls -> (SUBSET Publishers) \cup {NoFetch}]
  BY <1>2 DEF Init, FirstFetch
<1>5. /\ low \in SUBSET Publishers /\ executed \in Nat /\ txs \in SUBSET Tx
      /\ drains \in 0..MaxDrains /\ faults \in 0..MaxFaults
      /\ todo \in SUBSET Publishers /\ scraping \in BOOLEAN /\ cached \in SUBSET Publishers
  <2>1. 0 \in Nat /\ 0 \in 0..MaxDrains /\ 0 \in 0..MaxFaults
    BY BoundsAssumption
  <2> QED BY <2>1, Zenon DEF Init
<1> QED BY <1>3, <1>4, <1>5 DEF TypeOK

\* Queue, pending list and fetches stay well formed, for any number of publishers.
THEOREM SafeTypeCorrect == Spec => []TypeOK
<1>1. TypeOK /\ UNCHANGED vars => TypeOK'
  BY DEF TypeOK, vars, safe, scrape, client
<1> QED BY <1>1, InitType, NextStepType, PTL DEF Spec

------------------------------------------------------------------------------
(* Nonces.  NoNonceConflict is not inductive: a proposal carries its nonce     *)
(* over two awaits.  It is kept because only the head of the queue acts, so    *)
(* between reading a nonce and using it nothing else is proposed, and because  *)
(* owners use up nonces from below, those of pending transactions only.        *)

Fits(n) ==
    /\ n >= executed
    /\ \A t \in txs : t.nonce < n
    /\ \A m \in executed..(n - 1) : \E u \in txs : u.nonce = m

OnlyHeadActs == \A i \in DOMAIN queue : queue[i].step # "waiting" => i = 1

NumberedFits == \A i \in DOMAIN queue : queue[i].step = "numbered" => Fits(queue[i].nonce)

Nonces == NoNonceConflict /\ Executable

NonceInv == TypeOK /\ Nonces /\ OnlyHeadActs /\ NumberedFits

\* getNextNonce gives a nonce that fits.
LEMMA NextNonceFits ==
  ASSUME TypeOK, Executable, NEW n \in Nat, NextNonce(n)
  PROVE  Fits(n)
<1>1. CASE n = executed
  BY <1>1 DEF NextNonce, Fits, TypeOK
<1>2. ASSUME NEW t \in txs, n = t.nonce + 1 PROVE Fits(n)
  BY <1>2 DEF NextNonce, Fits, Executable, TypeOK, Tx
<1> QED BY <1>1, <1>2 DEF NextNonce

\* Proposing with a nonce that fits leaves the nonces in order.
LEMMA ProposingKeepsNonces ==
  ASSUME TypeOK, Nonces, NEW n \in Nat, Fits(n), NEW p \in Publishers,
         txs' = txs \cup {[to |-> p, nonce |-> n]}, executed' = executed
  PROVE  Nonces'
<1> DEFINE x == [to |-> p, nonce |-> n]
<1>1. x.nonce = n /\ x \in txs' /\ txs \subseteq txs' /\ \A t \in txs' : t \in txs \/ t = x
  OBVIOUS
<1> HIDE DEF x
<1>2. NoNonceConflict'
  BY <1>1 DEF Nonces, NoNonceConflict, Fits, TypeOK, Tx
<1>3. ASSUME NEW t \in txs', NEW m \in executed..t.nonce
      PROVE  t.nonce >= executed /\ \E u \in txs' : u.nonce = m
  <2>1. CASE t \in txs
    BY <1>1, <2>1 DEF Nonces, Executable
  <2>2. CASE t = x
    <3>1. CASE m = n
      BY <1>1, <2>2, <3>1 DEF Fits
    <3>2. CASE m # n
      <4>1. m \in executed..(n - 1)
        BY <1>1, <2>2, <3>2 DEF TypeOK
      <4> QED BY <1>1, <2>2, <4>1 DEF Fits
    <3> QED BY <3>1, <3>2
  <2> QED BY <1>1, <2>1, <2>2
<1>4. \A t \in txs' : t.nonce >= executed
  BY <1>1 DEF Nonces, Executable, Fits
<1> QED BY <1>2, <1>3, <1>4 DEF Nonces, Executable

\* Using up the nonce of a pending transaction leaves the nonces in order.
LEMMA UsingNonceKeepsNonces ==
  ASSUME TypeOK, Nonces, NEW t \in txs, t.nonce = executed, UseNonce
  PROVE  /\ Nonces'
         /\ \A n \in Nat : Fits(n) => Fits(n)'
<1>1. executed' = executed + 1 /\ txs' = {u \in txs : u.nonce # executed} /\ executed \in Nat
      /\ \A u \in txs : u.nonce \in Nat
  BY DEF UseNonce, TypeOK, Tx
<1>2. NoNonceConflict'
  BY <1>1 DEF Nonces, NoNonceConflict
<1>3. Executable'
  <2>1. ASSUME NEW u \in txs', NEW m \in executed'..u.nonce
        PROVE  \E w \in txs' : w.nonce = m
    <3>1. m \in executed..u.nonce /\ u \in txs /\ m # executed
      BY <1>1
    <3>2. PICK w \in txs : w.nonce = m
      BY <3>1 DEF Nonces, Executable
    <3> QED BY <1>1, <3>1, <3>2
  <2>2. \A u \in txs' : u.nonce >= executed'
    BY <1>1 DEF Nonces, Executable
  <2> QED BY <2>1, <2>2 DEF Executable
<1>4. ASSUME NEW n \in Nat, Fits(n) PROVE Fits(n)'
  <2>1. ASSUME NEW m \in executed'..(n - 1)
        PROVE  \E w \in txs' : w.nonce = m
    <3>1. m \in executed..(n - 1) /\ m # executed
      BY <1>1
    <3>2. PICK w \in txs : w.nonce = m
      BY <1>4, <3>1 DEF Fits
    <3> QED BY <1>1, <3>1, <3>2
  <2>2. n >= executed' /\ \A u \in txs' : u.nonce < n
    BY <1>1, <1>4 DEF Fits
  <2> QED BY <2>1, <2>2 DEF Fits
<1> QED BY <1>2, <1>3, <1>4 DEF Nonces

\* Taking out the head leaves requests that have not been started.
LEMMA HeadDone ==
  ASSUME TypeOK, OnlyHeadActs, NEW i \in DOMAIN queue, i = 1, queue' = Without(i)
  PROVE  OnlyHeadActs' /\ NumberedFits'
<1>1. \A j \in DOMAIN queue' : \E k \in DOMAIN queue : queue'[j] = queue[k] /\ k = j + 1
  BY WithoutType DEF TypeOK
<1>2. queue' \in Seq(Request) /\ DOMAIN queue' = 1..Len(queue')
  BY WithoutType, LenProperties DEF TypeOK
<1>3. Len(queue') \in Nat
  BY <1>2, LenProperties
<1>4. \A j \in DOMAIN queue' : queue'[j].step = "waiting"
  BY <1>1, <1>2, <1>3 DEF OnlyHeadActs
<1> QED BY <1>4 DEF OnlyHeadActs, NumberedFits

LEMMA NextKeepsNonces ==
  NonceInv /\ Next => NonceInv'
<1> SUFFICES ASSUME NonceInv, Next PROVE NonceInv'
  OBVIOUS
<1>0. TypeOK' /\ TypeOK /\ Nonces /\ OnlyHeadActs /\ NumberedFits
  BY NextStepType DEF NonceInv
<1>01. DOMAIN queue = 1..Len(queue) /\ Len(queue) \in Nat
       /\ \A i \in DOMAIN queue : queue[i] \in Request
  BY <1>0, LenProperties, ElementOfSeq DEF TypeOK
<1>1. ASSUME UNCHANGED <<executed, txs, queue>> PROVE NonceInv'
  BY <1>0, <1>1
     DEF NonceInv, Nonces, NoNonceConflict, Executable, OnlyHeadActs, NumberedFits, Fits
<1>2. ASSUME NEW t \in txs, Execute(t) \/ Reject(t) PROVE NonceInv'
  <2>1. UseNonce /\ t.nonce = executed /\ queue' = queue
    BY <1>2 DEF Execute, Reject, client
  <2>2. Nonces' /\ \A n \in Nat : Fits(n) => Fits(n)'
    BY <1>0, <2>1, UsingNonceKeepsNonces
  <2>3. OnlyHeadActs'
    BY <1>0, <2>1 DEF OnlyHeadActs
  <2>4. NumberedFits'
    <3> SUFFICES ASSUME NEW i \in DOMAIN queue, queue[i].step = "numbered"
                 PROVE  Fits(queue[i].nonce)'
      BY <2>1 DEF NumberedFits
    <3>1. queue[i].nonce \in Nat /\ Fits(queue[i].nonce)
      BY <1>0, <1>01 DEF NumberedFits, Request
    <3> QED BY <2>1, <2>2, <3>1 DEF Fits
  <2> QED BY <1>0, <2>2, <2>3, <2>4 DEF NonceInv
<1>3. CASE ScrapeUpdate
  <2>1. queue' = queue \o Proposals /\ UNCHANGED <<executed, txs>>
    BY <1>3 DEF ScrapeUpdate, safe
  <2>2. \A i \in DOMAIN queue' : \/ i \in DOMAIN queue /\ queue'[i] = queue[i]
                                 \/ queue'[i].step = "waiting"
    BY <1>0, <2>1, EnqueuedType DEF TypeOK
  <2> QED BY <1>0, <2>1, <2>2
          DEF NonceInv, Nonces, NoNonceConflict, Executable, OnlyHeadActs, NumberedFits, Fits
<1>4. ASSUME NEW i \in DOMAIN queue, Check(i) PROVE NonceInv'
  <2>1. i = 1 /\ UNCHANGED <<executed, txs>>
    BY <1>4 DEF Check, Turn, safe
  <2>2. OnlyHeadActs' /\ NumberedFits'
    <3>1. CASE queue' = Without(i)
      BY <1>0, <2>1, <3>1, HeadDone
    <3>2. CASE queue' = [queue EXCEPT ![i] = [to |-> queue[i].to, step |-> "checked", nonce |-> 0]]
      <4>1. DOMAIN queue' = DOMAIN queue /\ queue'[i].step = "checked"
            /\ \A j \in DOMAIN queue : j # i => queue'[j] = queue[j]
        BY <1>01, <3>2
      <4> QED BY <1>0, <2>1, <4>1 DEF OnlyHeadActs, NumberedFits, Fits
    <3> QED BY <1>4, <3>1, <3>2 DEF Check
  <2> QED BY <1>0, <2>1, <2>2 DEF NonceInv, Nonces, NoNonceConflict, Executable
<1>5. ASSUME NEW i \in DOMAIN queue, ReadNonce(i) PROVE NonceInv'
  <2>1. i = 1 /\ UNCHANGED <<executed, txs>>
    BY <1>5 DEF ReadNonce, Turn, safe
  <2>2. PICK n \in {executed} \cup {t.nonce + 1 : t \in txs} :
           /\ NextNonce(n)
           /\ queue' = [queue EXCEPT ![i] = [to |-> queue[i].to, step |-> "numbered", nonce |-> n]]
    BY <1>5 DEF ReadNonce
  <2>3. n \in Nat /\ Fits(n)
    <3>1. n \in Nat
      BY <1>0 DEF TypeOK, Tx
    <3> QED BY <1>0, <2>2, <3>1, NextNonceFits DEF Nonces
  <2>4. DOMAIN queue' = DOMAIN queue /\ queue'[i].nonce = n
        /\ \A j \in DOMAIN queue : j # i => queue'[j] = queue[j]
    BY <1>01, <2>2
  <2>5. OnlyHeadActs' /\ NumberedFits'
    BY <1>0, <2>1, <2>3, <2>4 DEF OnlyHeadActs, NumberedFits, Fits
  <2> QED BY <1>0, <2>1, <2>5 DEF NonceInv, Nonces, NoNonceConflict, Executable
<1>6. ASSUME NEW i \in DOMAIN queue, Submit(i) \/ SubmitUnanswered(i) PROVE NonceInv'
  <2>1. /\ i = 1 /\ queue[i].step = "numbered" /\ queue' = Without(i)
        /\ txs' = txs \cup {[to |-> queue[i].to, nonce |-> queue[i].nonce]}
        /\ executed' = executed
    BY <1>6 DEF Submit, SubmitUnanswered, Propose, Turn, AfterFailure
  <2>2. queue[i].to \in Publishers /\ queue[i].nonce \in Nat /\ Fits(queue[i].nonce)
    BY <1>0, <1>01, <2>1 DEF Request, NumberedFits
  <2>3. Nonces'
    BY <1>0, <2>1, <2>2, ProposingKeepsNonces
  <2> QED BY <1>0, <2>1, <2>3, HeadDone DEF NonceInv
<1>7. ASSUME NEW i \in DOMAIN queue, ProposalFails(i) PROVE NonceInv'
  <2>1. i = 1 /\ queue' = Without(i) /\ UNCHANGED <<executed, txs>>
    BY <1>7 DEF ProposalFails, Turn, AfterFailure, safe
  <2> QED BY <1>0, <2>1, HeadDone DEF NonceInv, Nonces, NoNonceConflict, Executable
<1>8. CASE Restart
  <2>1. queue' = <<>> /\ UNCHANGED <<executed, txs>>
    BY <1>8, Zenon DEF Restart, safe
  <2>2. DOMAIN queue' = {}
    BY <2>1
  <2> QED BY <1>0, <2>1, <2>2
          DEF NonceInv, Nonces, NoNonceConflict, Executable, OnlyHeadActs, NumberedFits
<1>9. ASSUME NEW p \in Publishers, Drain(p) \/ ScrapeRead(p) PROVE NonceInv'
  BY <1>1, <1>9 DEF Drain, ScrapeRead, client, safe
<1>10. ASSUME NEW s \in Polls, FetchStart(s) \/ FetchApply(s) \/ FetchFails(s) PROVE NonceInv'
  BY <1>1, <1>10 DEF FetchStart, FetchApply, FetchFails, safe
<1>11. CASE ScrapeStart \/ ScrapeFails
  BY <1>1, <1>11, Zenon DEF ScrapeStart, ScrapeFails, client, safe
<1> QED BY <1>2, <1>3, <1>4, <1>5, <1>6, <1>7, <1>8, <1>9, <1>10, <1>11 DEF Next

LEMMA InitNonces == Init => NonceInv
<1> SUFFICES ASSUME Init PROVE NonceInv
  OBVIOUS
<1>1. queue = <<>> /\ txs = {}
  BY Zenon DEF Init
<1>2. DOMAIN queue = {}
  BY <1>1
<1> QED BY <1>1, <1>2, InitType
        DEF NonceInv, Nonces, NoNonceConflict, Executable, OnlyHeadActs, NumberedFits

THEOREM NonceInvariant == Spec => []NonceInv
<1>1. NonceInv /\ UNCHANGED vars => NonceInv'
  BY DEF NonceInv, TypeOK, Nonces, NoNonceConflict, Executable, OnlyHeadActs, NumberedFits, Fits,
         vars, safe, scrape, client
<1> QED BY <1>1, InitNonces, NextKeepsNonces, PTL DEF Spec

\* The proposal queue prevents nonce conflicts, whatever fails or restarts.
THEOREM NoncesAreUnique == Spec => []NoNonceConflict
<1>1. NonceInv => NoNonceConflict
  BY DEF NonceInv, Nonces
<1> QED BY <1>1, NonceInvariant, PTL

\* Every pending top-up stays executable: unused nonce, none missing below it.
THEOREM TopUpsStayExecutable == Spec => []Executable
<1>1. NonceInv => Executable
  BY DEF NonceInv, Nonces
<1> QED BY <1>1, NonceInvariant, PTL

------------------------------------------------------------------------------
(* The duplicate test over time.                                               *)

NotRepeated(p) ==
    /\ Settled(p)' \/ p \notin ToBePaid' \/ (queue' = <<>> /\ cached' = {})
    /\ {t \in txs' : t.to = p} \subseteq txs

\* Requests of p in a changed queue are waiting when those in the old one were.
LEMMA QueueStaysSettled ==
  ASSUME TypeOK, NEW p \in Publishers, Settled(p), UNCHANGED <<txs, cached, fetches>>,
         \A j \in DOMAIN queue' : \/ \E k \in DOMAIN queue : queue'[j] = queue[k]
                                 \/ queue'[j].to # p
                                 \/ queue'[j].step = "waiting"
  PROVE  NotRepeated(p)
BY DEF NotRepeated, Settled, ToBePaid

LEMMA NextNotRepeated ==
  ASSUME TypeOK, Next, NEW p \in Checksummed, Settled(p)
  PROVE  NotRepeated(p)
<1>0. p \in Publishers /\ p \in ToBePaid /\ p \in cached
  BY AddressAssumption DEF Settled
<1>01. /\ DOMAIN queue = 1..Len(queue) /\ queue \in Seq(Request)
       /\ \A i \in DOMAIN queue : queue[i] \in Request
  BY LenProperties, ElementOfSeq DEF TypeOK
<1>02. \A i \in DOMAIN queue : queue[i].to = p => queue[i].step = "waiting"
  BY DEF Settled
<1>1. ASSUME UNCHANGED <<txs, queue, cached, fetches>> PROVE NotRepeated(p)
  BY <1>0, <1>1, QueueStaysSettled
<1>2. ASSUME NEW t \in txs, Execute(t) \/ Reject(t) PROVE NotRepeated(p)
  BY <1>2 DEF Execute, Reject, UseNonce, client, NotRepeated, Settled
<1>3. CASE ScrapeUpdate
  <2>1. queue' = queue \o Proposals /\ UNCHANGED <<txs, cached, fetches>>
    BY <1>3 DEF ScrapeUpdate, safe
  <2>2. \A j \in DOMAIN queue' : \/ \E k \in DOMAIN queue : queue'[j] = queue[k]
                                 \/ queue'[j].step = "waiting"
    BY <2>1, EnqueuedType DEF TypeOK
  <2> QED BY <1>0, <2>1, <2>2, QueueStaysSettled
<1>4. ASSUME NEW i \in DOMAIN queue, Check(i) PROVE NotRepeated(p)
  <2>1. UNCHANGED <<txs, cached, fetches>>
    BY <1>4 DEF Check, safe
  <2>2. CASE queue' = Without(i)
    <3>1. \A j \in DOMAIN queue' : \E k \in DOMAIN queue : queue'[j] = queue[k]
      BY <1>01, <2>2, WithoutType
    <3> QED BY <1>0, <2>1, <3>1, QueueStaysSettled
  <2>3. CASE /\ ~IsBeingProposed(queue[i].to)
             /\ queue' = [queue EXCEPT ![i] = [to |-> queue[i].to, step |-> "checked", nonce |-> 0]]
    <3>1. queue[i].to # p
      BY <1>0, <2>3 DEF IsBeingProposed
    <3>2. DOMAIN queue' = DOMAIN queue /\ queue'[i].to # p
          /\ \A j \in DOMAIN queue : j # i => queue'[j] = queue[j]
      BY <1>01, <2>3, <3>1
    <3> QED BY <1>0, <2>1, <3>2, QueueStaysSettled
  <2> QED BY <1>4, <2>2, <2>3 DEF Check
<1>5. ASSUME NEW i \in DOMAIN queue, ReadNonce(i) PROVE NotRepeated(p)
  <2>1. UNCHANGED <<txs, cached, fetches>> /\ queue[i].to # p
    BY <1>02, <1>5 DEF ReadNonce, safe
  <2>2. PICK n : queue' = [queue EXCEPT ![i] = [to |-> queue[i].to, step |-> "numbered", nonce |-> n]]
    BY <1>5 DEF ReadNonce
  <2>3. DOMAIN queue' = DOMAIN queue /\ queue'[i].to # p
        /\ \A j \in DOMAIN queue : j # i => queue'[j] = queue[j]
    BY <1>01, <2>1, <2>2
  <2> QED BY <1>0, <2>1, <2>3, QueueStaysSettled
<1>6. ASSUME NEW i \in DOMAIN queue, Submit(i) \/ SubmitUnanswered(i) PROVE NotRepeated(p)
  <2>1. /\ queue[i].to # p /\ queue' = Without(i) /\ UNCHANGED <<cached, fetches>>
        /\ txs' = txs \cup {[to |-> queue[i].to, nonce |-> queue[i].nonce]}
    BY <1>02, <1>6 DEF Submit, SubmitUnanswered, Propose, AfterFailure
  <2>2. \A j \in DOMAIN queue' : \E k \in DOMAIN queue : queue'[j] = queue[k]
    BY <1>01, <2>1, WithoutType
  <2>3. {t \in txs' : t.to = p} \subseteq txs
    BY <2>1
  <2>4. p \in ToBePaid'
    BY <1>0, <2>1 DEF ToBePaid
  <2> QED BY <2>1, <2>2, <2>3, <2>4 DEF NotRepeated, Settled
<1>7. ASSUME NEW i \in DOMAIN queue, ProposalFails(i) PROVE NotRepeated(p)
  <2>1. queue' = Without(i) /\ UNCHANGED <<txs, cached, fetches>>
    BY <1>7 DEF ProposalFails, AfterFailure, safe
  <2>2. \A j \in DOMAIN queue' : \E k \in DOMAIN queue : queue'[j] = queue[k]
    BY <1>01, <2>1, WithoutType
  <2> QED BY <1>0, <2>1, <2>2, QueueStaysSettled
<1>8. CASE Restart
  BY <1>8, Zenon DEF Restart, safe, NotRepeated
<1>9. ASSUME NEW q \in Publishers, Drain(q) \/ ScrapeRead(q) PROVE NotRepeated(p)
  BY <1>1, <1>9 DEF Drain, ScrapeRead, client, safe
<1>10. ASSUME NEW s \in Polls, FetchStart(s) \/ FetchApply(s) \/ FetchFails(s)
       PROVE  NotRepeated(p)
  <2>1. UNCHANGED <<txs, queue>>
    BY <1>10 DEF FetchStart, FetchApply, FetchFails, safe
  <2>2. /\ p \in cached'
        /\ \A f \in Polls : fetches'[f] # NoFetch => p \in fetches'[f]
    BY <1>0, <1>10
       DEF FetchStart, FetchApply, FetchFails, AfterFailedFetch, TypeOK, Settled
  <2> QED BY <2>1, <2>2 DEF NotRepeated, Settled, ToBePaid
<1>11. CASE ScrapeStart \/ ScrapeFails
  BY <1>1, <1>11, Zenon DEF ScrapeStart, ScrapeFails, client, safe
<1> QED BY <1>2, <1>3, <1>4, <1>5, <1>6, <1>7, <1>8, <1>9, <1>10, <1>11 DEF Next

\* A pending top-up the process knows of stays known and is not proposed again.
THEOREM KnownTopUpsAreNotRepeated == Spec => KnownIsNotRepeated
<1>1. TypeOK /\ [Next]_vars =>
         [\A p \in Checksummed : Settled(p) =>
            /\ Settled(p)' \/ p \notin ToBePaid' \/ (queue' = <<>> /\ cached' = {})
            /\ {t \in txs' : t.to = p} \subseteq txs]_vars
  BY NextNotRepeated DEF NotRepeated
<1> QED BY <1>1, SafeTypeCorrect, PTL DEF Spec, KnownIsNotRepeated
=============================================================================
