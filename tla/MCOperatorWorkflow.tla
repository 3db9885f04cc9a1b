-------------------------- MODULE MCOperatorWorkflow --------------------------
(* Two attesters that share a publisher, two registries and two servers.       *)
EXTENDS OperatorWorkflow

CONSTANTS a1, a2, p1, p2, s1, s2, c1, c2, fallback, o1, o2

MCRegistryOrder == <<"native", "olla">>
MCKeyFile == <<[attester |-> a1, publishers |-> <<p1>>], [attester |-> a2, publishers |-> <<p1>>]>>

MCSplits == (a1 :> {c1, Zero}) @@ (a2 :> {c1, c2})
MCPending == (c1 :> 100) @@ (c2 :> 0)
MCHeld == (c1 :> 0) @@ (c2 :> 3)
MCFirstBlocks == {None, 1, 3}
MCAvailable == {(s1 :> <<p1>>) @@ (s2 :> <<>>), (s1 :> <<p1>>) @@ (s2 :> <<p1>>),
                (s1 :> <<p1>>) @@ (s2 :> <<p2>>)}

Old(a, c) == Validator(a, c, None)
NoFiles == (s1 :> <<>>) @@ (s2 :> <<>>)
OldFiles == (s1 :> <<Old(a1, None)>>) @@ (s2 :> <<Old(a1, None), Old(a2, fallback)>>)
Queues(native, olla) == ("native" :> native) @@ ("olla" :> olla)
Staked == <<[attester |-> a1, coinbase |-> c1]>>

Situation(commands0, providers0, queues0, events0, addresses0, files0) ==
    [commands |-> commands0, urls |-> TRUE, providers |-> providers0, queues |-> queues0,
     events |-> events0, addresses |-> addresses0, files |-> files0]

MCSituations ==
    \* keys are stored, and stored again, unless they are queued already
    {Situation({"process-private-keys"}, {"native"}, Queues(<<>>, <<>>), <<>>, {}, NoFiles),
     [Situation({"process-private-keys"}, {"native"}, Queues(<<>>, <<>>), <<>>, {}, NoFiles)
        EXCEPT !.urls = FALSE],
     Situation({"process-private-keys"}, {"native", "olla"}, Queues(<<>>, <<a2>>), <<>>, {}, NoFiles)}
    \* or added to a registry
    \cup {Situation({"get-add-keys"}, registered, Queues(native, olla), <<>>, {}, NoFiles) :
        registered \in {{"native"}, {"olla"}, {"native", "olla"}},
        native \in {<<>>, <<a1>>}, olla \in {<<>>, <<a2>>}}
    \* or deployed
    \cup {Situation({"new-publisher-keys", "process-private-keys", "prepare-deployment"},
                    {"native"}, Queues(<<>>, <<>>), Staked, {p2}, NoFiles)}
    \* coinbases are collected while attesters are staked
    \cup {Situation({"scrape-coinbases", "agent", "fill-coinbases"}, {"native"},
                    Queues(<<a1>>, <<>>), <<[attester |-> a2, coinbase |-> c1]>>, {}, OldFiles),
          Situation({"scrape-coinbases", "evaluate-claim-rewards"}, {"native"},
                    Queues(<<a2>>, <<>>), Staked, {}, OldFiles)}

\* Operators are alike: they are only compared with each other.
OperatorSymmetry == Permutations({o1, o2})

\* Chunks splits a sequence without loss, whatever its length.
ASSUME \A n \in 0..7 : FlattenSeq(Chunks([i \in 1..n |-> i])) = [i \in 1..n |-> i]
==============================================================================
