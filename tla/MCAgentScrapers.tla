--------------------------- MODULE MCAgentScrapers ---------------------------
EXTENDS AgentScrapers

\* The attester that no file lists stands for those of other operators.
MCAttesters == {"a", "b", "other"}
MCDirectoryOrder == <<"native", "olla">>
MCPublishers == {"p"}
Key(coinbase) == [coinbase |-> coinbase, publishers |-> {"p"}]
MCContents == {<<>>, "a" :> Key(FALSE), ("a" :> Key(TRUE)) @@ ("b" :> Key(FALSE))}

MCFilesAtStart == {[native |-> c, olla |-> <<>>] : c \in MCContents \ {<<>>}}
MCProviderSets == {{"native"}, {"native", "olla"}}

MCScraperSets == {{"local_keys", "local_status"}, {"local_keys", "publisher_balances"},
                  {"local_keys", "entry_queue_eta"}, {"global_stats"}}

Ledger(queue, entry, validating) ==
    [queue |-> [native |-> queue, olla |-> <<>>], entry |-> entry, flushes |-> TRUE,
     rollup |-> [a \in MCAttesters |-> IF a \in Range(entry) THEN "NoneStaked"
                                       ELSE IF a \in validating THEN "Validating" ELSE "NoneZero"],
     wei |-> [p \in MCPublishers |-> IF validating = {} THEN 0 ELSE 5]]
MCChains == {Ledger(<<"a">>, <<"other", "b">>, {}), Ledger(<<"b">>, <<"other">>, {"a"}),
             [Ledger(<<>>, <<"a">>, {}) EXCEPT !.flushes = FALSE]}
==============================================================================
