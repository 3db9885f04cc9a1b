----------------------------- MODULE MCKeysReload -----------------------------
(* Two files that may disagree on the coinbase of an attester and share a      *)
(* publisher.                                                                  *)
EXTENDS KeysReload

CONSTANTS f1, f2, a1, a2, u1, u2, cb

Order == <<f1, f2>>

Entry(a, c, us) == [attester |-> a, coinbase |-> c, publishers |-> us]

Stores ==
    {<<Entry(a1, cb, <<u1>>)>>,
     <<Entry(a1, NoCoinbase, <<u1>>), Entry(a2, cb, <<u1, u2>>)>>}
==============================================================================
