------------------------------ MODULE Selection ------------------------------
(* A sequence without what is not wanted, its order kept: SelectSeq with a set *)
(* instead of a test, written as a recursive function so that it can be        *)
(* reasoned about.                                                             *)
EXTENDS Naturals, Sequences

Kept(seq, wanted) ==
    LET upTo[i \in 0..Len(seq)] ==
            IF i = 0 THEN <<>>
            ELSE IF seq[i] \in wanted THEN Append(upTo[i - 1], seq[i])
            ELSE upTo[i - 1]
    IN  upTo[Len(seq)]
==============================================================================
