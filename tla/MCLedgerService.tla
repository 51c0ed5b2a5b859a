---------------------------- MODULE MCLedgerService ----------------------------
(***************************************************************************)
(* Small instances of LedgerService: two transactions, a confident label,  *)
(* one of the same category that asks for review, and a rule that labels   *)
(* the two differently and flags the second.                               *)
(***************************************************************************)
EXTENDS LedgerServiceProperties, TLC

CONSTANTS x1, x2, q1, q2, f1, f2, f3, food, rent, high, low

Sure == [category |-> food, confidence |-> high]
Doubtful == [category |-> food, confidence |-> low]
Other == [category |-> rent, confidence |-> high]

MCLabels == {Sure, Doubtful, Other}
MCLowLabels == {Doubtful}
MCRules == {[label |-> [x \in Txs |-> IF x = x1 THEN Sure ELSE Other], flagged |-> {x2}]}

\* A bulk mapping needs an ingest and a label before it; overlapping requests are two.
MCMaxCalls == [stdio |-> 3, http |-> 2]

\* Request threads are alike, and so are inodes.
ServiceSymmetry == Permutations(Requests) \union Permutations(Files)
==============================================================================
