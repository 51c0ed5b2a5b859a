---------------------------- MODULE MCRevisionStore ----------------------------
(***************************************************************************)
(* Small instances of RevisionStore.  The provider's history is a root r1  *)
(* with a child r2, and c1, c2 are candidates for a root and for a child   *)
(* of r1.                                                                  *)
(***************************************************************************)
EXTENDS RevisionStoreProperties, TLC

CONSTANTS a1, a2, b1, b2, o1, o2, o3, r1, r2, c1, c2, c3, w1, w2, g1, g2

MCParentOf == [r \in Revisions |-> IF r = r2 THEN r1 ELSE None]
MCCandidateParent == [c \in Candidates |-> IF c = c1 THEN None ELSE r1]
\* In the run about dispatch every candidate is for the empty branch.
MCRoots == [c \in Candidates |-> None]

Proposal(o, b, c) == [operation |-> o, actor |-> a1, branch |-> b, proposal |-> c]

\* Two proposals that compete for one branch.
OneBranch == {Proposal(o1, b1, c1), Proposal(o2, b1, c2)}
\* As well, two of the same content.
OneOrTwoContents == OneBranch \union {Proposal(o2, b1, c1)}
\* Two that compete, and one that does too or is on another branch, where it may bind the
\* same revision.
TwoBranches == {Proposal(o1, b1, c1), Proposal(o2, b1, c2)}
               \union {Proposal(o3, b, c2) : b \in {b1, b2}}

\* In the run about dispatch grants are fixed and no head is observed.
DispatchOnly == grants' = grants /\ (ops' = ops => heads' = heads)
\* In the run about the index no absent head is also unavailable (as observe_index_head calls
\* it), and grants are fixed, a receipt that is sent unprepared is one that is rejected or
\* ambiguous, and o1 creates a root ...
PreparedOnly ==
  /\ grants' = grants
  /\ \A o \in Operations : ops'[o].sendAuthorized =>
       ops'[o].candidate # None \/ ops'[o].status \in Rejections \union {"ambiguous"}
  /\ ops'[o1].candidate \in {None, c1}

\* ... or, when the two proposals have the same content, o1 is a receipt of the older
\* protocol, sent unprepared, o2 prepares a root, and administrators change grants.
OlderToo ==
  /\ \A o \in Operations : ops'[o].status \notin Rejections \union {"ambiguous"}
  /\ ops'[o1].candidate = None
  /\ ops'[o2].sendAuthorized => ops'[o2].candidate # None
  /\ \A o \in Operations : ops'[o].revision # r2

IndexOnly ==
  /\ IF Exists(o2)' /\ ops'[o2].intake.proposal = c1 THEN OlderToo ELSE PreparedOnly
  /\ \A b \in Branches : heads'[b].revision = None => ~heads'[b].unavailable

\* Graph digests are only compared for equality.
GraphSymmetry == Permutations(Graphs)
==============================================================================
