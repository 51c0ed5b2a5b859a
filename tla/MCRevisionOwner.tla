---------------------------- MODULE MCRevisionOwner ----------------------------
(***************************************************************************)
(* Small instances of RevisionOwner.  Revisions r1 and r3 are roots and r2 *)
(* is a child of r1; c1 and c2 are bundles for an empty branch, c3 and c4  *)
(* ones for r1.                                                            *)
(***************************************************************************)
EXTENDS RevisionOwnerProperties, TLC

CONSTANTS a1, b1, o1, o2, r1, r2, r3, c1, c2, c3, c4, w1, g1, t1, t2, v1, v2

MCParentOf == [r \in Revisions |-> IF r = r2 THEN r1 ELSE None]
MCCandidateParent == [c \in Candidates |-> IF c \in {c3, c4} THEN r1 ELSE None]

Proposal(o, c) == [operation |-> o, actor |-> a1, branch |-> b1, proposal |-> c]

\* Two proposals for the empty branch, of one content or of two, or the second for r1, of
\* one content or of another.
Competing == {Proposal(o1, c1)} \union {Proposal(o2, c) : c \in Candidates}
OneProposal == {Proposal(o1, c1)}

\* The poll observes, or has observed, a head, or a worker works on a revision.
Observing == \/ \E v \in Observers : observers[v] # IdleObserver
             \/ \E b \in Branches : heads[b] # NoHead
             \/ \E r \in Revisions : jobs[r] \notin {NoJob, QueuedJob}

\* Beside them one request runs at a time, on a root and its child c4, with one failure; two
\* requests run at once, with two, where nothing is observed.
OneRequestObserved ==
  LET observed == Exists(o2)' /\ ops'[o2].intake.proposal = c4 IN
  /\ Observing' => observed
  /\ observed => /\ Cardinality({t \in Tasks : tasks'[t].pc # "idle"}) <= 1
                 /\ failures' <= 1
                 /\ ~commits'[r3].made

\* Requests are alike.
TaskSymmetry == Permutations(Tasks)
==============================================================================
