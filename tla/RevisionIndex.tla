---------------------------- MODULE RevisionIndex ----------------------------
(***************************************************************************)
(* The projection-index half of the revision store of one project          *)
(* (ledgrrr-revision-io, store/index.rs): accepted revisions, fenced index *)
(* jobs with leases, removable graph artifacts, and per branch the         *)
(* observed model head and the discovery pointer to a published graph.     *)
(*                                                                         *)
(* The operators here are the index part of one SQLite transaction;        *)
(* RevisionStore adds authorization and the operation receipts and is the  *)
(* module with the specification.                                          *)
(***************************************************************************)
EXTENDS Naturals, FiniteSets

CONSTANTS Branches,    \* registered branches of the project
          Revisions,   \* immutable provider revisions
          Candidates,  \* digests of complete canonical bundles
          Workers,     \* names under which index jobs are claimed
          Graphs,      \* digests a projection of a revision may be sealed with
          CandidateParent, \* the parent named in a candidate's own manifest
          None,        \* SQL NULL / Option::None
          MaxAttempts, \* MAX_ATTEMPTS, 32 in the code
          MaxAncestors,\* ancestors is_ancestor follows before it fails, 10000 in the code
          FenceMax     \* largest fence: the INTEGER column ends at 2^63-1; checked_add, u64

ASSUME IndexAssumption ==
  /\ MaxAttempts \in Nat \ {0}
  /\ MaxAncestors \in Nat
  /\ FenceMax \in Nat \ {0}
  /\ None \notin Revisions \union Candidates \union Workers \union Graphs
  /\ CandidateParent \in [Candidates -> Revisions \union {None}]
  /\ IsFiniteSet(Revisions)

VARIABLES accepted,   \* table accepted_revisions
          jobs,       \* table index_jobs, for the one projection schema in use
          artifacts,  \* table graph_artifacts: the (revision, digest) pairs stored
          heads,      \* table branch_index: observed model head of each branch
          pointers    \* table branch_checkpoints: newest published graph of each branch

indexVars == <<accepted, jobs, artifacts, heads, pointers>>

Maybe(S) == S \union {None}

AcceptedRow == [sequence: Nat, candidate: Maybe(Candidates)]
Job == [state: {"absent", "queued", "claimed", "sealed", "published"},
        worker: Maybe(Workers),
        fence: 0..FenceMax,
        live: BOOLEAN,               \* lease_until has not passed
        attempts: 0..MaxAttempts,
        descriptor: Maybe(Graphs)]
Head == [revision: Maybe(Revisions), sequence: Nat, unavailable: BOOLEAN]
Pointer == [revision: Maybe(Revisions), sequence: Nat]

NoRow == [sequence |-> 0, candidate |-> None]
NoJob == [state |-> "absent", worker |-> None, fence |-> 0, live |-> FALSE,
          attempts |-> 0, descriptor |-> None]
QueuedJob == [NoJob EXCEPT !.state = "queued"]
NoHead == [revision |-> None, sequence |-> 0, unavailable |-> FALSE]
NoPointer == [revision |-> None, sequence |-> 0]

IndexTypeOK ==
  /\ accepted \in [Revisions -> AcceptedRow]
  /\ jobs \in [Revisions -> Job]
  /\ artifacts \in SUBSET (Revisions \X Graphs)
  /\ heads \in [Branches -> Head]
  /\ pointers \in [Branches -> Pointer]

IndexInit ==
  /\ accepted = [r \in Revisions |-> NoRow]
  /\ jobs = [r \in Revisions |-> NoJob]
  /\ artifacts = {}
  /\ heads = [b \in Branches |-> NoHead]
  /\ pointers = [b \in Branches |-> NoPointer]

IsAccepted(r) == accepted[r].sequence # 0

\* The rowid SQLite gives the next accepted revision: rows are never deleted.
NextSequence == 1 + Cardinality({r \in Revisions : IsAccepted(r)})

\* verify_graph succeeds on the job's sealed descriptor.
HasGraph(r) == jobs[r].descriptor # None /\ <<r, jobs[r].descriptor>> \in artifacts

IsPublished(r) == jobs[r].state = "published" /\ jobs[r].descriptor # None

(***************************************************************************)
(* is_ancestor walks the accepted parents down from d until it meets a:    *)
(* a is in every set that holds d and the parents of its accepted members. *)
(***************************************************************************)
AcceptedParent(r) == IF IsAccepted(r) THEN CandidateParent[accepted[r].candidate] ELSE None
ClosedUnderParents(S) ==
  \A r \in S : AcceptedParent(r) # None => AcceptedParent(r) \in S
IsAncestor(a, d) ==
  \A S \in SUBSET Revisions : d \in S /\ ClosedUnderParents(S) => a \in S

\* d and its accepted ancestors: a line, as a revision has one parent.
Line(d) == {a \in Revisions : IsAncestor(a, d)}

\* The walk from d meets a, or the end of the line, before it has seen MaxAncestors
\* revisions or one of them twice.  Otherwise it is an error, not an answer.
AncestryKnown(a, d) ==
  IF a \in Line(d)
  THEN Cardinality(Line(d) \ Line(a)) <= MaxAncestors
  ELSE /\ Cardinality(Line(d)) <= MaxAncestors
       /\ \E root \in Line(d) : AcceptedParent(root) = None

(***************************************************************************)
(* enqueue_accepted: part of the transaction that records a commit.  A     *)
(* revision is accepted once, with one candidate; the branch head follows  *)
(* it unless a later accepted revision is already there; one job exists    *)
(* per accepted revision.                                                  *)
(***************************************************************************)
EnqueueAllowedAnyCandidate(r, candidate) == IsPublished(r) => HasGraph(r)

EnqueueAllowed(r, candidate) ==
  /\ IsAccepted(r) => accepted[r].candidate = candidate
  /\ IsPublished(r) => HasGraph(r)

Enqueue(b, r, candidate) ==
  LET row == IF IsAccepted(r) THEN accepted[r]
             ELSE [sequence |-> NextSequence, candidate |-> candidate]
  IN /\ accepted' = [accepted EXCEPT ![r] = row]
     /\ heads' = IF row.sequence >= heads[b].sequence
                 THEN [heads EXCEPT ![b] = [revision |-> r, sequence |-> row.sequence,
                                            unavailable |-> FALSE]]
                 ELSE heads
     /\ jobs' = IF jobs[r].state = "absent" THEN [jobs EXCEPT ![r] = QueuedJob] ELSE jobs
     /\ UNCHANGED <<artifacts, pointers>>

\* check_job: the token is the current fence of a live lease on unfinished work.
JobHeld(r, w, f) ==
  /\ jobs[r].state \in {"claimed", "sealed"}
  /\ jobs[r].fence = f
  /\ jobs[r].worker = w
  /\ jobs[r].live

\* The jobs the claim query selects from: accepted, unpublished, unleased, attempts left.
Claimable(r) ==
  /\ IsAccepted(r)
  /\ jobs[r].state \in {"queued", "claimed", "sealed"}
  /\ jobs[r].state = "queued" \/ ~jobs[r].live
  /\ jobs[r].attempts < MaxAttempts

(***************************************************************************)
(* claim_index: the oldest claimable revision among those wanted (all of   *)
(* them, or the one the caller names) gets a new fence and a lease.  A job *)
(* with a descriptor is resumed as sealed.                                 *)
(***************************************************************************)
ClaimJob(r, w, wanted) ==
  /\ r \in wanted /\ Claimable(r)
  /\ \A q \in wanted : Claimable(q) => accepted[r].sequence <= accepted[q].sequence
  /\ jobs[r].fence < FenceMax
  /\ jobs' = [jobs EXCEPT ![r] =
       [jobs[r] EXCEPT !.state = IF jobs[r].descriptor = None THEN "claimed" ELSE "sealed",
                       !.worker = w, !.fence = jobs[r].fence + 1, !.live = TRUE,
                       !.attempts = jobs[r].attempts + 1]]
  /\ UNCHANGED <<accepted, artifacts, heads, pointers>>

SealJobAnyGraph(r, w, f, g) ==
  /\ JobHeld(r, w, f)
  /\ artifacts' = artifacts \union {<<r, g>>}
  /\ jobs' = [jobs EXCEPT ![r].state = "sealed", ![r].descriptor = g]
  /\ UNCHANGED <<accepted, heads, pointers>>

\* seal_index: stores the graph and its descriptor; a resealed job must reproduce it.
SealJob(r, w, f, g) ==
  /\ JobHeld(r, w, f)
  /\ jobs[r].descriptor \in {None, g}
  /\ artifacts' = artifacts \union {<<r, g>>}
  /\ jobs' = [jobs EXCEPT ![r].state = "sealed", ![r].descriptor = g]
  /\ UNCHANGED <<accepted, heads, pointers>>

\* The branches whose head publish_index compares r with, whatever their pointer is.
Observed == {b \in Branches : heads[b].revision # None /\ ~heads[b].unavailable}

PointerMovesAlways(b, r) ==
  /\ b \in Observed
  /\ IsAncestor(r, heads[b].revision)

\* The branches whose available head descends from r and whose pointer r is newer than.
PointerMoves(b, r) ==
  /\ b \in Observed
  /\ IsAncestor(r, heads[b].revision)
  /\ accepted[r].sequence > pointers[b].sequence

\* publish_index, the index part: job published, pointers of eligible branches advanced.
\* A walk that fails on one branch fails the publication.
PublishJob(r, w, f) ==
  /\ JobHeld(r, w, f)
  /\ jobs[r].state = "sealed"
  /\ HasGraph(r)
  /\ \A b \in Observed : AncestryKnown(r, heads[b].revision)
  /\ jobs' = [jobs EXCEPT ![r].state = "published"]
  /\ pointers' = [b \in Branches |->
                    IF PointerMoves(b, r)
                    THEN [revision |-> r, sequence |-> accepted[r].sequence]
                    ELSE pointers[b]]
  /\ UNCHANGED <<accepted, artifacts, heads>>

\* observe_head: overwrites the branch's head with what the provider showed.
ObserveBranchHead(b, r, unavailable) ==
  /\ heads' = [heads EXCEPT ![b] =
       [revision |-> r,
        sequence |-> IF r = None THEN 0 ELSE accepted[r].sequence,
        unavailable |-> unavailable]]
  /\ UNCHANGED <<accepted, jobs, artifacts, pointers>>

RemoveGraphOnly(r) ==
  /\ jobs[r].descriptor # None
  /\ artifacts' = artifacts \ {<<r, jobs[r].descriptor>>}
  /\ jobs' = [jobs EXCEPT ![r].attempts = 0]
  /\ UNCHANGED <<accepted, heads, pointers>>

RemoveGraphForgetting(r) ==
  /\ jobs[r].descriptor # None
  /\ artifacts' = artifacts \ {<<r, jobs[r].descriptor>>}
  /\ jobs' = [jobs EXCEPT ![r] = [QueuedJob EXCEPT !.fence = jobs[r].fence]]
  /\ UNCHANGED <<accepted, heads, pointers>>

\* remove_projection: drops the graph and requeues the job, whatever state it is in.
RemoveGraph(r) ==
  /\ jobs[r].descriptor # None
  /\ artifacts' = artifacts \ {<<r, jobs[r].descriptor>>}
  /\ jobs' = [jobs EXCEPT ![r].state = "queued", ![r].worker = None,
                          ![r].live = FALSE, ![r].attempts = 0]
  /\ UNCHANGED <<accepted, heads, pointers>>

\* is_projection_removed, as the code decides it.
IsProjectionRemoved(r) == jobs[r].state = "queued" /\ jobs[r].descriptor # None

\* Time passes the lease_until of a claimed or sealed job.
ExpireLease(r) ==
  /\ jobs[r].live
  /\ jobs[r].state \in {"claimed", "sealed"}
  /\ jobs' = [jobs EXCEPT ![r].live = FALSE]
  /\ UNCHANGED <<accepted, artifacts, heads, pointers>>
==============================================================================
