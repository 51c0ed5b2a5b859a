------------------------ MODULE RevisionOwnerProperties ------------------------
(***************************************************************************)
(* What the owner promises its clients about the provider, and what it     *)
(* needs to be scheduled to keep the rest of the promise.                  *)
(***************************************************************************)
EXTENDS RevisionOwner

\* The dispatch is single-use (sysml-revision-adapter.md:43): whatever is retried, cut or
\* restarted, at most one create of an operation is ever at the provider, in flight or done.
OneCreatePerOperation ==
  \A o \in Operations :
    Cardinality({q \in requests : q.operation = o})
      + Cardinality({r \in Revisions : commits[r].operation = o}) <= 1

(***************************************************************************)
(* A create that is in flight, or done without the store knowing, has its  *)
(* branch reserved and its authorization on record: no other operation can *)
(* read a head that this one is about to move.                             *)
(***************************************************************************)
AtProvider(o) == (\E q \in requests : q.operation = o)
                 \/ (\E r \in Revisions : commits[r].operation = o /\ ops[o].revision # r)
CreatesSerialized ==
  \A o \in Operations : AtProvider(o) =>
    ops[o].sendAuthorized /\ ops[o].status \in Outstanding /\ active[BranchOf(o)] = o

\* No commit is lost: although the provider takes creates on any parent, every commit the
\* owner made stays in the history of its branch, as long as nobody else writes there.
NothingOrphaned ==
  external = 0 =>
    \A r \in Revisions :
      commits[r].operation # None => InHistory(r, BranchOf(commits[r].operation))

\* A receipt that says conflict or unavailable is true: the operation has no create under
\* way and no commit, so its author may propose the content again under another identity.
RejectedNeverWritten ==
  \A o \in Operations : ops[o].status \in Rejections =>
    /\ \A q \in requests : q.operation # o
    /\ \A r \in Revisions : commits[r].operation # o

(***************************************************************************)
(* The evidence the store trusts is real: an accepted revision exists,     *)
(* holds exactly the prepared candidate on the prepared parent, and was    *)
(* created by this operation unless it was observed as a no-op.  External  *)
(* commits, lost answers and concurrent reconciles do not fool the proof.  *)
(***************************************************************************)
AcceptedIsReal ==
  \A o \in Operations : ops[o].status \in Accepted /\ ops[o].candidate # None =>
    LET r == ops[o].revision IN
    /\ commits[r].candidate = ops[o].candidate
    /\ ParentOf[r] = CandidateParent[ops[o].candidate]
    /\ ~ops[o].observedExisting <=> commits[r].operation = o

\* A head the index may publish for was accepted, and was at the provider, on that branch.
ObservedHeadJustified ==
  \A b \in Branches : heads[b].revision # None /\ ~heads[b].unavailable =>
    LET r == heads[b].revision IN
    /\ IsAccepted(r) /\ commits[r].made
    /\ BranchOf(commits[r].operation) = b

(***************************************************************************)
(* The owner uses the store as the store expects: whatever races it loses, *)
(* each of its steps is one permitted store transaction or none, and what  *)
(* it brings as evidence has the parent the operation was prepared for.    *)
(***************************************************************************)
StoreImplemented == Spec
-----------------------------------------------------------------------------
(***************************************************************************)
(* Running requests are scheduled; the client of an operation asks for     *)
(* reconciliation again and again; the poll and the index loop run every   *)
(* 200 ms (revision-owner.rs:223) and finish unless they fail, which they  *)
(* do at most MaxFailures times.  Nothing is assumed of the provider.      *)
(***************************************************************************)
Reconciles(o) == \E t \in Tasks : StartReconcile(t, o)
Indexes(r) == /\ \E w \in Workers : \/ ClaimIndex(Owner, r, w, Revisions)
                                   \/ \E g \in Graphs : SealIndex(Owner, r, w, jobs[r].fence, g)
                                   \/ PublishIndex(Owner, r, w, jobs[r].fence)
              /\ UNCHANGED <<providerVars, processVars>>

FairOwnerSpec ==
  /\ OwnerSpec
  /\ \A t \in Tasks : WF_ownerVars(Continue(t))
  /\ \A o \in Operations : SF_ownerVars(Reconciles(o))
  /\ \A v \in Observers : WF_ownerVars(Observe(v))
  /\ \A r \in Revisions : SF_ownerVars(Indexes(r))

(***************************************************************************)
(* What was written is eventually acknowledged, although the request that  *)
(* sent it, its answer and its process may be gone: reconciliation finds   *)
(* the commit and the receipt becomes accepted.                            *)
(***************************************************************************)
WrittenIsAccepted ==
  \A o \in Operations :
    (\E r \in Revisions : commits[r].operation = o) ~> ops[o].status \in Accepted

\* A branch is blocked only while a create may still arrive: when none is under way and
\* none was made, the reservation ends or its receipt tells that the outcome is unknown.
BranchFreedOrAmbiguous ==
  \A b \in Branches :
    active[b] # None ~> (active[b] = None \/ ops[active[b]].status = "ambiguous")

(***************************************************************************)
(* book/src/revision-io.md:102: "Publication atomically records the        *)
(* checkpoint, matching Indexed receipts and eligible branch discovery     *)
(* pointers."  So once the graph of a branch's head is published, the      *)
(* branch's pointer names it, or the head has moved on.                    *)
(***************************************************************************)
PublishedHeadIsDiscoverable ==
  \A b \in Branches, r \in Revisions :
    (remote[b] = r /\ IsPublished(r)) ~> (pointers[b].revision = r \/ remote[b] # r)
==============================================================================
