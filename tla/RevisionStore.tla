---------------------------- MODULE RevisionStore ----------------------------
(***************************************************************************)
(* The durable revision store of one project (ledgrrr-revision-io).  Every *)
(* method of Store is one IMMEDIATE SQLite transaction, so every action    *)
(* below is one method: authorization, checks and all writes together.  A  *)
(* method that returns an error rolls back and is no step.  Callers are    *)
(* trusted to own a grant, not to call in order: operations, generations,  *)
(* tokens and leases are any that a caller might still hold.               *)
(***************************************************************************)
EXTENDS RevisionIndex

CONSTANTS Actors,        \* authenticated principals
          BootstrapOwner,\* the actor bootstrap_project made administrator
          Operations,    \* operation identifiers
          Intakes,       \* the proposals clients may submit
          ParentOf,      \* the parent the provider recorded for each revision
          GenerationMax  \* largest receipt generation: u64::MAX in the code

ASSUME StoreAssumption ==
  /\ BootstrapOwner \in Actors
  /\ IsFiniteSet(Actors)
  /\ GenerationMax \in Nat
  /\ None \notin Operations \union Intakes
  /\ Intakes \subseteq [operation: Operations, actor: Actors, branch: Branches,
                        proposal: Candidates]
  /\ ParentOf \in [Revisions -> Maybe(Revisions)]

VARIABLES grants,  \* table grants
          ops,     \* table operations: the receipt and dispatch state of each
          fences,  \* branches.fence: the last dispatch fence given out
          active   \* branches.active_operation: who holds the branch

storeVars == <<grants, ops, fences, active>>
vars == <<storeVars, indexVars>>

Permissions == {"read", "propose", "administer"}
Outstanding == {"pending", "ambiguous"}
Rejections == {"conflict", "unavailable"}
Accepted == {"committed", "indexed"}
Status == {"absent"} \union Outstanding \union Rejections \union Accepted

Operation == [status: Status,
              intake: Maybe(Intakes),
              generation: 0..GenerationMax,
              token: 0..FenceMax,             \* dispatch.fence; 0 is no dispatch
              candidate: Maybe(Candidates),   \* prepared.candidate_digest
              sendAuthorized: BOOLEAN,
              observedExisting: BOOLEAN,
              revision: Maybe(Revisions)]     \* actual_revision

NoOperation == [status |-> "absent", intake |-> None, generation |-> 0, token |-> 0,
                candidate |-> None, sendAuthorized |-> FALSE,
                observedExisting |-> FALSE, revision |-> None]

TypeOK ==
  /\ IndexTypeOK
  /\ grants \in [Actors -> SUBSET Permissions]
  /\ ops \in [Operations -> Operation]
  /\ fences \in [Branches -> 0..FenceMax]
  /\ active \in [Branches -> Maybe(Operations)]
  /\ \A o \in Operations : ops[o].status # "absent" => ops[o].intake \in Intakes

\* bootstrap_project and register_branch have run; no proposal has been taken in.
Init ==
  /\ IndexInit
  /\ grants = [a \in Actors |-> IF a = BootstrapOwner THEN Permissions ELSE {}]
  /\ ops = [o \in Operations |-> NoOperation]
  /\ fences = [b \in Branches |-> 0]
  /\ active = [b \in Branches |-> None]

Exists(o) == ops[o].status # "absent"
BranchOf(o) == ops[o].intake.branch
Administers(a) == "administer" \in grants[a]
Administrators == {a \in Actors : Administers(a)}

\* A dispatched operation whose remote outcome is not settled.
Unresolved(o) == ops[o].token # 0 /\ ops[o].status \in Outstanding

\* check_token: the caller's fence is the operation's, and it still holds its branch.
HoldsToken(o, f) ==
  /\ Exists(o) /\ f # 0
  /\ ops[o].token = f
  /\ fences[BranchOf(o)] = f
  /\ active[BranchOf(o)] = o

\* The caller read generation g of the receipt and the counter can advance.
Current(o, g) == ops[o].generation = g /\ g < GenerationMax
-----------------------------------------------------------------------------
\* intake: a new operation identity; an identical retry returns the stored receipt.
Intake(i) ==
  /\ "propose" \in grants[i.actor]
  /\ ~Exists(i.operation)
  /\ ops' = [ops EXCEPT ![i.operation] =
               [NoOperation EXCEPT !.status = "pending", !.intake = i]]
  /\ UNCHANGED <<grants, fences, active, indexVars>>

ReserveIgnoringActive(a, o, g) ==
  /\ Administers(a)
  /\ Current(o, g)
  /\ ops[o].status = "pending" /\ ops[o].token = 0
  /\ LET b == BranchOf(o)
         f == fences[b] + 1
     IN /\ f <= FenceMax
        /\ ops' = [ops EXCEPT ![o] = [@ EXCEPT !.token = f, !.generation = g + 1]]
        /\ fences' = [fences EXCEPT ![b] = f]
        /\ active' = [active EXCEPT ![b] = o]
  /\ UNCHANGED <<grants, indexVars>>

ReserveOverflowing(a, o, g) ==
  /\ Administers(a)
  /\ Current(o, g)
  /\ ops[o].status = "pending" /\ ops[o].token = 0
  /\ LET b == BranchOf(o)
         f == fences[b] + 1
     IN /\ active[b] = None
        /\ \A p \in Operations : Unresolved(p) => BranchOf(p) # b
        /\ ops' = [ops EXCEPT ![o] = [@ EXCEPT !.token = f, !.generation = g + 1]]
        /\ fences' = [fences EXCEPT ![b] = f]
        /\ active' = [active EXCEPT ![b] = o]
  /\ UNCHANGED <<grants, indexVars>>

\* reserve: takes the branch for the operation under the branch's next fence.
Reserve(a, o, g) ==
  /\ Administers(a)
  /\ Current(o, g)
  /\ ops[o].status = "pending" /\ ops[o].token = 0
  /\ LET b == BranchOf(o)
         f == fences[b] + 1
     IN /\ active[b] = None
        /\ \A p \in Operations : Unresolved(p) => BranchOf(p) # b
        /\ f <= FenceMax
        /\ ops' = [ops EXCEPT ![o] = [@ EXCEPT !.token = f, !.generation = g + 1]]
        /\ fences' = [fences EXCEPT ![b] = f]
        /\ active' = [active EXCEPT ![b] = o]
  /\ UNCHANGED <<grants, indexVars>>

\* prepare: persists the immutable candidate, once.
Prepare(a, o, f, g, candidate) ==
  /\ Administers(a)
  /\ HoldsToken(o, f) /\ Current(o, g)
  /\ ops[o].status = "pending"
  /\ ~ops[o].sendAuthorized /\ ops[o].candidate = None
  /\ ops' = [ops EXCEPT ![o] = [@ EXCEPT !.candidate = candidate, !.generation = g + 1]]
  /\ UNCHANGED <<grants, fences, active, indexVars>>

\* authorize_send: the one durable permission to issue the provider request.
\* requirePrepared is FALSE only for start_dispatch, the older adapters' entry.
AuthorizeSend(a, o, f, g, requirePrepared) ==
  /\ Administers(a)
  /\ HoldsToken(o, f) /\ Current(o, g)
  /\ ops[o].status = "pending"
  /\ ~ops[o].sendAuthorized
  /\ requirePrepared => ops[o].candidate # None
  /\ ops' = [ops EXCEPT ![o] = [@ EXCEPT !.sendAuthorized = TRUE, !.generation = g + 1]]
  /\ UNCHANGED <<grants, fences, active, indexVars>>

CancelReservedAfterSend(a, o, f, g, status) ==
  /\ Administers(a)
  /\ HoldsToken(o, f) /\ Current(o, g)
  /\ ops[o].status = "pending"
  /\ ops' = [ops EXCEPT ![o] = [@ EXCEPT !.status = status, !.generation = g + 1]]
  /\ active' = [active EXCEPT ![BranchOf(o)] = None]
  /\ UNCHANGED <<grants, fences, indexVars>>

CancelReservedKeepingBranch(a, o, f, g, status) ==
  /\ Administers(a)
  /\ HoldsToken(o, f) /\ Current(o, g)
  /\ ops[o].status = "pending"
  /\ ~ops[o].sendAuthorized
  /\ ops' = [ops EXCEPT ![o] = [@ EXCEPT !.status = status, !.generation = g + 1]]
  /\ UNCHANGED <<grants, fences, active, indexVars>>

CancelReservedReturningFence(a, o, f, g, status) ==
  /\ Administers(a)
  /\ HoldsToken(o, f) /\ Current(o, g)
  /\ ops[o].status = "pending"
  /\ ~ops[o].sendAuthorized
  /\ ops' = [ops EXCEPT ![o] = [@ EXCEPT !.status = status, !.generation = g + 1]]
  /\ active' = [active EXCEPT ![BranchOf(o)] = None]
  /\ fences' = [fences EXCEPT ![BranchOf(o)] = f - 1]
  /\ UNCHANGED <<grants, indexVars>>

\* cancel_reserved, cancel_with_conflicts: give the branch back before any send.
CancelReserved(a, o, f, g, status) ==
  /\ Administers(a)
  /\ HoldsToken(o, f) /\ Current(o, g)
  /\ ops[o].status = "pending"
  /\ ~ops[o].sendAuthorized
  /\ ops' = [ops EXCEPT ![o] = [@ EXCEPT !.status = status, !.generation = g + 1]]
  /\ active' = [active EXCEPT ![BranchOf(o)] = None]
  /\ UNCHANGED <<grants, fences, indexVars>>

MarkAmbiguousReleasing(a, o, f, g) ==
  /\ Administers(a)
  /\ HoldsToken(o, f) /\ Current(o, g)
  /\ ops[o].status = "pending"
  /\ ops' = [ops EXCEPT ![o] = [@ EXCEPT !.status = "ambiguous", !.generation = g + 1]]
  /\ active' = [active EXCEPT ![BranchOf(o)] = None]
  /\ UNCHANGED <<grants, fences, indexVars>>

\* mark_ambiguous: the outcome is unknown; the branch stays reserved.
MarkAmbiguous(a, o, f, g) ==
  /\ Administers(a)
  /\ HoldsToken(o, f) /\ Current(o, g)
  /\ ops[o].status = "pending"
  /\ ops' = [ops EXCEPT ![o] = [@ EXCEPT !.status = "ambiguous", !.generation = g + 1]]
  /\ UNCHANGED <<grants, fences, active, indexVars>>

(***************************************************************************)
(* record_commit (observed = FALSE) and record_observed (observed = TRUE): *)
(* accept provider evidence that the outcome is revision r.  With a        *)
(* prepared candidate the same transaction enqueues the revision for       *)
(* indexing, and the receipt is born Indexed when its graph is already     *)
(* published.  That r really is the outcome is the caller's evidence.      *)
(***************************************************************************)
RecordCommit(a, o, f, g, r, observed) ==
  LET op == ops[o]
      seen == op.observedExisting \/ observed
      prepared == op.candidate # None
      status == IF prepared /\ IsPublished(r) THEN "indexed" ELSE "committed"
  IN /\ Administers(a)
     /\ HoldsToken(o, f) /\ Current(o, g)
     /\ op.status \in Outstanding
     /\ observed => ~op.sendAuthorized /\ prepared
     /\ op.sendAuthorized \/ seen
     /\ prepared => EnqueueAllowed(r, op.candidate)
     /\ ops' = [ops EXCEPT ![o] = [@ EXCEPT !.status = status, !.revision = r,
                                            !.observedExisting = seen, !.generation = g + 1]]
     /\ active' = [active EXCEPT ![BranchOf(o)] = None]
     /\ IF prepared THEN Enqueue(BranchOf(o), r, op.candidate)
                    ELSE UNCHANGED indexVars
     /\ UNCHANGED <<grants, fences>>

\* reject_before_dispatch: settles an operation that never reserved its branch.
RejectBeforeDispatch(a, o, g, status) ==
  /\ Administers(a)
  /\ Current(o, g)
  /\ ops[o].status = "pending" /\ ops[o].token = 0
  /\ ops' = [ops EXCEPT ![o] = [@ EXCEPT !.status = status, !.generation = g + 1]]
  /\ UNCHANGED <<grants, fences, active, indexVars>>

\* IndexPublisher::record_index: attach a published graph to one receipt.
RecordIndex(a, o, g) ==
  /\ Administers(a)
  /\ Current(o, g)
  /\ ops[o].status = "committed"
  /\ IsPublished(ops[o].revision) /\ HasGraph(ops[o].revision)
  /\ ops' = [ops EXCEPT ![o] = [@ EXCEPT !.status = "indexed", !.generation = g + 1]]
  /\ UNCHANGED <<grants, fences, active, indexVars>>
-----------------------------------------------------------------------------
ClaimIndex(a, r, w, wanted) ==
  /\ Administers(a)
  /\ ClaimJob(r, w, wanted)
  /\ UNCHANGED storeVars

SealIndex(a, r, w, f, graph) ==
  /\ Administers(a)
  /\ SealJob(r, w, f, graph)
  /\ UNCHANGED storeVars

\* The receipts publish_index turns to Indexed in its transaction.
AwaitingGraph(r) == {o \in Operations : ops[o].status = "committed" /\ ops[o].revision = r}

PublishIndexSameGeneration(a, r, w, f) ==
  /\ Administers(a)
  /\ PublishJob(r, w, f)
  /\ \A o \in AwaitingGraph(r) : ops[o].candidate = accepted[r].candidate
  /\ ops' = [o \in Operations |-> IF o \in AwaitingGraph(r)
                                 THEN [ops[o] EXCEPT !.status = "indexed"] ELSE ops[o]]
  /\ UNCHANGED <<grants, fences, active>>

PublishIndexJobOnly(a, r, w, f) ==
  /\ Administers(a)
  /\ PublishJob(r, w, f)
  /\ UNCHANGED storeVars

(***************************************************************************)
(* publish_index: publishes the job, moves the eligible pointers and turns *)
(* every committed receipt of the revision to Indexed.  One receipt whose  *)
(* candidate is not the accepted one fails the whole transaction.          *)
(***************************************************************************)
PublishIndex(a, r, w, f) ==
  /\ Administers(a)
  /\ PublishJob(r, w, f)
  /\ \A o \in AwaitingGraph(r) : /\ ops[o].candidate = accepted[r].candidate
                                 /\ ops[o].generation < GenerationMax
  /\ ops' = [o \in Operations |->
               IF o \in AwaitingGraph(r)
               THEN [ops[o] EXCEPT !.status = "indexed", !.generation = @ + 1]
               ELSE ops[o]]
  /\ UNCHANGED <<grants, fences, active>>

ObserveHead(a, b, r, unavailable) ==
  /\ Administers(a)
  /\ ObserveBranchHead(b, r, unavailable)
  /\ UNCHANGED storeVars

RemoveProjection(a, r) ==
  /\ Administers(a)
  /\ RemoveGraph(r)
  /\ UNCHANGED storeVars

LeaseExpires(r) == ExpireLease(r) /\ UNCHANGED storeVars

SetGrantUnchecked(a, target, permissions) ==
  /\ Administers(a)
  /\ grants' = [grants EXCEPT ![target] = permissions]
  /\ UNCHANGED <<ops, fences, active, indexVars>>

\* set_grant: replaces an actor's grants, but not the last administrator's right.
SetGrant(a, target, permissions) ==
  /\ Administers(a)
  /\ Administers(target) /\ "administer" \notin permissions
       => Cardinality(Administrators) > 1
  /\ grants' = [grants EXCEPT ![target] = permissions]
  /\ UNCHANGED <<ops, fences, active, indexVars>>
-----------------------------------------------------------------------------
(***************************************************************************)
(* A call that names another generation, fence or worker than the stored   *)
(* one fails with Stale and changes nothing, so Next offers the stored     *)
(* ones only; RevisionOwner has the callers, with what they read earlier.  *)
(***************************************************************************)
\* The evidence a trusted caller has for o: a revision on the parent o was prepared for, as
\* verify_result and the search of reconcile (promotion.rs:480) compare it.
\* RevisionOwner is the caller, and is shown to bring no other.
Evidence(o) ==
  {r \in Revisions : ops[o].candidate # None
                       => ParentOf[r] = CandidateParent[ops[o].candidate]}

\* Steps of the dispatch protocol on one operation.
DispatchStep(a, o) ==
  \E g \in {ops[o].generation}, f \in {ops[o].token} :
    \/ Reserve(a, o, g)
    \/ \E status \in Rejections : \/ RejectBeforeDispatch(a, o, g, status)
                                \/ CancelReserved(a, o, f, g, status)
    \/ \E c \in Candidates : Prepare(a, o, f, g, c)
    \/ \E requirePrepared \in BOOLEAN : AuthorizeSend(a, o, f, g, requirePrepared)
    \/ MarkAmbiguous(a, o, f, g)
    \/ \E r \in Evidence(o), observed \in BOOLEAN : RecordCommit(a, o, f, g, r, observed)
    \/ RecordIndex(a, o, g)

\* Steps of the index on one revision.
IndexStep(a, r) ==
  \/ \E w \in Workers, wanted \in {Revisions, {r}} : ClaimIndex(a, r, w, wanted)
  \/ \E w \in Workers, f \in {jobs[r].fence} :
       \/ \E graph \in Graphs : SealIndex(a, r, w, f, graph)
       \/ PublishIndex(a, r, w, f)
  \/ RemoveProjection(a, r)

Next ==
  \/ \E i \in Intakes : Intake(i)
  \/ \E a \in Actors :
       \/ \E o \in Operations : DispatchStep(a, o)
       \/ \E r \in Revisions : IndexStep(a, r)
       \/ \E b \in Branches, r \in Maybe(Revisions), u \in BOOLEAN : ObserveHead(a, b, r, u)
       \/ \E t \in Actors, permissions \in SUBSET Permissions : SetGrant(a, t, permissions)
  \/ \E r \in Revisions : LeaseExpires(r)

Spec == Init /\ [][Next]_vars
==============================================================================
