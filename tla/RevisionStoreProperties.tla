------------------------ MODULE RevisionStoreProperties ------------------------
(***************************************************************************)
(* What the revision store must keep true whatever calls arrive, and that  *)
(* it implements BranchDispatch.                                           *)
(***************************************************************************)
EXTENDS RevisionStore

Phase(o) ==
  CASE ops[o].status \in Accepted -> "settled"
    [] ops[o].status \in Rejections -> "released"
    [] Unresolved(o) /\ ops[o].sendAuthorized -> "sent"
    [] Unresolved(o) /\ ~ops[o].sendAuthorized -> "holding"
    [] OTHER -> "idle"

Dispatch == INSTANCE BranchDispatch
              WITH phase <- [o \in Operations |-> Phase(o)], writer <- active

(***************************************************************************)
(* The store implements the dispatch promise: one writer per branch, one   *)
(* send permission per operation, and no release after a send (the         *)
(* comments at store.rs:830, 961 and 1174).                                *)
(***************************************************************************)
DispatchRefined == Dispatch!DispatchSpec
-----------------------------------------------------------------------------
(***************************************************************************)
(* Every record the store holds passes load_operation and validate_state.  *)
(* Were one to fail, every reserve, recovery page and publish_index of the *)
(* project that loads it would fail with Corrupt from then on.             *)
(***************************************************************************)
Readable ==
  \A o \in Operations : Exists(o) =>
    /\ ops[o].token <= fences[BranchOf(o)]
    /\ Unresolved(o) => /\ ops[o].token = fences[BranchOf(o)]
                        /\ active[BranchOf(o)] = o
    /\ ops[o].status = "ambiguous" => ops[o].token # 0
    /\ ops[o].status \in Accepted => ops[o].token # 0
    /\ ops[o].status \in Accepted <=> ops[o].revision # None

\* A branch is only ever blocked by an operation that is still outstanding on it, and
\* that is the operation holding its newest fence: reserve can always succeed otherwise.
ReservationBacked ==
  \A b \in Branches : active[b] # None =>
    /\ Unresolved(active[b])
    /\ BranchOf(active[b]) = b

\* Two operations of a branch never hold the same fence, so a token identifies one dispatch.
TokensUnique ==
  \A o, p \in Operations :
    ops[o].token # 0 /\ ops[o].token = ops[p].token /\ BranchOf(o) = BranchOf(p) => o = p

\* A commit was either sent under an authorization or observed, and never both: an operation
\* bound to a revision somebody else created has no request of its own at the provider.
CommitJustified ==
  \A o \in Operations :
    /\ ops[o].status \in Accepted => (ops[o].sendAuthorized <=> ~ops[o].observedExisting)
    /\ ops[o].observedExisting => ops[o].status \in Accepted
    /\ ops[o].status \in Rejections => ~ops[o].sendAuthorized
    /\ ops[o].sendAuthorized => ops[o].token # 0

(***************************************************************************)
(* All receipts of one accepted revision agree on its content: two         *)
(* operations (a create and a later no-op, say) never accept one revision  *)
(* as two different bundles.                                               *)
(***************************************************************************)
OneCandidatePerRevision ==
  \A o \in Operations : ops[o].revision # None /\ ops[o].candidate # None =>
    /\ IsAccepted(ops[o].revision)
    /\ accepted[ops[o].revision].candidate = ops[o].candidate

\* A published graph is stored: a late worker, a rebuild or a removal in between never
\* leaves a job published whose artifact is gone (verify_graph would answer Corrupt).
PublishedHasGraph == \A r \in Revisions : jobs[r].state = "published" => HasGraph(r)

\* publish_index leaves no receipt behind: once the graph of r is published every receipt
\* of r that has a prepared candidate is Indexed, those recorded before it and after it.
PublicationReachesReceipts ==
  \A o \in Operations :
    /\ ops[o].revision # None /\ ops[o].candidate # None /\ IsPublished(ops[o].revision)
         => ops[o].status = "indexed"
    /\ ops[o].status = "indexed" => jobs[ops[o].revision].descriptor # None

\* A discovery pointer names an accepted revision with a sealed descriptor, at the sequence
\* recorded for it, so that its newest-first comparison is meaningful.
PointersResolve ==
  \A b \in Branches : pointers[b].revision # None =>
    /\ accepted[pointers[b].revision].sequence = pointers[b].sequence
    /\ pointers[b].sequence # 0
    /\ jobs[pointers[b].revision].descriptor # None

\* The project always has an administrator, whatever administrators do to each other.
AdministratorRemains == Administrators # {}
-----------------------------------------------------------------------------
\* Historical completion never rewinds a branch's discovery pointer, and a pointer never
\* disappears: rebuilds, removals and head observations leave it at least as new.
PointersNeverRewind ==
  [][\A b \in Branches :
       /\ pointers'[b].sequence >= pointers[b].sequence
       /\ pointers'[b] # pointers[b] => pointers'[b].sequence > pointers[b].sequence]_vars

\* What a caller read at a generation is what is stored as long as the generation is that:
\* every change of a receipt raises it by one, those that publish_index makes to receipts of
\* other callers included.  Otherwise the comparison in each method would let a stale
\* reading pass (Current).
GenerationsTell ==
  [][\A o \in Operations :
       Exists(o) /\ ops'[o] # ops[o] => ops'[o].generation = ops[o].generation + 1]_vars

\* What was settled stays settled, whatever stale calls arrive: a rejection and an Indexed
\* receipt are final, and a committed operation keeps its revision.
SettledIsFinal ==
  [][\A o \in Operations :
       /\ ops[o].status \in Rejections \union {"indexed"} => ops'[o] = ops[o]
       /\ ops[o].status = "committed" => /\ ops'[o].revision = ops[o].revision
                                        /\ ops'[o].status \in Accepted]_vars

\* The graph a revision was first sealed with is its graph for good: after a lost lease or
\* a removal a rebuild reproduces it, so checkpoints handed out earlier stay true.
GraphsImmutable ==
  [][\A r \in Revisions : jobs[r].descriptor # None
                             => jobs'[r].descriptor = jobs[r].descriptor]_vars

(***************************************************************************)
(* The doc comment of is_projection_removed (index.rs:415): it "returns    *)
(* true when a projection was published and then explicitly removed",      *)
(* distinct from one "that was sealed but never published".                *)
(***************************************************************************)
RemovedMeansWasPublished ==
  [][\A r \in Revisions : ~IsProjectionRemoved(r) /\ IsProjectionRemoved(r)'
                            => IsPublished(r)]_vars
==============================================================================
