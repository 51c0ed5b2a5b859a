--------------------------- MODULE RevisionIndexProofs ---------------------------
(***************************************************************************)
(* Proofs about the index of the revision store: which graph a revision,   *)
(* a receipt and a discovery pointer may name, for any revisions, workers, *)
(* graphs and bounds; that what is settled stays settled; and that the     *)
(* project keeps an administrator.                                         *)
(***************************************************************************)
EXTENDS RevisionStoreProofs

USE DEF Maybe

\* A job that does not exist has no graph.
NoJobNoGraph == \A r \in Revisions : jobs[r].state = "absent" => jobs[r].descriptor = None

(***************************************************************************)
(* The invariant behind the index.  PublicationReachesReceipts and         *)
(* PointersResolve survive the creation of a job because a revision that   *)
(* has none has no graph either.                                           *)
(***************************************************************************)
IndexInv ==
  /\ NoJobNoGraph
  /\ OneCandidatePerRevision
  /\ PublishedHasGraph
  /\ PublicationReachesReceipts
  /\ PointersResolve

LEMMA InitIndex == Init => IndexInv
<1> SUFFICES ASSUME Init PROVE IndexInv
  OBVIOUS
<1>1. /\ \A r \in Revisions : jobs[r].state = "absent" /\ jobs[r].descriptor = None
      /\ \A o \in Operations : ops[o].revision = None /\ ops[o].status = "absent"
      /\ \A b \in Branches : pointers[b].revision = None
  BY DEF Init, IndexInit, NoJob, NoOperation, NoPointer
<1> QED BY <1>1 DEF IndexInv, NoJobNoGraph, OneCandidatePerRevision, PublishedHasGraph,
        PublicationReachesReceipts, PointersResolve, IsPublished
-----------------------------------------------------------------------------
\* The types the proofs below use, of one row of each table.
LEMMA RowTypes ==
  ASSUME TypeOK
  PROVE  /\ \A r \in Revisions : /\ jobs[r] \in Job
                                 /\ jobs[r].descriptor \in Maybe(Graphs)
                                 /\ accepted[r].sequence \in Nat
         /\ \A o \in Operations : /\ ops[o] \in Operation
                                  /\ ops[o].revision \in Maybe(Revisions)
                                  /\ ops[o].candidate \in Maybe(Candidates)
         /\ \A b \in Branches : /\ pointers[b].revision \in Maybe(Revisions)
                                /\ pointers[b].sequence \in Nat
BY DEF TypeOK, IndexTypeOK, Job, AcceptedRow, Operation, Pointer

\* An accepted receipt names a revision, and no other receipt does.
LEMMA AcceptedHasRevision ==
  ASSUME DispatchInv, NEW o \in Operations
  PROVE  ops[o].status \in Accepted <=> ops[o].revision \in Revisions
<1>1. ops[o].status \in Accepted <=> ops[o].revision # None
  BY DEF DispatchInv, Readable, Untouched, Exists, Accepted
<1> QED BY <1>1, RowTypes, IndexAssumption DEF DispatchInv

\* What a step that leaves the index alone may do to a receipt: bind it to a revision only
\* without a candidate, and call it indexed only with a graph.
Unbound(o) ==
  /\ ops'[o].revision # None /\ ops'[o].candidate # None =>
       /\ ops'[o].revision = ops[o].revision
       /\ ops'[o].candidate = ops[o].candidate
       /\ ops[o].status = "indexed" => ops'[o].status = "indexed"
  /\ ops'[o].status = "indexed" =>
       \/ ops[o].status = "indexed" /\ ops'[o].revision = ops[o].revision
       \/ jobs[ops'[o].revision].descriptor # None

LEMMA UnboundKeepsIndex ==
  ASSUME IndexInv, UNCHANGED <<accepted, jobs, artifacts, pointers>>,
         \A o \in Operations : Unbound(o)
  PROVE  IndexInv'
<1>1. NoJobNoGraph' /\ PublishedHasGraph' /\ PointersResolve'
  BY DEF IndexInv, NoJobNoGraph, PublishedHasGraph, PointersResolve, HasGraph
<1>2. OneCandidatePerRevision'
  BY DEF IndexInv, OneCandidatePerRevision, Unbound, IsAccepted
<1>3. PublicationReachesReceipts'
  BY DEF IndexInv, PublicationReachesReceipts, Unbound, IsPublished
<1> QED BY <1>1, <1>2, <1>3 DEF IndexInv

(***************************************************************************)
(* A step on the job of one revision that leaves it unpublished: a claim,  *)
(* a seal, a removal, or a lease that runs out.                            *)
(***************************************************************************)
JobMoves(r) ==
  /\ UNCHANGED <<accepted, pointers, ops>>
  /\ \A q \in Revisions : q # r => /\ jobs'[q] = jobs[q]
                                   /\ \A g \in Graphs : <<q, g>> \in artifacts'
                                                          <=> <<q, g>> \in artifacts
  /\ jobs'[r].state \notin {"absent", "published"}
  /\ jobs[r].descriptor # None => jobs'[r].descriptor # None

LEMMA JobMoveKeepsIndex ==
  ASSUME DispatchInv, IndexInv, NEW r \in Revisions, JobMoves(r)
  PROVE  IndexInv'
<1>1. NoJobNoGraph'
  BY DEF IndexInv, NoJobNoGraph, JobMoves
<1>2. OneCandidatePerRevision'
  BY DEF IndexInv, OneCandidatePerRevision, JobMoves, IsAccepted
<1>3. PublishedHasGraph'
  <2> SUFFICES ASSUME NEW q \in Revisions, jobs'[q].state = "published" PROVE HasGraph(q)'
    BY DEF PublishedHasGraph
  <2>1. q # r /\ jobs'[q] = jobs[q] /\ jobs[q].descriptor \in Maybe(Graphs)
    BY RowTypes DEF JobMoves, DispatchInv
  <2>2. HasGraph(q)
    BY <2>1 DEF IndexInv, PublishedHasGraph
  <2> QED BY <2>1, <2>2 DEF JobMoves, HasGraph
<1>4. PublicationReachesReceipts'
  <2>1. ASSUME NEW o \in Operations, ops[o].revision \in Revisions
        PROVE  /\ IsPublished(ops[o].revision)' => IsPublished(ops[o].revision)
               /\ jobs[ops[o].revision].descriptor # None
                    => jobs'[ops[o].revision].descriptor # None
    BY <2>1 DEF JobMoves, IsPublished
  <2>2. ASSUME NEW o \in Operations, ops[o].revision # None PROVE ops[o].revision \in Revisions
    BY <2>2, RowTypes DEF DispatchInv
  <2>3. ASSUME NEW o \in Operations, ops[o].status = "indexed" PROVE ops[o].revision \in Revisions
    BY <2>3, AcceptedHasRevision DEF Accepted
  <2> QED BY <2>1, <2>2, <2>3 DEF IndexInv, PublicationReachesReceipts, JobMoves
<1>5. PointersResolve'
  <2>1. \A b \in Branches : pointers[b].revision # None => pointers[b].revision \in Revisions
    BY RowTypes DEF DispatchInv
  <2> QED BY <2>1 DEF IndexInv, PointersResolve, JobMoves
<1> QED BY <1>1, <1>2, <1>3, <1>4, <1>5 DEF IndexInv

\* Publication: a job goes from sealed to published and takes its receipts along.
LEMMA PublishKeepsIndex ==
  ASSUME DispatchInv, IndexInv, NEW a \in Actors, NEW r \in Revisions, NEW w, NEW f,
         PublishIndex(a, r, w, f)
  PROVE  IndexInv'
<1>1. /\ jobs[r].state = "sealed" /\ HasGraph(r)
      /\ jobs' = [jobs EXCEPT ![r].state = "published"]
      /\ pointers' = [b \in Branches |->
                        IF PointerMoves(b, r)
                        THEN [revision |-> r, sequence |-> accepted[r].sequence]
                        ELSE pointers[b]]
      /\ UNCHANGED <<accepted, artifacts>>
      /\ ops' = [o \in Operations |->
                   IF o \in AwaitingGraph(r)
                   THEN [ops[o] EXCEPT !.status = "indexed", !.generation = @ + 1]
                   ELSE ops[o]]
  BY DEF PublishIndex, PublishJob
<1>2. \A q \in Revisions : /\ jobs'[q].descriptor = jobs[q].descriptor
                         /\ jobs'[q].state = IF q = r THEN "published" ELSE jobs[q].state
  BY <1>1, RowTypes DEF DispatchInv, TypeOK, IndexTypeOK, Job
<1>3. \A o \in Operations :
        /\ ops'[o].revision = ops[o].revision
        /\ ops'[o].candidate = ops[o].candidate
        /\ ops'[o].status = IF o \in AwaitingGraph(r) THEN "indexed" ELSE ops[o].status
  <2> SUFFICES ASSUME NEW o \in Operations
               PROVE  /\ ops'[o].revision = ops[o].revision
                      /\ ops'[o].candidate = ops[o].candidate
                      /\ ops'[o].status = IF o \in AwaitingGraph(r) THEN "indexed"
                                                                    ELSE ops[o].status
    OBVIOUS
  <2>1. ops[o] \in Operation
    BY DEF DispatchInv, TypeOK
  <2> QED BY <1>1, <2>1 DEF Operation
<1>4. NoJobNoGraph'
  BY <1>2 DEF IndexInv, NoJobNoGraph
<1>5. OneCandidatePerRevision'
  BY <1>1, <1>3 DEF IndexInv, OneCandidatePerRevision, IsAccepted
<1>6. PublishedHasGraph'
  <2> SUFFICES ASSUME NEW q \in Revisions, jobs'[q].state = "published" PROVE HasGraph(q)'
    BY DEF PublishedHasGraph
  <2>1. HasGraph(q)
    BY <1>1, <1>2 DEF IndexInv, PublishedHasGraph
  <2>2. artifacts' = artifacts /\ jobs'[q].descriptor = jobs[q].descriptor
    BY <1>1, <1>2
  <2> QED BY <2>1, <2>2 DEF HasGraph
<1>7. PublicationReachesReceipts'
  <2> SUFFICES ASSUME NEW o \in Operations
               PROVE  /\ (/\ ops[o].revision # None /\ ops[o].candidate # None
                          /\ IsPublished(ops[o].revision)') => ops'[o].status = "indexed"
                      /\ ops'[o].status = "indexed" => jobs'[ops[o].revision].descriptor # None
    BY <1>3 DEF PublicationReachesReceipts, IsPublished
  <2>1. CASE o \in AwaitingGraph(r)
    BY <1>1, <1>2, <1>3, <2>1 DEF AwaitingGraph, HasGraph
  <2>2. CASE o \notin AwaitingGraph(r)
    <3>1. ops'[o].status = ops[o].status
      BY <1>3, <2>2
    <3>2. CASE ops[o].revision = r
      <4>1. ops[o].status \in Accepted /\ ops[o].status # "committed"
        BY <2>2, <3>2, AcceptedHasRevision DEF AwaitingGraph
      <4>2. ops[o].status = "indexed"
        BY <4>1 DEF Accepted
      <4> QED BY <1>1, <1>2, <3>1, <3>2, <4>2 DEF HasGraph
    <3>3. CASE ops[o].revision # r
      <4>1. ops[o].revision # None => ops[o].revision \in Revisions
        BY RowTypes DEF DispatchInv
      <4>2. ops[o].revision # None => (IsPublished(ops[o].revision)' => IsPublished(ops[o].revision))
        BY <1>2, <1>3, <3>3, <4>1 DEF IsPublished
      <4>3. ops[o].status = "indexed" => ops[o].revision \in Revisions
        BY AcceptedHasRevision DEF Accepted
      <4> QED BY <1>2, <3>1, <4>2, <4>3 DEF IndexInv, PublicationReachesReceipts
    <3> QED BY <3>2, <3>3
  <2> QED BY <2>1, <2>2
<1>8. PointersResolve'
  <2> SUFFICES ASSUME NEW b \in Branches, pointers'[b].revision # None
               PROVE  /\ accepted[pointers'[b].revision].sequence = pointers'[b].sequence
                      /\ pointers'[b].sequence # 0
                      /\ jobs'[pointers'[b].revision].descriptor # None
    BY <1>1 DEF PointersResolve
  <2>0. /\ accepted[r].sequence \in Nat /\ pointers[b].sequence \in Nat
        /\ pointers[b].revision \in Maybe(Revisions)
    BY RowTypes DEF DispatchInv
  <2>1. CASE PointerMoves(b, r)
    <3>1. pointers'[b] = [revision |-> r, sequence |-> accepted[r].sequence]
      BY <1>1, <2>1
    <3>2. accepted[r].sequence > pointers[b].sequence
      BY <2>1 DEF PointerMoves
    <3>3. accepted[r].sequence # 0
      BY <2>0, <3>2
    <3>4. jobs'[r].descriptor # None
      BY <1>1, <1>2 DEF HasGraph
    <3> QED BY <3>1, <3>3, <3>4
  <2>2. CASE ~PointerMoves(b, r)
    <3>1. pointers'[b] = pointers[b]
      BY <1>1, <2>2
    <3> QED BY <1>2, <2>0, <3>1 DEF IndexInv, PointersResolve
  <2> QED BY <2>1, <2>2
<1> QED BY <1>4, <1>5, <1>6, <1>7, <1>8 DEF IndexInv

(***************************************************************************)
(* A commit with a prepared candidate: the revision is accepted with that  *)
(* candidate, or was before with the same, and gets a job if it has none.  *)
(***************************************************************************)
LEMMA AcceptKeepsIndex ==
  ASSUME DispatchInv, IndexInv, NEW a \in Actors, NEW o \in Operations, NEW f, NEW g,
         NEW r \in Revisions, NEW observed \in BOOLEAN,
         RecordCommit(a, o, f, g, r, observed), ops[o].candidate # None
  PROVE  IndexInv'
<1> DEFINE c == ops[o].candidate
           row == IF IsAccepted(r) THEN accepted[r]
                  ELSE [sequence |-> NextSequence, candidate |-> c]
           status == IF IsPublished(r) THEN "indexed" ELSE "committed"
<1>1. /\ IsAccepted(r) => accepted[r].candidate = c
      /\ accepted' = [accepted EXCEPT ![r] = row]
      /\ jobs' = IF jobs[r].state = "absent" THEN [jobs EXCEPT ![r] = QueuedJob] ELSE jobs
      /\ UNCHANGED <<artifacts, pointers>>
  BY DEF RecordCommit, EnqueueAllowed, Enqueue
<1>2. /\ \A p \in Operations : p # o => ops'[p] = ops[p]
      /\ ops'[o].revision = r /\ ops'[o].candidate = c /\ ops'[o].status = status
  <2>1. ops[o] \in Operation
    BY DEF DispatchInv, TypeOK
  <2> QED BY <2>1 DEF RecordCommit, DispatchInv, TypeOK, Operation
<1>3. accepted'[r] = row /\ \A q \in Revisions : q # r => accepted'[q] = accepted[q]
  BY <1>1 DEF DispatchInv, TypeOK, IndexTypeOK
<1>4. row.sequence # 0 /\ row.candidate = c
  BY <1>1, NextSequenceType DEF IsAccepted
<1> HIDE DEF row, status
<1>5. \A q \in Revisions :
        \/ jobs'[q] = jobs[q]
        \/ /\ jobs[q].descriptor = None
           /\ jobs'[q].state = "queued" /\ jobs'[q].descriptor = None
  BY <1>1 DEF IndexInv, NoJobNoGraph, DispatchInv, TypeOK, IndexTypeOK, QueuedJob, NoJob
<1>6. \A q \in Revisions : jobs'[q].descriptor = jobs[q].descriptor
  BY <1>5
<1>7. \A p \in Operations : ops[p].revision # None => ops[p].revision \in Revisions
  BY RowTypes DEF DispatchInv
<1>8. NoJobNoGraph'
  BY <1>5 DEF IndexInv, NoJobNoGraph
<1>9. OneCandidatePerRevision'
  <2> SUFFICES ASSUME NEW p \in Operations, ops'[p].revision # None, ops'[p].candidate # None
               PROVE  /\ accepted'[ops'[p].revision].sequence # 0
                      /\ accepted'[ops'[p].revision].candidate = ops'[p].candidate
    BY DEF OneCandidatePerRevision, IsAccepted
  <2>1. CASE p = o
    BY <1>2, <1>3, <1>4, <2>1
  <2>2. CASE p # o
    <3>1. /\ ops'[p] = ops[p] /\ IsAccepted(ops[p].revision)
          /\ accepted[ops[p].revision].candidate = ops[p].candidate
      BY <1>2, <2>2 DEF IndexInv, OneCandidatePerRevision
    <3>2. CASE ops[p].revision = r
      BY <1>3, <3>1, <3>2 DEF row, IsAccepted
    <3>3. CASE ops[p].revision # r
      BY <1>3, <1>7, <3>1, <3>3 DEF IsAccepted
    <3> QED BY <3>2, <3>3
  <2> QED BY <2>1, <2>2
<1>10. PublishedHasGraph'
  BY <1>1, <1>5 DEF IndexInv, PublishedHasGraph, HasGraph
<1>11. PublicationReachesReceipts'
  <2> DEFINE Shown(q) == jobs'[q].state = "published" /\ jobs'[q].descriptor # None
  <2> SUFFICES ASSUME NEW p \in Operations
               PROVE  /\ (/\ ops'[p].revision # None /\ ops'[p].candidate # None
                          /\ Shown(ops'[p].revision)) => ops'[p].status = "indexed"
                      /\ ops'[p].status = "indexed" => jobs'[ops'[p].revision].descriptor # None
    BY DEF PublicationReachesReceipts, IsPublished
  <2>1. \A q \in Revisions : Shown(q) <=> IsPublished(q)
    BY <1>5 DEF IsPublished
  <2> HIDE DEF Shown
  <2>2. CASE p = o
    <3>1. status = "indexed" => IsPublished(r)
      BY DEF status
    <3>2. IsPublished(r) => status = "indexed"
      BY DEF status
    <3>3. status = "indexed" => jobs'[r].descriptor # None
      BY <1>6, <3>1 DEF IsPublished
    <3> QED BY <1>2, <2>1, <2>2, <3>2, <3>3
  <2>3. CASE p # o
    <3>1. ops'[p] = ops[p]
      BY <1>2, <2>3
    <3>2. ops[p].status = "indexed" => ops[p].revision \in Revisions
      BY AcceptedHasRevision DEF Accepted
    <3>3. /\ (/\ ops[p].revision # None /\ ops[p].candidate # None
              /\ IsPublished(ops[p].revision)) => ops[p].status = "indexed"
          /\ ops[p].status = "indexed" => jobs[ops[p].revision].descriptor # None
      BY DEF IndexInv, PublicationReachesReceipts
    <3> QED BY <1>6, <1>7, <2>1, <3>1, <3>2, <3>3
  <2> QED BY <2>2, <2>3
<1>12. PointersResolve'
  <2> SUFFICES ASSUME NEW b \in Branches, pointers[b].revision # None
               PROVE  /\ accepted'[pointers[b].revision].sequence = pointers[b].sequence
                      /\ pointers[b].sequence # 0
                      /\ jobs'[pointers[b].revision].descriptor # None
    BY <1>1 DEF PointersResolve
  <2>1. /\ pointers[b].revision \in Revisions
        /\ accepted[pointers[b].revision].sequence = pointers[b].sequence
        /\ pointers[b].sequence # 0
        /\ jobs[pointers[b].revision].descriptor # None
    BY RowTypes DEF DispatchInv, IndexInv, PointersResolve
  <2>2. accepted'[pointers[b].revision].sequence = pointers[b].sequence
    BY <1>3, <2>1 DEF row, IsAccepted
  <2> QED BY <1>6, <2>1, <2>2
<1> QED BY <1>8, <1>9, <1>10, <1>11, <1>12 DEF IndexInv

\* Steps of the dispatch protocol: only a commit with a candidate touches the index.
LEMMA DispatchKeepsIndex ==
  ASSUME DispatchInv, IndexInv, NEW a \in Actors, NEW o \in Operations, DispatchStep(a, o)
  PROVE  IndexInv'
<1>1. ops[o] \in Operation /\ ops \in [Operations -> Operation]
  BY DEF DispatchInv, TypeOK
\* A step on o that leaves the index alone is a matter of o's receipt.
<1>2. ASSUME UNCHANGED indexVars, NEW receipt, ops' = [ops EXCEPT ![o] = receipt], Unbound(o)
      PROVE  IndexInv'
  <2>1. \A p \in Operations : p # o => ops'[p] = ops[p]
    BY <1>1, <1>2
  <2>2. ASSUME NEW p \in Operations PROVE Unbound(p)
    BY <1>2, <2>1 DEF Unbound
  <2> QED BY <1>2, <2>2, UnboundKeepsIndex DEF indexVars
<1>3. ASSUME NEW receipt, ops' = [ops EXCEPT ![o] = receipt], UNCHANGED indexVars,
             receipt.revision = None, receipt.status # "indexed"
      PROVE  IndexInv'
  <2>1. ops'[o] = receipt
    BY <1>1, <1>3
  <2> QED BY <1>2, <1>3, <2>1 DEF Unbound
<1>4. ops[o].status = "pending" => ops[o].revision = None
  BY DEF DispatchInv, Readable, Exists, Accepted
<1>5. PICK g \in {ops[o].generation}, f \in {ops[o].token} :
        \/ Reserve(a, o, g)
        \/ \E status \in Rejections : \/ RejectBeforeDispatch(a, o, g, status)
                                    \/ CancelReserved(a, o, f, g, status)
        \/ \E c \in Candidates : Prepare(a, o, f, g, c)
        \/ \E requirePrepared \in BOOLEAN : AuthorizeSend(a, o, f, g, requirePrepared)
        \/ MarkAmbiguous(a, o, f, g)
        \/ \E r \in Revisions, observed \in BOOLEAN : RecordCommit(a, o, f, g, r, observed)
        \/ RecordIndex(a, o, g)
  BY DEF DispatchStep, Evidence
<1>6. CASE Reserve(a, o, g)
  <2> DEFINE receipt == [ops[o] EXCEPT !.token = fences[BranchOf(o)] + 1, !.generation = g + 1]
  <2>1. ops' = [ops EXCEPT ![o] = receipt] /\ UNCHANGED indexVars /\ ops[o].status = "pending"
    BY <1>6 DEF Reserve
  <2>2. receipt.revision = None /\ receipt.status # "indexed"
    BY <1>1, <1>4, <2>1 DEF Operation
  <2> QED BY <1>3, <2>1, <2>2
<1>7. ASSUME NEW status \in Rejections,
             RejectBeforeDispatch(a, o, g, status) \/ CancelReserved(a, o, f, g, status)
      PROVE  IndexInv'
  <2> DEFINE receipt == [ops[o] EXCEPT !.status = status, !.generation = g + 1]
  <2>1. ops' = [ops EXCEPT ![o] = receipt] /\ UNCHANGED indexVars /\ ops[o].status = "pending"
    BY <1>7 DEF RejectBeforeDispatch, CancelReserved
  <2>2. receipt.revision = None /\ receipt.status # "indexed"
    BY <1>1, <1>4, <2>1 DEF Operation, Rejections
  <2> QED BY <1>3, <2>1, <2>2
<1>8. ASSUME NEW c \in Candidates, Prepare(a, o, f, g, c) PROVE IndexInv'
  <2> DEFINE receipt == [ops[o] EXCEPT !.candidate = c, !.generation = g + 1]
  <2>1. ops' = [ops EXCEPT ![o] = receipt] /\ UNCHANGED indexVars /\ ops[o].status = "pending"
    BY <1>8 DEF Prepare
  <2>2. receipt.revision = None /\ receipt.status # "indexed"
    BY <1>1, <1>4, <2>1 DEF Operation
  <2> QED BY <1>3, <2>1, <2>2
<1>9. ASSUME NEW requirePrepared \in BOOLEAN, AuthorizeSend(a, o, f, g, requirePrepared)
      PROVE  IndexInv'
  <2> DEFINE receipt == [ops[o] EXCEPT !.sendAuthorized = TRUE, !.generation = g + 1]
  <2>1. ops' = [ops EXCEPT ![o] = receipt] /\ UNCHANGED indexVars /\ ops[o].status = "pending"
    BY <1>9 DEF AuthorizeSend
  <2>2. receipt.revision = None /\ receipt.status # "indexed"
    BY <1>1, <1>4, <2>1 DEF Operation
  <2> QED BY <1>3, <2>1, <2>2
<1>10. CASE MarkAmbiguous(a, o, f, g)
  <2> DEFINE receipt == [ops[o] EXCEPT !.status = "ambiguous", !.generation = g + 1]
  <2>1. ops' = [ops EXCEPT ![o] = receipt] /\ UNCHANGED indexVars /\ ops[o].status = "pending"
    BY <1>10 DEF MarkAmbiguous
  <2>2. receipt.revision = None /\ receipt.status # "indexed"
    BY <1>1, <1>4, <2>1 DEF Operation
  <2> QED BY <1>3, <2>1, <2>2
<1>11. ASSUME NEW r \in Revisions, NEW observed \in BOOLEAN,
              RecordCommit(a, o, f, g, r, observed)
       PROVE  IndexInv'
  <2>1. CASE ops[o].candidate # None
    BY <1>11, <2>1, AcceptKeepsIndex
  <2>2. CASE ops[o].candidate = None
    <3> DEFINE receipt == [ops[o] EXCEPT !.status = "committed", !.revision = r,
                             !.observedExisting = ops[o].observedExisting \/ observed,
                             !.generation = g + 1]
    <3>1. ops' = [ops EXCEPT ![o] = receipt] /\ UNCHANGED indexVars
      BY <1>11, <2>2 DEF RecordCommit
    <3>2. receipt.candidate = None /\ receipt.status = "committed"
      BY <1>1, <2>2 DEF Operation
    <3> HIDE DEF receipt
    <3>3. ops'[o] = receipt
      BY <1>1, <3>1
    <3> QED BY <1>2, <3>1, <3>2, <3>3 DEF Unbound
  <2> QED BY <2>1, <2>2
<1>12. CASE RecordIndex(a, o, g)
  <2> DEFINE receipt == [ops[o] EXCEPT !.status = "indexed", !.generation = g + 1]
  <2>1. /\ ops' = [ops EXCEPT ![o] = receipt] /\ UNCHANGED indexVars
        /\ ops[o].status = "committed" /\ jobs[ops[o].revision].descriptor # None
    BY <1>12 DEF RecordIndex, HasGraph
  <2>2. /\ receipt.revision = ops[o].revision /\ receipt.candidate = ops[o].candidate
        /\ receipt.status = "indexed"
    BY <1>1 DEF Operation
  <2> HIDE DEF receipt
  <2>3. ops'[o] = receipt
    BY <1>1, <2>1
  <2> QED BY <1>2, <2>1, <2>2, <2>3 DEF Unbound
<1> QED BY <1>5, <1>6, <1>7, <1>8, <1>9, <1>10, <1>11, <1>12

\* Claims, seals, removals and lost leases only move one unpublished job.
LEMMA JobStepMoves ==
  ASSUME DispatchInv, IndexInv, NEW r \in Revisions,
         \/ \E w \in Workers, wanted \in {Revisions, {r}} : ClaimJob(r, w, wanted)
         \/ \E w \in Workers, f \in {jobs[r].fence}, g \in Graphs : SealJob(r, w, f, g)
         \/ RemoveGraph(r)
         \/ ExpireLease(r),
         UNCHANGED storeVars
  PROVE  JobMoves(r)
<1>1. jobs \in [Revisions -> Job] /\ jobs[r] \in Job /\ ops' = ops
  BY DEF DispatchInv, TypeOK, IndexTypeOK, storeVars
<1>2. ASSUME NEW w \in Workers, NEW wanted, ClaimJob(r, w, wanted) PROVE JobMoves(r)
  BY <1>1, <1>2 DEF ClaimJob, JobMoves, Job
<1>3. ASSUME NEW w \in Workers, NEW f, NEW g \in Graphs, SealJob(r, w, f, g) PROVE JobMoves(r)
  BY <1>1, <1>3, IndexAssumption DEF SealJob, JobMoves, Job
<1>4. CASE RemoveGraph(r)
  BY <1>1, <1>4 DEF RemoveGraph, JobMoves, Job
<1>5. CASE ExpireLease(r)
  BY <1>1, <1>5 DEF ExpireLease, JobMoves, Job
<1> QED BY <1>2, <1>3, <1>4, <1>5

\* Every step of the store keeps the index invariant.
LEMMA IndexInvStep == DispatchInv /\ IndexInv /\ [Next]_vars => IndexInv'
<1> SUFFICES ASSUME DispatchInv, IndexInv, [Next]_vars PROVE IndexInv'
  OBVIOUS
<1>1. ASSUME UNCHANGED <<accepted, jobs, artifacts, pointers, ops>> PROVE IndexInv'
  <2>1. \A o \in Operations : Unbound(o)
    BY <1>1 DEF Unbound
  <2> QED BY <1>1, <2>1, UnboundKeepsIndex
<1>2. ASSUME NEW i \in Intakes, Intake(i) PROVE IndexInv'
  <2>1. /\ i.operation \in Operations /\ UNCHANGED indexVars
        /\ ops' = [ops EXCEPT ![i.operation] =
                     [NoOperation EXCEPT !.status = "pending", !.intake = i]]
    BY <1>2, StoreAssumption DEF Intake
  <2>2. /\ \A o \in Operations : o # i.operation => ops'[o] = ops[o]
        /\ ops'[i.operation].revision = None /\ ops'[i.operation].status = "pending"
    BY <2>1 DEF DispatchInv, TypeOK, NoOperation
  <2>3. \A o \in Operations : Unbound(o)
    BY <2>2 DEF Unbound
  <2> QED BY <2>1, <2>3, UnboundKeepsIndex DEF indexVars
<1>3. ASSUME NEW a \in Actors, NEW r \in Revisions, IndexStep(a, r) PROVE IndexInv'
  <2>1. ASSUME NEW w \in Workers, NEW f, PublishIndex(a, r, w, f) PROVE IndexInv'
    BY <2>1, PublishKeepsIndex
  <2>2. CASE \/ \E w \in Workers, wanted \in {Revisions, {r}} : ClaimIndex(a, r, w, wanted)
             \/ \E w \in Workers, f \in {jobs[r].fence}, g \in Graphs : SealIndex(a, r, w, f, g)
             \/ RemoveProjection(a, r)
    BY <2>2, JobStepMoves, JobMoveKeepsIndex DEF ClaimIndex, SealIndex, RemoveProjection
  <2> QED BY <1>3, <2>1, <2>2 DEF IndexStep
<1>4. ASSUME NEW r \in Revisions, LeaseExpires(r) PROVE IndexInv'
  BY <1>4, JobStepMoves, JobMoveKeepsIndex DEF LeaseExpires
<1>5. ASSUME \/ \E a \in Actors, b \in Branches, r \in Maybe(Revisions), u \in BOOLEAN :
                  ObserveHead(a, b, r, u)
             \/ \E a \in Actors, t \in Actors, permissions \in SUBSET Permissions :
                  SetGrant(a, t, permissions)
             \/ UNCHANGED vars
      PROVE  UNCHANGED <<accepted, jobs, artifacts, pointers, ops>>
  BY <1>5 DEF ObserveHead, ObserveBranchHead, SetGrant, vars, storeVars, indexVars
<1> QED BY <1>1, <1>2, <1>3, <1>4, <1>5, DispatchKeepsIndex DEF Next

LEMMA IndexInvHolds == Spec => [](DispatchInv /\ IndexInv)
BY InitDispatch, InitIndex, DispatchInvStep, IndexInvStep, PTL DEF Spec

(***************************************************************************)
(* The index tells the truth, for any number of operations, revisions,     *)
(* workers and rebuilds: receipts of one revision name one bundle          *)
(* (enqueue_accepted), a published job has its graph (verify_graph),       *)
(* publish_index leaves no receipt behind, and a discovery pointer names   *)
(* an accepted revision with a sealed graph.                               *)
(***************************************************************************)
THEOREM IndexSafe ==
  Spec => [](/\ OneCandidatePerRevision /\ PublishedHasGraph
             /\ PublicationReachesReceipts /\ PointersResolve)
<1>1. IndexInv => /\ OneCandidatePerRevision /\ PublishedHasGraph
                  /\ PublicationReachesReceipts /\ PointersResolve
  BY DEF IndexInv
<1> QED BY <1>1, IndexInvHolds, PTL
-----------------------------------------------------------------------------
\* The steps that touch grants, receipts, graphs or pointers, and what they touch.
LEMMA WhatMoves ==
  ASSUME [Next]_vars
  PROVE  \/ UNCHANGED <<grants, ops, jobs, pointers>>
         \/ /\ \E i \in Intakes : Intake(i)
            /\ UNCHANGED <<grants, jobs, pointers>>
         \/ /\ \E a \in Actors, o \in Operations : DispatchStep(a, o)
            /\ UNCHANGED <<grants, pointers>>
         \/ /\ \E r \in Revisions, w \in Workers : \E f \in {jobs[r].fence} :
                 \/ \E g \in Graphs : SealJob(r, w, f, g)
                 \/ \E wanted : ClaimJob(r, w, wanted)
            /\ UNCHANGED <<grants, ops, pointers>>
         \/ /\ \E r \in Revisions : RemoveGraph(r) \/ ExpireLease(r)
            /\ UNCHANGED <<grants, ops, pointers>>
         \/ /\ \E a \in Actors, r \in Revisions, w \in Workers : \E f \in {jobs[r].fence} :
                 PublishIndex(a, r, w, f)
            /\ UNCHANGED grants
         \/ /\ \E a, t \in Actors, permissions \in SUBSET Permissions : SetGrant(a, t, permissions)
            /\ UNCHANGED <<ops, jobs, pointers>>
<1>1. ASSUME NEW i \in Intakes, Intake(i) PROVE UNCHANGED <<grants, jobs, pointers>>
  BY <1>1 DEF Intake, indexVars
<1>2. ASSUME NEW a \in Actors, NEW o \in Operations, DispatchStep(a, o)
      PROVE  UNCHANGED <<grants, pointers>>
  <2>1. ASSUME NEW f, NEW g, NEW r, NEW observed, RecordCommit(a, o, f, g, r, observed)
        PROVE  UNCHANGED <<grants, pointers>>
    BY <2>1 DEF RecordCommit, Enqueue, indexVars
  <2>2. CASE ~\E f \in {ops[o].token}, g \in {ops[o].generation}, r \in Evidence(o),
                observed \in BOOLEAN : RecordCommit(a, o, f, g, r, observed)
    BY <1>2, <2>2 DEF DispatchStep, Reserve, RejectBeforeDispatch, CancelReserved, Prepare,
              AuthorizeSend, MarkAmbiguous, RecordIndex, indexVars
  <2> QED BY <2>1, <2>2
<1>3. ASSUME NEW a \in Actors, NEW r \in Revisions, IndexStep(a, r)
      PROVE  \/ /\ \E w \in Workers : \E f \in {jobs[r].fence} :
                     \/ \E g \in Graphs : SealJob(r, w, f, g)
                     \/ \E wanted : ClaimJob(r, w, wanted)
                /\ UNCHANGED <<grants, ops, pointers>>
             \/ RemoveGraph(r) /\ UNCHANGED <<grants, ops, pointers>>
             \/ /\ \E w \in Workers : \E f \in {jobs[r].fence} : PublishIndex(a, r, w, f)
                /\ UNCHANGED grants
  <2>1. ASSUME NEW w \in Workers, NEW wanted, ClaimIndex(a, r, w, wanted)
        PROVE  ClaimJob(r, w, wanted) /\ UNCHANGED <<grants, ops, pointers>>
    BY <2>1 DEF ClaimIndex, ClaimJob, storeVars
  <2>2. ASSUME NEW w \in Workers, NEW f, NEW g \in Graphs, SealIndex(a, r, w, f, g)
        PROVE  SealJob(r, w, f, g) /\ UNCHANGED <<grants, ops, pointers>>
    BY <2>2 DEF SealIndex, SealJob, storeVars
  <2>3. ASSUME RemoveProjection(a, r)
        PROVE  RemoveGraph(r) /\ UNCHANGED <<grants, ops, pointers>>
    BY <2>3 DEF RemoveProjection, RemoveGraph, storeVars
  <2>4. ASSUME NEW w \in Workers, NEW f, PublishIndex(a, r, w, f) PROVE UNCHANGED grants
    BY <2>4 DEF PublishIndex
  <2> QED BY <1>3, <2>1, <2>2, <2>3, <2>4 DEF IndexStep
<1>4. ASSUME NEW r \in Revisions, LeaseExpires(r)
      PROVE  ExpireLease(r) /\ UNCHANGED <<grants, ops, pointers>>
  BY <1>4 DEF LeaseExpires, ExpireLease, storeVars
<1>5. ASSUME NEW a \in Actors, NEW t \in Actors, NEW permissions \in SUBSET Permissions,
             SetGrant(a, t, permissions)
      PROVE  UNCHANGED <<ops, jobs, pointers>>
  BY <1>5 DEF SetGrant, indexVars
<1>6. ASSUME \/ \E a \in Actors, b \in Branches, r \in Maybe(Revisions), u \in BOOLEAN :
                  ObserveHead(a, b, r, u)
             \/ UNCHANGED vars
      PROVE  UNCHANGED <<grants, ops, jobs, pointers>>
  BY <1>6 DEF ObserveHead, ObserveBranchHead, vars, storeVars, indexVars
<1>7. CASE Next
  <2>1. CASE \E a \in Actors, r \in Revisions : IndexStep(a, r)
    BY <1>3, <2>1
  <2>2. CASE \E r \in Revisions : LeaseExpires(r)
    BY <1>4, <2>2
  <2> QED BY <1>1, <1>2, <1>5, <1>6, <1>7, <2>1, <2>2 DEF Next
<1> QED BY <1>6, <1>7

(***************************************************************************)
(* Administrators may demote one another, but set_grant (store.rs:391)     *)
(* counts them first: with more than one, another than the target remains. *)
(***************************************************************************)
THEOREM AdministratorStays == Spec => []AdministratorRemains
<1>1. Init => AdministratorRemains
  BY StoreAssumption DEF Init, AdministratorRemains, Administrators, Administers, Permissions
<1>2. TypeOK /\ AdministratorRemains /\ [Next]_vars => AdministratorRemains'
  <2> SUFFICES ASSUME TypeOK, AdministratorRemains, [Next]_vars PROVE AdministratorRemains'
    OBVIOUS
  <2>1. CASE UNCHANGED grants
    BY <2>1 DEF AdministratorRemains, Administrators, Administers
  <2>2. ASSUME NEW a \in Actors, NEW t \in Actors, NEW permissions \in SUBSET Permissions,
               SetGrant(a, t, permissions)
        PROVE  AdministratorRemains'
    <3>1. /\ grants' = [grants EXCEPT ![t] = permissions]
          /\ Administers(t) /\ "administer" \notin permissions
               => Cardinality(Administrators) > 1
      BY <2>2 DEF SetGrant
    <3>2. grants' \in [Actors -> SUBSET Permissions] /\ grants \in [Actors -> SUBSET Permissions]
      BY <3>1 DEF TypeOK
    <3>3. ASSUME NEW q \in Administrators, q # t PROVE AdministratorRemains'
      BY <3>1, <3>2, <3>3 DEF AdministratorRemains, Administrators, Administers
    <3>4. CASE \E q \in Administrators : q # t
      BY <3>3, <3>4
    <3>5. CASE Administrators = {t}
      <4>1. Cardinality(Administrators) = 1 /\ Administers(t)
        BY <3>5, FS_Singleton DEF Administrators
      <4>2. "administer" \in permissions
        BY <3>1, <4>1
      <4> QED BY <3>1, <3>2, <4>2 DEF AdministratorRemains, Administrators, Administers
    <3> QED BY <3>4, <3>5 DEF AdministratorRemains
  <2> QED BY <2>1, <2>2, WhatMoves
<1> QED BY <1>1, <1>2, TypeCorrect, PTL DEF Spec
-----------------------------------------------------------------------------
(***************************************************************************)
(* A discovery pointer only moves to a later accepted revision, whatever   *)
(* completes late (publish_index's checkpoint upsert, index.rs).           *)
(***************************************************************************)
THEOREM PointersOnlyAdvance == Spec => PointersNeverRewind
<1> DEFINE Advances == \A b \in Branches :
                         /\ pointers'[b].sequence >= pointers[b].sequence
                         /\ pointers'[b] # pointers[b]
                              => pointers'[b].sequence > pointers[b].sequence
<1>1. TypeOK /\ [Next]_vars => Advances
  <2> SUFFICES ASSUME TypeOK, [Next]_vars, NEW b \in Branches
               PROVE  /\ pointers'[b].sequence >= pointers[b].sequence
                      /\ pointers'[b] # pointers[b]
                           => pointers'[b].sequence > pointers[b].sequence
    OBVIOUS
  <2>0. pointers[b].sequence \in Nat
    BY RowTypes
  <2>1. CASE UNCHANGED pointers
    BY <2>0, <2>1
  <2>2. ASSUME NEW r \in Revisions, NEW w \in Workers, NEW f, PublishJob(r, w, f)
        PROVE  \/ pointers'[b] = pointers[b]
               \/ /\ pointers'[b].sequence = accepted[r].sequence
                  /\ accepted[r].sequence > pointers[b].sequence
    <3>1. pointers'[b] = IF PointerMoves(b, r)
                         THEN [revision |-> r, sequence |-> accepted[r].sequence]
                         ELSE pointers[b]
      BY <2>2 DEF PublishJob
    <3> QED BY <3>1 DEF PointerMoves
  <2>3. \A r \in Revisions : accepted[r].sequence \in Nat
    BY RowTypes
  <2>4. \/ UNCHANGED pointers
        \/ \E r \in Revisions, w \in Workers : \E f : PublishJob(r, w, f)
    BY WhatMoves DEF PublishIndex
  <2>5. \/ pointers'[b] = pointers[b]
        \/ \E r \in Revisions : /\ pointers'[b].sequence = accepted[r].sequence
                               /\ accepted[r].sequence > pointers[b].sequence
    BY <2>2, <2>4
  <2> QED BY <2>0, <2>3, <2>5
<1>2. [][Advances]_vars <=> PointersNeverRewind
  BY PTL DEF PointersNeverRewind
<1> QED BY <1>1, <1>2, TypeCorrect, PTL DEF Spec

(***************************************************************************)
(* The graph a revision was first sealed with stays its graph: seal_index  *)
(* refuses another digest, and enqueue_accepted creates a job only where   *)
(* there was none.                                                         *)
(***************************************************************************)
THEOREM GraphsStay == Spec => GraphsImmutable
<1> DEFINE Stays == \A r \in Revisions : jobs[r].descriptor # None
                                           => jobs'[r].descriptor = jobs[r].descriptor
<1>1. DispatchInv /\ IndexInv /\ [Next]_vars => Stays
  <2> SUFFICES ASSUME DispatchInv, IndexInv, [Next]_vars, NEW q \in Revisions,
                      jobs[q].descriptor # None
               PROVE  jobs'[q].descriptor = jobs[q].descriptor
    OBVIOUS
  <2>0. jobs \in [Revisions -> Job] /\ jobs[q].state # "absent"
    BY DEF DispatchInv, TypeOK, IndexTypeOK, IndexInv, NoJobNoGraph
  <2>1. CASE UNCHANGED jobs
    BY <2>1
  <2>2. ASSUME NEW b, NEW r \in Revisions, NEW c, Enqueue(b, r, c)
        PROVE  jobs'[q] = jobs[q]
    BY <2>0, <2>2 DEF Enqueue
  <2>3. ASSUME NEW a \in Actors, NEW o \in Operations, DispatchStep(a, o)
        PROVE  jobs'[q] = jobs[q]
    BY <2>2, <2>3 DEF DispatchStep, Reserve, RejectBeforeDispatch, CancelReserved, Prepare,
              AuthorizeSend, MarkAmbiguous, RecordCommit, RecordIndex, indexVars, Evidence
  <2>4. ASSUME NEW r \in Revisions, NEW w, NEW f,
               \/ \E g \in Graphs : SealJob(r, w, f, g)
               \/ \E wanted : ClaimJob(r, w, wanted)
               \/ PublishJob(r, w, f)
        PROVE  jobs'[q].descriptor = jobs[q].descriptor
    <3>0. jobs[q] \in Job /\ jobs[r] \in Job
      BY <2>0
    <3>1. ASSUME NEW g \in Graphs, SealJob(r, w, f, g) PROVE jobs'[q].descriptor = jobs[q].descriptor
      <4>1. /\ jobs' = [jobs EXCEPT ![r].state = "sealed", ![r].descriptor = g]
            /\ jobs[r].descriptor \in {None, g}
        BY <3>1 DEF SealJob
      <4> QED BY <2>0, <4>1 DEF Job
    <3>2. ASSUME NEW wanted, ClaimJob(r, w, wanted) PROVE jobs'[q].descriptor = jobs[q].descriptor
      <4> DEFINE row == [jobs[r] EXCEPT
                 !.state = IF jobs[r].descriptor = None THEN "claimed" ELSE "sealed",
                 !.worker = w, !.fence = jobs[r].fence + 1, !.live = TRUE,
                 !.attempts = jobs[r].attempts + 1]
      <4>1. jobs' = [jobs EXCEPT ![r] = row]
        BY <3>2 DEF ClaimJob
      <4>2. row.descriptor = jobs[r].descriptor
        BY <3>0 DEF Job
      <4> HIDE DEF row
      <4> QED BY <2>0, <4>1, <4>2
    <3>3. CASE PublishJob(r, w, f)
      BY <2>0, <3>3 DEF PublishJob, Job
    <3> QED BY <2>4, <3>1, <3>2, <3>3
  <2>5. ASSUME NEW r \in Revisions, RemoveGraph(r) \/ ExpireLease(r)
        PROVE  jobs'[q].descriptor = jobs[q].descriptor
    BY <2>0, <2>5 DEF RemoveGraph, ExpireLease, Job
  <2> QED BY <2>1, <2>3, <2>4, <2>5, WhatMoves DEF PublishIndex
<1>2. [][Stays]_vars <=> GraphsImmutable
  BY PTL DEF GraphsImmutable
<1> QED BY <1>1, <1>2, IndexInvHolds, PTL DEF Spec

(***************************************************************************)
(* What is settled stays settled: a rejection and an Indexed receipt never *)
(* change again, and a committed operation keeps its revision.             *)
(***************************************************************************)
THEOREM SettledStays == Spec => SettledIsFinal
<1> DEFINE Final(o) == /\ ops[o].status \in Rejections \union {"indexed"} => ops'[o] = ops[o]
                       /\ ops[o].status = "committed" => /\ ops'[o].revision = ops[o].revision
                                                        /\ ops'[o].status \in Accepted
           AllFinal == \A o \in Operations : Final(o)
<1>1. DispatchInv /\ [Next]_vars => AllFinal
  <2> SUFFICES ASSUME DispatchInv, [Next]_vars, NEW p \in Operations PROVE Final(p)
    OBVIOUS
  <2>0. ops \in [Operations -> Operation] /\ ops[p] \in Operation
    BY DEF DispatchInv, TypeOK
  <2>1. ASSUME ops'[p] = ops[p] PROVE Final(p)
    BY <2>1 DEF Accepted
  <2>2. ASSUME NEW i \in Intakes, Intake(i) PROVE Final(p)
    <3>1. CASE p = i.operation
      BY <2>2, <3>1 DEF Intake, Exists, Rejections
    <3>2. CASE p # i.operation
      BY <2>0, <2>1, <2>2, <3>2 DEF Intake
    <3> QED BY <3>1, <3>2
  <2>3. ASSUME NEW a \in Actors, NEW o \in Operations, DispatchStep(a, o) PROVE Final(p)
    <3>1. CASE p = o /\ ops[o].status \in Outstanding
      BY <3>1 DEF Outstanding, Rejections
    <3>2. CASE p # o
      <4>1. ops'[p] = ops[p]
        BY <2>0, <2>3, <3>2 DEF DispatchStep, Reserve, RejectBeforeDispatch, CancelReserved,
                  Prepare, AuthorizeSend, MarkAmbiguous, RecordCommit, RecordIndex
      <4> QED BY <2>1, <4>1
    <3>3. CASE p = o /\ ops[o].status \notin Outstanding
      <4>1. PICK g : RecordIndex(a, o, g)
        BY <2>3, <3>3 DEF DispatchStep, Reserve, RejectBeforeDispatch, CancelReserved,
                  Prepare, AuthorizeSend, MarkAmbiguous, RecordCommit, Outstanding
      <4> QED BY <2>0, <3>3, <4>1 DEF RecordIndex, Operation, Accepted, Rejections
    <3> QED BY <3>1, <3>2, <3>3
  <2>4. ASSUME NEW a, NEW r, NEW w, NEW f, PublishIndex(a, r, w, f) PROVE Final(p)
    <3>1. CASE p \notin AwaitingGraph(r)
      BY <2>1, <2>4, <3>1 DEF PublishIndex
    <3>2. CASE p \in AwaitingGraph(r)
      <4>1. /\ ops[p].status = "committed"
            /\ ops'[p] = [ops[p] EXCEPT !.status = "indexed", !.generation = @ + 1]
        BY <2>4, <3>2 DEF PublishIndex, AwaitingGraph
      <4> QED BY <2>0, <4>1 DEF Operation, Accepted, Rejections
    <3> QED BY <3>1, <3>2
  <2> QED BY <2>1, <2>2, <2>3, <2>4, WhatMoves
<1>2. [][AllFinal]_vars <=> SettledIsFinal
  BY PTL DEF SettledIsFinal
<1> QED BY <1>1, <1>2, IndexInvHolds, PTL DEF Spec

(***************************************************************************)
(* A receipt never changes without its generation: update_operation raises *)
(* it in the transaction that writes the receipt (store.rs), for the       *)
(* receipts publish_index turns to Indexed as for the caller's own.        *)
(***************************************************************************)
THEOREM GenerationsRise == Spec => GenerationsTell
<1> DEFINE Told(o) == Exists(o) /\ ops'[o] # ops[o]
                        => ops'[o].generation = ops[o].generation + 1
           AllTold == \A o \in Operations : Told(o)
<1>1. TypeOK /\ [Next]_vars => AllTold
  <2> SUFFICES ASSUME TypeOK, [Next]_vars, NEW p \in Operations PROVE Told(p)
    OBVIOUS
  <2>0. ops \in [Operations -> Operation] /\ ops[p] \in Operation
    BY DEF TypeOK
  <2>1. ASSUME ops'[p] = ops[p] PROVE Told(p)
    BY <2>1
  <2>2. ASSUME NEW i \in Intakes, Intake(i) PROVE Told(p)
    BY <2>0, <2>2 DEF Intake, Exists
  <2>3. ASSUME NEW a \in Actors, NEW o \in Operations, DispatchStep(a, o) PROVE Told(p)
    <3>1. CASE p # o
      <4>1. ops'[p] = ops[p]
        BY <2>0, <2>3, <3>1 DEF DispatchStep, Reserve, RejectBeforeDispatch, CancelReserved,
                  Prepare, AuthorizeSend, MarkAmbiguous, RecordCommit, RecordIndex
      <4> QED BY <2>1, <4>1
    <3>2. CASE p = o
      <4>0. ops[o] \in Operation
        BY <2>0
      <4>1. ASSUME NEW f, NEW r, NEW observed,
                   RecordCommit(a, o, f, ops[o].generation, r, observed)
            PROVE  ops'[o].generation = ops[o].generation + 1
        BY <2>0, <4>0, <4>1 DEF RecordCommit, Operation
      <4>2. ASSUME \/ Reserve(a, o, ops[o].generation)
                   \/ RecordIndex(a, o, ops[o].generation)
                   \/ \E status \in Rejections :
                         RejectBeforeDispatch(a, o, ops[o].generation, status)
            PROVE  ops'[o].generation = ops[o].generation + 1
        <5>1. CASE Reserve(a, o, ops[o].generation)
          BY <2>0, <4>0, <5>1 DEF Reserve, Operation
        <5>2. CASE RecordIndex(a, o, ops[o].generation)
          BY <2>0, <4>0, <5>2 DEF RecordIndex, Operation
        <5>3. ASSUME NEW status \in Rejections,
                     RejectBeforeDispatch(a, o, ops[o].generation, status)
              PROVE  ops'[o].generation = ops[o].generation + 1
          BY <2>0, <4>0, <5>3 DEF RejectBeforeDispatch, Operation
        <5> QED BY <4>2, <5>1, <5>2, <5>3
      <4>3. ASSUME NEW f,
                   \/ \E status \in Rejections :
                         CancelReserved(a, o, f, ops[o].generation, status)
                   \/ \E c \in Candidates : Prepare(a, o, f, ops[o].generation, c)
                   \/ \E requirePrepared \in BOOLEAN :
                         AuthorizeSend(a, o, f, ops[o].generation, requirePrepared)
                   \/ MarkAmbiguous(a, o, f, ops[o].generation)
            PROVE  ops'[o].generation = ops[o].generation + 1
        BY <2>0, <4>0, <4>3 DEF CancelReserved, Prepare, AuthorizeSend, MarkAmbiguous, Operation
      <4>4. ops'[o].generation = ops[o].generation + 1
        BY <2>3, <4>1, <4>2, <4>3 DEF DispatchStep
      <4> QED BY <3>2, <4>4
    <3> QED BY <3>1, <3>2
  <2>4. ASSUME NEW a, NEW r, NEW w, NEW f, PublishIndex(a, r, w, f) PROVE Told(p)
    <3>1. CASE p \notin AwaitingGraph(r)
      BY <2>1, <2>4, <3>1 DEF PublishIndex
    <3>2. CASE p \in AwaitingGraph(r)
      <4>1. ops'[p] = [ops[p] EXCEPT !.status = "indexed", !.generation = @ + 1]
        BY <2>4, <3>2 DEF PublishIndex, AwaitingGraph
      <4> QED BY <2>0, <4>1 DEF Operation
    <3> QED BY <3>1, <3>2
  <2> QED BY <2>1, <2>2, <2>3, <2>4, WhatMoves
<1>2. [][AllTold]_vars <=> GenerationsTell
  BY PTL DEF GenerationsTell
<1> QED BY <1>1, <1>2, TypeCorrect, PTL DEF Spec
==============================================================================
