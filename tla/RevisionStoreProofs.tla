-------------------------- MODULE RevisionStoreProofs --------------------------
(***************************************************************************)
(* Proofs about RevisionStore, for any branches, revisions, operations,    *)
(* actors and bounds.                                                      *)
(***************************************************************************)
EXTENDS RevisionStoreProperties, FiniteSetTheorems, TLAPS

USE DEF Maybe

\* What the code's initial database satisfies.
LEMMA InitType == Init => TypeOK
<1> USE IndexAssumption, StoreAssumption
<1>1. Init => IndexTypeOK
  BY DEF Init, IndexInit, IndexTypeOK, AcceptedRow, Job, Head, Pointer, NoRow, NoJob,
         NoHead, NoPointer
<1>2. Init => grants \in [Actors -> SUBSET Permissions]
  BY DEF Init
<1>3. NoOperation \in Operation
  BY DEF NoOperation, Operation, Status
<1>4. Init => ops \in [Operations -> Operation]
  BY <1>3 DEF Init
<1>5. Init => /\ fences \in [Branches -> 0..FenceMax]
              /\ active \in [Branches -> Operations \union {None}]
  BY DEF Init
<1>6. Init => \A o \in Operations : ops[o].status = "absent"
  BY DEF Init, NoOperation
<1> QED BY <1>1, <1>2, <1>4, <1>5, <1>6 DEF TypeOK

\* The sequence of the next accepted revision is a number: Revisions is finite.
LEMMA NextSequenceType == NextSequence \in Nat \ {0}
<1>1. IsFiniteSet({r \in Revisions : IsAccepted(r)})
  BY IndexAssumption, FS_Subset
<1>2. Cardinality({r \in Revisions : IsAccepted(r)}) \in Nat
  BY <1>1, FS_CardinalityType
<1> QED BY <1>2 DEF NextSequence

\* Accepting a revision keeps the types of the index.
LEMMA EnqueueType ==
  ASSUME TypeOK, NEW b \in Branches, NEW r \in Revisions, NEW c \in Candidates, Enqueue(b, r, c)
  PROVE  IndexTypeOK'
<1> USE IndexAssumption
<1> DEFINE row == IF IsAccepted(r) THEN accepted[r]
                  ELSE [sequence |-> NextSequence, candidate |-> c]
<1>1. row \in AcceptedRow
  BY NextSequenceType DEF TypeOK, IndexTypeOK, AcceptedRow
<1>2. row.sequence \in Nat
  BY <1>1 DEF AcceptedRow
<1>3. /\ accepted' = [accepted EXCEPT ![r] = row]
      /\ heads' = IF row.sequence >= heads[b].sequence
                  THEN [heads EXCEPT ![b] = [revision |-> r, sequence |-> row.sequence,
                                             unavailable |-> FALSE]]
                  ELSE heads
      /\ jobs' = IF jobs[r].state = "absent" THEN [jobs EXCEPT ![r] = QueuedJob] ELSE jobs
      /\ UNCHANGED <<artifacts, pointers>>
  BY DEF Enqueue
<1> HIDE DEF row
<1>4. accepted' \in [Revisions -> AcceptedRow]
  BY <1>1, <1>3 DEF TypeOK, IndexTypeOK
<1>5. heads' \in [Branches -> Head]
  BY <1>2, <1>3 DEF TypeOK, IndexTypeOK, Head
<1>6. QueuedJob \in Job
  <2>1. NoJob \in Job
    BY DEF NoJob, Job
  <2> QED BY <2>1 DEF QueuedJob, Job
<1>7. jobs' \in [Revisions -> Job]
  BY <1>3, <1>6 DEF TypeOK, IndexTypeOK
<1> QED BY <1>3, <1>4, <1>5, <1>7 DEF TypeOK, IndexTypeOK

\* The typing of the operations table, as one fact.
OpsTyped == /\ ops \in [Operations -> Operation]
            /\ \A o \in Operations : ops[o].status # "absent" => ops[o].intake \in Intakes

\* Writing one well-typed receipt keeps the table well-typed.
LEMMA ReceiptWrite ==
  ASSUME TypeOK, NEW o \in Operations, NEW receipt \in Operation,
         receipt.intake = ops[o].intake \/ receipt.intake \in Intakes,
         Exists(o) \/ receipt.intake \in Intakes,
         ops' = [ops EXCEPT ![o] = receipt]
  PROVE  OpsTyped'
<1>1. ops' \in [Operations -> Operation]
  BY DEF TypeOK
<1>2. ops[o].status # "absent" => ops[o].intake \in Intakes
  BY DEF TypeOK
<1>3. ASSUME NEW p \in Operations, ops'[p].status # "absent" PROVE ops'[p].intake \in Intakes
  <2>1. CASE p = o
    BY <1>2, <2>1 DEF TypeOK, Exists
  <2>2. CASE p # o
    BY <1>3, <2>2 DEF TypeOK
  <2> QED BY <2>1, <2>2
<1> QED BY <1>1, <1>3 DEF OpsTyped

\* The branch of an existing operation is registered.
LEMMA BranchType ==
  ASSUME TypeOK, NEW o \in Operations, Exists(o)
  PROVE  BranchOf(o) \in Branches
BY StoreAssumption DEF TypeOK, Exists, BranchOf

\* Every step of the dispatch protocol on one operation keeps the types.
LEMMA DispatchType ==
  ASSUME TypeOK, NEW a \in Actors, NEW o \in Operations, DispatchStep(a, o)
  PROVE  TypeOK'
<1> USE IndexAssumption, StoreAssumption
<1> SUFFICES ASSUME NEW g \in {ops[o].generation}, NEW f \in {ops[o].token},
                    \/ Reserve(a, o, g)
                    \/ \E status \in Rejections : \/ RejectBeforeDispatch(a, o, g, status)
                                                \/ CancelReserved(a, o, f, g, status)
                    \/ \E c \in Candidates : Prepare(a, o, f, g, c)
                    \/ \E requirePrepared \in BOOLEAN :
                         AuthorizeSend(a, o, f, g, requirePrepared)
                    \/ MarkAmbiguous(a, o, f, g)
                    \/ \E r \in Revisions, observed \in BOOLEAN :
                         RecordCommit(a, o, f, g, r, observed)
                    \/ RecordIndex(a, o, g)
             PROVE  TypeOK'
  BY DEF DispatchStep, Evidence
<1>0. ops[o] \in Operation /\ g \in 0..GenerationMax
  BY DEF TypeOK, Operation
<1>1. CASE Reserve(a, o, g)
  <2> DEFINE b == BranchOf(o)
             receipt == [ops[o] EXCEPT !.token = fences[b] + 1, !.generation = g + 1]
  <2>1. b \in Branches /\ Exists(o)
    BY <1>1, BranchType DEF Reserve, Exists
  <2>2. fences[b] + 1 \in 0..FenceMax /\ g + 1 \in 0..GenerationMax
    BY <1>0, <1>1, <2>1 DEF Reserve, TypeOK, Current
  <2>3. receipt \in Operation
    BY <1>0, <2>2 DEF Operation
  <2>4. OpsTyped'
    <3>1. ops' = [ops EXCEPT ![o] = receipt]
      BY <1>1 DEF Reserve
    <3>2. receipt.intake = ops[o].intake
      BY <1>0 DEF Operation
    <3> QED BY <2>1, <2>3, <3>1, <3>2, ReceiptWrite
  <2> QED BY <1>1, <2>1, <2>2, <2>4
          DEF Reserve, TypeOK, OpsTyped, IndexTypeOK, indexVars
<1>2. ASSUME NEW status \in Rejections,
             RejectBeforeDispatch(a, o, g, status) \/ CancelReserved(a, o, f, g, status)
      PROVE  TypeOK'
  <2> DEFINE receipt == [ops[o] EXCEPT !.status = status, !.generation = g + 1]
  <2>0. ops[o].status = "pending" /\ Current(o, g)
    BY <1>2 DEF RejectBeforeDispatch, CancelReserved
  <2>1. Exists(o) /\ g + 1 \in 0..GenerationMax
    BY <1>0, <2>0 DEF Exists, Current
  <2>2. receipt \in Operation /\ receipt.intake = ops[o].intake
    BY <1>0, <2>1 DEF Operation, Status
  <2>3. ops' = [ops EXCEPT ![o] = receipt]
    BY <1>2 DEF RejectBeforeDispatch, CancelReserved
  <2>4. OpsTyped'
    BY <2>1, <2>2, <2>3, ReceiptWrite
  <2> QED BY <1>2, <2>4
          DEF RejectBeforeDispatch, CancelReserved, TypeOK, OpsTyped, IndexTypeOK, indexVars
<1>3. ASSUME NEW c \in Candidates, Prepare(a, o, f, g, c)
      PROVE  TypeOK'
  <2> DEFINE receipt == [ops[o] EXCEPT !.candidate = c, !.generation = g + 1]
  <2>0. HoldsToken(o, f) /\ Current(o, g)
    BY <1>3 DEF Prepare
  <2>1. Exists(o) /\ g + 1 \in 0..GenerationMax
    BY <1>0, <2>0 DEF HoldsToken, Current
  <2>2. receipt \in Operation /\ receipt.intake = ops[o].intake
    BY <1>0, <2>1 DEF Operation
  <2>3. ops' = [ops EXCEPT ![o] = receipt]
    BY <1>3 DEF Prepare
  <2>4. OpsTyped'
    BY <2>1, <2>2, <2>3, ReceiptWrite
  <2> QED BY <1>3, <2>4 DEF Prepare, TypeOK, OpsTyped, IndexTypeOK, indexVars
<1>4. ASSUME NEW requirePrepared \in BOOLEAN, AuthorizeSend(a, o, f, g, requirePrepared)
      PROVE  TypeOK'
  <2> DEFINE receipt == [ops[o] EXCEPT !.sendAuthorized = TRUE, !.generation = g + 1]
  <2>0. HoldsToken(o, f) /\ Current(o, g)
    BY <1>4 DEF AuthorizeSend
  <2>1. Exists(o) /\ g + 1 \in 0..GenerationMax
    BY <1>0, <2>0 DEF HoldsToken, Current
  <2>2. receipt \in Operation /\ receipt.intake = ops[o].intake
    BY <1>0, <2>1 DEF Operation
  <2>3. ops' = [ops EXCEPT ![o] = receipt]
    BY <1>4 DEF AuthorizeSend
  <2>4. OpsTyped'
    BY <2>1, <2>2, <2>3, ReceiptWrite
  <2> QED BY <1>4, <2>4 DEF AuthorizeSend, TypeOK, OpsTyped, IndexTypeOK, indexVars
<1>5. CASE MarkAmbiguous(a, o, f, g)
  <2> DEFINE receipt == [ops[o] EXCEPT !.status = "ambiguous", !.generation = g + 1]
  <2>0. HoldsToken(o, f) /\ Current(o, g)
    BY <1>5 DEF MarkAmbiguous
  <2>1. Exists(o) /\ g + 1 \in 0..GenerationMax
    BY <1>0, <2>0 DEF HoldsToken, Current
  <2>2. receipt \in Operation /\ receipt.intake = ops[o].intake
    BY <1>0, <2>1 DEF Operation, Status, Outstanding
  <2>3. ops' = [ops EXCEPT ![o] = receipt]
    BY <1>5 DEF MarkAmbiguous
  <2>4. OpsTyped'
    BY <2>1, <2>2, <2>3, ReceiptWrite
  <2> QED BY <1>5, <2>4 DEF MarkAmbiguous, TypeOK, OpsTyped, IndexTypeOK, indexVars
<1>6. ASSUME NEW r \in Revisions, NEW observed \in BOOLEAN,
             RecordCommit(a, o, f, g, r, observed)
      PROVE  TypeOK'
  <2> DEFINE status == IF ops[o].candidate # None /\ IsPublished(r)
                       THEN "indexed" ELSE "committed"
             seen == ops[o].observedExisting \/ observed
             receipt == [ops[o] EXCEPT !.status = status, !.revision = r,
                                       !.observedExisting = seen, !.generation = g + 1]
  <2>0. HoldsToken(o, f) /\ Current(o, g)
    BY <1>6 DEF RecordCommit
  <2>1. Exists(o) /\ g + 1 \in 0..GenerationMax
    BY <1>0, <2>0 DEF HoldsToken, Current
  <2>2. receipt \in Operation /\ receipt.intake = ops[o].intake
    <3>1. status \in Status
      BY DEF Status, Accepted
    <3>2. seen \in BOOLEAN
      BY <1>0 DEF Operation
    <3> HIDE DEF status, seen
    <3> QED BY <1>0, <2>1, <3>1, <3>2 DEF Operation
  <2>3. ops' = [ops EXCEPT ![o] = receipt]
    BY <1>6 DEF RecordCommit
  <2>4. OpsTyped'
    <3> HIDE DEF receipt
    <3> QED BY <2>1, <2>2, <2>3, ReceiptWrite
  <2>5. IndexTypeOK'
    <3>1. CASE ops[o].candidate # None
      <4>1. ops[o].candidate \in Candidates
        BY <1>0, <3>1 DEF Operation
      <4>2. Enqueue(BranchOf(o), r, ops[o].candidate)
        BY <1>6, <3>1 DEF RecordCommit
      <4> QED BY <2>1, <4>1, <4>2, BranchType, EnqueueType
    <3>2. CASE ops[o].candidate = None
      BY <1>6, <3>2 DEF RecordCommit, TypeOK, IndexTypeOK, indexVars
    <3> QED BY <3>1, <3>2
  <2>6. /\ UNCHANGED <<grants, fences>>
        /\ active' = [active EXCEPT ![BranchOf(o)] = None]
    BY <1>6 DEF RecordCommit
  <2> QED BY <2>4, <2>5, <2>6 DEF TypeOK, OpsTyped
<1>7. CASE RecordIndex(a, o, g)
  <2> DEFINE receipt == [ops[o] EXCEPT !.status = "indexed", !.generation = g + 1]
  <2>1. Exists(o) /\ g + 1 \in 0..GenerationMax
    BY <1>0, <1>7 DEF RecordIndex, Exists, Current
  <2>2. receipt \in Operation /\ receipt.intake = ops[o].intake
    BY <1>0, <2>1 DEF Operation, Status, Accepted
  <2>3. ops' = [ops EXCEPT ![o] = receipt]
    BY <1>7 DEF RecordIndex
  <2>4. OpsTyped'
    BY <2>1, <2>2, <2>3, ReceiptWrite
  <2> QED BY <1>7, <2>4 DEF RecordIndex, TypeOK, OpsTyped, IndexTypeOK, indexVars
<1> QED BY <1>1, <1>2, <1>3, <1>4, <1>5, <1>6, <1>7

\* Every step of the index on one revision keeps the types.
LEMMA IndexType ==
  ASSUME TypeOK, NEW a \in Actors, NEW r \in Revisions, IndexStep(a, r)
  PROVE  TypeOK'
<1> USE IndexAssumption, StoreAssumption
<1>1. ASSUME NEW w \in Workers, NEW wanted, ClaimIndex(a, r, w, wanted)
      PROVE  TypeOK'
  <2> DEFINE state == IF jobs[r].descriptor = None THEN "claimed" ELSE "sealed"
             job == [jobs[r] EXCEPT !.state = state, !.worker = w,
                                    !.fence = jobs[r].fence + 1, !.live = TRUE,
                                    !.attempts = jobs[r].attempts + 1]
  <2>1. ClaimJob(r, w, wanted) /\ UNCHANGED storeVars
    BY <1>1 DEF ClaimIndex
  <2>2. jobs' = [jobs EXCEPT ![r] = job] /\ UNCHANGED <<accepted, artifacts, heads, pointers>>
    BY <2>1 DEF ClaimJob
  <2>3. jobs[r].fence < FenceMax /\ jobs[r].attempts < MaxAttempts
    BY <2>1 DEF ClaimJob, Claimable
  <2>4. jobs[r] \in Job
    BY DEF TypeOK, IndexTypeOK
  <2>5. jobs[r].fence + 1 \in 0..FenceMax /\ jobs[r].attempts + 1 \in 0..MaxAttempts
    BY <2>3, <2>4 DEF Job
  <2>6. job \in Job
    BY <2>4, <2>5 DEF Job
  <2>7. IndexTypeOK'
    <3> HIDE DEF job
    <3> QED BY <2>2, <2>6 DEF TypeOK, IndexTypeOK
  <2> QED BY <2>1, <2>7 DEF TypeOK, storeVars
<1>2. ASSUME NEW w \in Workers, NEW f, NEW graph \in Graphs, SealIndex(a, r, w, f, graph)
      PROVE  TypeOK'
  <2> DEFINE job == [jobs[r] EXCEPT !.state = "sealed", !.descriptor = graph]
  <2>1. SealJob(r, w, f, graph) /\ UNCHANGED storeVars
    BY <1>2 DEF SealIndex
  <2>2. /\ jobs' = [jobs EXCEPT ![r] = job]
        /\ artifacts' = artifacts \union {<<r, graph>>}
        /\ UNCHANGED <<accepted, heads, pointers>>
    BY <2>1 DEF SealJob, TypeOK, IndexTypeOK
  <2>3. job \in Job
    <3>1. jobs[r] \in Job
      BY DEF TypeOK, IndexTypeOK
    <3> QED BY <3>1 DEF Job
  <2>4. IndexTypeOK'
    <3> HIDE DEF job
    <3> QED BY <2>2, <2>3 DEF TypeOK, IndexTypeOK
  <2> QED BY <2>1, <2>4 DEF TypeOK, storeVars
<1>3. ASSUME NEW w \in Workers, NEW f, PublishIndex(a, r, w, f)
      PROVE  TypeOK'
  <2>1. PublishJob(r, w, f)
    BY <1>3 DEF PublishIndex
  <2>2. accepted[r].sequence \in Nat
    BY DEF TypeOK, IndexTypeOK, AcceptedRow
  <2>3. pointers' \in [Branches -> Pointer]
    BY <2>1, <2>2 DEF PublishJob, TypeOK, IndexTypeOK, Pointer
  <2>4. jobs' \in [Revisions -> Job]
    <3> DEFINE job == [jobs[r] EXCEPT !.state = "published"]
    <3>0. jobs[r] \in Job
      BY DEF TypeOK, IndexTypeOK
    <3>1. job \in Job
      BY <3>0 DEF Job
    <3>2. jobs' = [jobs EXCEPT ![r] = job]
      BY <2>1 DEF PublishJob, TypeOK, IndexTypeOK
    <3> HIDE DEF job
    <3> QED BY <3>1, <3>2 DEF TypeOK, IndexTypeOK
  <2>5. IndexTypeOK'
    BY <2>1, <2>3, <2>4 DEF PublishJob, TypeOK, IndexTypeOK
  <2>6. OpsTyped'
    <3> DEFINE indexed(o) == [ops[o] EXCEPT !.status = "indexed", !.generation = @ + 1]
    <3>1. /\ \A o \in AwaitingGraph(r) : ops[o].generation < GenerationMax
          /\ ops' = [o \in Operations |-> IF o \in AwaitingGraph(r) THEN indexed(o) ELSE ops[o]]
      BY <1>3 DEF PublishIndex
    <3>2. ASSUME NEW o \in Operations, o \in AwaitingGraph(r)
          PROVE  /\ indexed(o) \in Operation
                 /\ indexed(o).intake = ops[o].intake
                 /\ ops[o].status # "absent"
      <4>1. ops[o] \in Operation
        BY DEF TypeOK
      <4>2. ops[o].generation + 1 \in 0..GenerationMax
        <5>1. ops[o].generation \in 0..GenerationMax /\ ops[o].generation < GenerationMax
          BY <3>1, <3>2, <4>1 DEF Operation
        <5> QED BY <5>1
      <4>3. ops[o].status = "committed"
        BY <3>2 DEF AwaitingGraph
      <4> QED BY <4>1, <4>2, <4>3 DEF Operation, Status, Accepted
    <3> HIDE DEF indexed
    <3>3. \A o \in Operations : ops[o] \in Operation
                               /\ (ops[o].status # "absent" => ops[o].intake \in Intakes)
      BY DEF TypeOK
    <3>4. ops' \in [Operations -> Operation]
      BY <3>1, <3>2, <3>3
    <3>5. \A o \in Operations : ops'[o].status # "absent" => ops'[o].intake \in Intakes
      BY <3>1, <3>2, <3>3
    <3> QED BY <3>4, <3>5 DEF OpsTyped
  <2> QED BY <1>3, <2>5, <2>6 DEF PublishIndex, TypeOK, OpsTyped
<1>4. CASE RemoveProjection(a, r)
  <2> DEFINE job == [jobs[r] EXCEPT !.state = "queued", !.worker = None,
                                    !.live = FALSE, !.attempts = 0]
  <2>1. RemoveGraph(r) /\ UNCHANGED storeVars
    BY <1>4 DEF RemoveProjection
  <2>2. /\ jobs' = [jobs EXCEPT ![r] = job]
        /\ artifacts' = artifacts \ {<<r, jobs[r].descriptor>>}
        /\ UNCHANGED <<accepted, heads, pointers>>
    BY <2>1 DEF RemoveGraph, TypeOK, IndexTypeOK
  <2>3. job \in Job
    <3>1. jobs[r] \in Job
      BY DEF TypeOK, IndexTypeOK
    <3>2. 0 \in 0..MaxAttempts /\ None \in Workers \union {None} /\ FALSE \in BOOLEAN
      OBVIOUS
    <3> QED BY <3>1, <3>2 DEF Job
  <2>4. IndexTypeOK'
    <3> HIDE DEF job
    <3> QED BY <2>2, <2>3 DEF TypeOK, IndexTypeOK
  <2> QED BY <2>1, <2>4 DEF TypeOK, storeVars
<1> QED BY <1>1, <1>2, <1>3, <1>4 DEF IndexStep

\* The remaining steps: intake, head observations, lease expiry and grants.
LEMMA OtherType ==
  ASSUME TypeOK,
         \/ \E i \in Intakes : Intake(i)
         \/ \E a \in Actors, b \in Branches, r \in Maybe(Revisions), u \in BOOLEAN :
              ObserveHead(a, b, r, u)
         \/ \E a, t \in Actors, permissions \in SUBSET Permissions :
              SetGrant(a, t, permissions)
         \/ \E r \in Revisions : LeaseExpires(r)
  PROVE  TypeOK'
<1> USE IndexAssumption, StoreAssumption
<1>1. ASSUME NEW i \in Intakes, Intake(i) PROVE TypeOK'
  <2> DEFINE receipt == [NoOperation EXCEPT !.status = "pending", !.intake = i]
  <2>1. i.operation \in Operations
    OBVIOUS
  <2>2. NoOperation \in Operation
    BY DEF NoOperation, Operation, Status
  <2>3. receipt \in Operation /\ receipt.intake = i
    BY <2>2 DEF Operation, Status, Outstanding
  <2>4. ops' = [ops EXCEPT ![i.operation] = receipt]
    BY <1>1 DEF Intake
  <2>5. OpsTyped'
    <3> HIDE DEF receipt
    <3> QED BY <2>1, <2>3, <2>4, ReceiptWrite
  <2> QED BY <1>1, <2>5 DEF Intake, TypeOK, OpsTyped, IndexTypeOK, indexVars
<1>2. ASSUME NEW a \in Actors, NEW b \in Branches, NEW r \in Maybe(Revisions),
             NEW u \in BOOLEAN, ObserveHead(a, b, r, u)
      PROVE  TypeOK'
  <2>1. (IF r = None THEN 0 ELSE accepted[r].sequence) \in Nat
    BY DEF TypeOK, IndexTypeOK, AcceptedRow
  <2>2. heads' \in [Branches -> Head]
    BY <1>2, <2>1 DEF ObserveHead, ObserveBranchHead, TypeOK, IndexTypeOK, Head
  <2> QED BY <1>2, <2>2 DEF ObserveHead, ObserveBranchHead, TypeOK, IndexTypeOK, storeVars
<1>3. ASSUME NEW a \in Actors, NEW t \in Actors, NEW permissions \in SUBSET Permissions,
             SetGrant(a, t, permissions)
      PROVE  TypeOK'
  BY <1>3 DEF SetGrant, TypeOK, IndexTypeOK, indexVars
<1>4. ASSUME NEW r \in Revisions, LeaseExpires(r) PROVE TypeOK'
  <2> DEFINE job == [jobs[r] EXCEPT !.live = FALSE]
  <2>1. job \in Job
    <3>1. jobs[r] \in Job
      BY DEF TypeOK, IndexTypeOK
    <3> QED BY <3>1 DEF Job
  <2>2. jobs' = [jobs EXCEPT ![r] = job]
    BY <1>4 DEF LeaseExpires, ExpireLease, TypeOK, IndexTypeOK
  <2>3. jobs' \in [Revisions -> Job]
    <3> HIDE DEF job
    <3> QED BY <2>1, <2>2 DEF TypeOK, IndexTypeOK
  <2> QED BY <1>4, <2>3 DEF LeaseExpires, ExpireLease, TypeOK, IndexTypeOK, storeVars
<1> QED BY <1>1, <1>2, <1>3, <1>4

\* No step takes the store out of its types.
LEMMA TypeStep == TypeOK /\ [Next]_vars => TypeOK'
<1> SUFFICES ASSUME TypeOK, [Next]_vars PROVE TypeOK'
  OBVIOUS
<1>1. CASE Next
  BY <1>1, DispatchType, IndexType, OtherType DEF Next
<1>2. CASE UNCHANGED vars
  BY <1>2 DEF vars, storeVars, indexVars, TypeOK, IndexTypeOK
<1> QED BY <1>1, <1>2

(***************************************************************************)
(* Every table keeps its declared types and every counter stays within its *)
(* bound: a fence, a generation or an attempt at its limit is refused and  *)
(* never wraps or overflows, for any bounds.                               *)
(***************************************************************************)
THEOREM TypeCorrect == Spec => []TypeOK
BY InitType, TypeStep, PTL DEF Spec
-----------------------------------------------------------------------------
\* A row is written for the first time by intake.
Untouched == \A o \in Operations : ~Exists(o) => ops[o].token = 0 /\ ops[o].revision = None

(***************************************************************************)
(* The invariant behind the dispatch protocol.  Readable alone is not      *)
(* inductive: releasing a branch is harmless to the other operations only  *)
(* because the one active operation is the only unresolved one, and a new  *)
(* fence is unused only because every token is at most the branch fence.   *)
(***************************************************************************)
DispatchInv ==
  /\ TypeOK
  /\ Untouched
  /\ Readable
  /\ ReservationBacked
  /\ TokensUnique
  /\ CommitJustified

\* Nothing is reserved at first.
LEMMA InitDispatch == Init => DispatchInv
<1> SUFFICES ASSUME Init PROVE DispatchInv
  OBVIOUS
<1>1. TypeOK
  BY InitType
<1>2. \A o \in Operations : /\ ops[o].status = "absent"
                          /\ ops[o].token = 0
                          /\ ops[o].revision = None
                          /\ ops[o].observedExisting = FALSE
                          /\ ops[o].sendAuthorized = FALSE
  BY DEF Init, NoOperation
<1>3. \A b \in Branches : active[b] = None
  BY DEF Init
<1> QED BY <1>1, <1>2, <1>3 DEF DispatchInv, Untouched, Readable, ReservationBacked,
        TokensUnique, CommitJustified, Exists, Rejections, Accepted

\* What a step on operation o leaves alone: the other receipts and the identity of o.
OthersKept(o) ==
  /\ \A p \in Operations : p # o => ops'[p] = ops[p]
  /\ ops'[o].intake = ops[o].intake

(***************************************************************************)
(* The dispatch part of the invariant survives the release of the branch   *)
(* by the operation that holds it, with a rejection or a commit.           *)
(***************************************************************************)
LEMMA ReleaseKeepsDispatch ==
  ASSUME DispatchInv, TypeOK', NEW o \in Operations, HoldsToken(o, ops[o].token), OthersKept(o),
         ops'[o].token = ops[o].token, UNCHANGED fences,
         active' = [active EXCEPT ![BranchOf(o)] = None],
         ops'[o].status \in Rejections \union Accepted,
         ops'[o].status \in Accepted <=> ops'[o].revision # None
  PROVE  Untouched' /\ Readable' /\ ReservationBacked' /\ TokensUnique'
<1> DEFINE b == BranchOf(o)
<1>1. b \in Branches /\ Exists(o) /\ active[b] = o /\ ops[o].token # 0
  BY BranchType DEF DispatchInv, HoldsToken
<1>2. \A p \in Operations : Exists(p) => BranchOf(p) \in Branches
  BY BranchType DEF DispatchInv
<1>3. \A p \in Operations : BranchOf(p)' = BranchOf(p)
  BY DEF OthersKept, BranchOf
<1>4. Exists(o)' /\ ~Unresolved(o)' /\ ops'[o].status # "ambiguous"
  BY DEF Exists, Unresolved, Rejections, Accepted, Outstanding
<1>5. \A p \in Operations : p # o => (Exists(p)' <=> Exists(p)) /\ (Unresolved(p)' <=> Unresolved(p))
  BY DEF OthersKept, Exists, Unresolved
<1>6. \A c \in Branches : active'[c] = IF c = b THEN None ELSE active[c]
  BY <1>1 DEF DispatchInv, TypeOK
<1>7. \A p \in Operations : Unresolved(p) /\ p # o => BranchOf(p) # b
  <2> SUFFICES ASSUME NEW p \in Operations, Unresolved(p), p # o, BranchOf(p) = b PROVE FALSE
    OBVIOUS
  <2>1. Exists(p)
    BY DEF Unresolved, Exists, Outstanding
  <2> QED BY <1>1, <2>1 DEF DispatchInv, Readable
<1>8. Untouched'
  BY <1>4, <1>5 DEF DispatchInv, Untouched, OthersKept
<1>9. Readable'
  <2> SUFFICES ASSUME NEW p \in Operations, Exists(p)'
               PROVE  /\ ops'[p].token <= fences'[BranchOf(p)']
                      /\ Unresolved(p)' => /\ ops'[p].token = fences'[BranchOf(p)']
                                           /\ active'[BranchOf(p)'] = p
                      /\ ops'[p].status = "ambiguous" => ops'[p].token # 0
                      /\ ops'[p].status \in Accepted => ops'[p].token # 0
                      /\ ops'[p].status \in Accepted <=> ops'[p].revision # None
    BY DEF Readable
  <2>1. CASE p = o
    BY <1>1, <1>3, <1>4, <2>1 DEF DispatchInv, Readable
  <2>2. CASE p # o
    <3>1. Exists(p) /\ ops'[p] = ops[p] /\ BranchOf(p) \in Branches
      BY <1>2, <1>5, <2>2 DEF OthersKept
    <3> QED BY <1>3, <1>5, <1>6, <1>7, <2>2, <3>1 DEF DispatchInv, Readable
  <2> QED BY <2>1, <2>2
<1>10. ReservationBacked'
  <2> SUFFICES ASSUME NEW c \in Branches, active'[c] # None
               PROVE  Unresolved(active[c])' /\ BranchOf(active[c])' = c
    BY DEF ReservationBacked
  <2>1. c # b /\ active'[c] = active[c] /\ active[c] \in Operations
    BY <1>6 DEF DispatchInv, TypeOK
  <2>2. Unresolved(active[c]) /\ BranchOf(active[c]) = c
    BY <2>1 DEF DispatchInv, ReservationBacked
  <2>3. active[c] # o
    BY <2>1, <2>2
  <2> QED BY <1>3, <1>5, <2>1, <2>2, <2>3
<1>11. TokensUnique'
  <2>1. \A p \in Operations : ops'[p].token = ops[p].token
    BY DEF OthersKept
  <2> QED BY <1>3, <2>1 DEF DispatchInv, TokensUnique
<1> QED BY <1>8, <1>9, <1>10, <1>11

\* It survives a step that neither takes nor releases a branch.
LEMMA KeepingKeepsDispatch ==
  ASSUME DispatchInv, TypeOK', UNCHANGED <<fences, active>>,
         \A p \in Operations :
           /\ ops'[p].token = ops[p].token
           /\ Exists(p) => Exists(p)' /\ ops'[p].intake = ops[p].intake
           /\ Unresolved(p)' <=> Unresolved(p)
           /\ ops'[p].status = "ambiguous" => ops'[p].token # 0
           /\ ops'[p].status \in Accepted => ops'[p].token # 0
           /\ ops'[p].status \in Accepted <=> ops'[p].revision # None
  PROVE  Untouched' /\ Readable' /\ ReservationBacked' /\ TokensUnique'
<1>1. \A p \in Operations : Exists(p) => BranchOf(p)' = BranchOf(p)
  BY DEF BranchOf
<1>2. \A p \in Operations : ops[p].token # 0 => Exists(p)
  BY DEF DispatchInv, Untouched
<1>3. Untouched'
  BY DEF DispatchInv, Untouched, Exists, Accepted
<1>4. Readable'
  <2> SUFFICES ASSUME NEW p \in Operations, Exists(p)'
               PROVE  /\ ops'[p].token <= fences'[BranchOf(p)']
                      /\ Unresolved(p)' => /\ ops'[p].token = fences'[BranchOf(p)']
                                           /\ active'[BranchOf(p)'] = p
    BY DEF Readable
  <2>1. CASE Exists(p)
    BY <1>1, <2>1 DEF DispatchInv, Readable
  <2>2. CASE ~Exists(p)
    <3>1. ops'[p].token = 0
      BY <2>2 DEF DispatchInv, Untouched
    <3>2. ops'[p].intake \in Intakes /\ fences' \in [Branches -> 0..FenceMax]
      BY DEF TypeOK, Exists
    <3>3. BranchOf(p)' \in Branches
      BY <3>2, StoreAssumption DEF BranchOf
    <3>4. fences'[BranchOf(p)'] \in 0..FenceMax
      BY <3>2, <3>3
    <3> QED BY <3>1, <3>4, IndexAssumption DEF Unresolved
  <2> QED BY <2>1, <2>2
<1>5. ReservationBacked'
  <2> SUFFICES ASSUME NEW c \in Branches, active[c] # None
               PROVE  Unresolved(active[c])' /\ BranchOf(active[c])' = c
    BY DEF ReservationBacked
  <2>1. active[c] \in Operations /\ Unresolved(active[c]) /\ BranchOf(active[c]) = c
    BY DEF DispatchInv, ReservationBacked, TypeOK
  <2>2. Exists(active[c])
    BY <2>1 DEF Unresolved, Exists, Outstanding
  <2>3. Unresolved(active[c])' /\ BranchOf(active[c])' = BranchOf(active[c])
    BY <1>1, <2>1, <2>2 DEF Unresolved, BranchOf
  <2> QED BY <2>1, <2>3
<1>6. TokensUnique'
  BY <1>1, <1>2 DEF DispatchInv, TokensUnique
<1> QED BY <1>3, <1>4, <1>5, <1>6

\* And the taking of a free branch under a new fence.
LEMMA ReserveKeepsDispatch ==
  ASSUME DispatchInv, TypeOK', NEW a \in Actors, NEW o \in Operations, NEW g, Reserve(a, o, g)
  PROVE  Untouched' /\ Readable' /\ ReservationBacked' /\ TokensUnique'
<1> USE StoreAssumption, IndexAssumption
<1> DEFINE b == BranchOf(o)
           f == fences[b] + 1
<1>1. /\ ops[o].status = "pending" /\ ops[o].token = 0
      /\ active[b] = None
      /\ \A p \in Operations : Unresolved(p) => BranchOf(p) # b
      /\ f <= FenceMax
      /\ ops' = [ops EXCEPT ![o] = [ops[o] EXCEPT !.token = f, !.generation = g + 1]]
      /\ fences' = [fences EXCEPT ![b] = f]
      /\ active' = [active EXCEPT ![b] = o]
  BY DEF Reserve
<1>2. Exists(o) /\ b \in Branches
  BY <1>1, BranchType DEF Exists, DispatchInv
<1>3. f \in Nat \ {0} /\ fences[b] \in Nat
  BY <1>2 DEF DispatchInv, TypeOK
<1>4. /\ ops'[o].token = f /\ ops'[o].status = "pending" /\ ops'[o].intake = ops[o].intake
      /\ ops'[o].revision = ops[o].revision
      /\ \A p \in Operations : p # o => ops'[p] = ops[p]
  BY <1>1 DEF DispatchInv, TypeOK, Operation
<1>5. \A p \in Operations : p # o => (Exists(p)' <=> Exists(p)) /\ (Unresolved(p)' <=> Unresolved(p))
  BY <1>4 DEF Exists, Unresolved
<1>5a. \A p \in Operations : BranchOf(p)' = BranchOf(p)
  BY <1>4 DEF BranchOf
<1>6. \A c \in Branches : /\ fences'[c] = IF c = b THEN f ELSE fences[c]
                        /\ active'[c] = IF c = b THEN o ELSE active[c]
  BY <1>1 DEF DispatchInv, TypeOK
<1>7. Unresolved(o)' /\ Exists(o)'
  BY <1>3, <1>4 DEF Unresolved, Outstanding, Exists
<1> HIDE DEF f, b
<1>8. Untouched'
  BY <1>4, <1>7, <1>5, <1>5a DEF DispatchInv, Untouched
<1>9. \A p \in Operations : Exists(p) /\ BranchOf(p) = b => ops[p].token < f
  BY <1>2, <1>3 DEF DispatchInv, Readable, TypeOK, Operation, f
<1>10. Readable'
  <2> SUFFICES ASSUME NEW p \in Operations, Exists(p)'
               PROVE  /\ ops'[p].token <= fences'[BranchOf(p)']
                      /\ Unresolved(p)' => /\ ops'[p].token = fences'[BranchOf(p)']
                                           /\ active'[BranchOf(p)'] = p
                      /\ ops'[p].status = "ambiguous" => ops'[p].token # 0
                      /\ ops'[p].status \in Accepted => ops'[p].token # 0
                      /\ ops'[p].status \in Accepted <=> ops'[p].revision # None
    BY DEF Readable
  <2>1. CASE p = o
    <3>1. ops[o].revision = None
      BY <1>1, <1>2 DEF DispatchInv, Readable, Accepted
    <3> QED BY <1>2, <1>3, <1>4, <1>5, <1>5a, <1>6, <2>1, <3>1 DEF Accepted, b
  <2>2. CASE p # o
    <3>1. Exists(p) /\ ops'[p] = ops[p] /\ BranchOf(p) \in Branches /\ BranchOf(p)' = BranchOf(p)
      BY <1>4, <1>5, <1>5a, <2>2, BranchType DEF DispatchInv
    <3>2. ops'[p].token <= fences'[BranchOf(p)]
      <4>1. CASE BranchOf(p) = b
        BY <1>3, <1>6, <1>9, <3>1, <4>1 DEF DispatchInv, TypeOK, Operation
      <4>2. CASE BranchOf(p) # b
        BY <1>6, <3>1, <4>2 DEF DispatchInv, Readable
      <4> QED BY <4>1, <4>2
    <3>3. Unresolved(p)' => BranchOf(p) # b
      BY <1>1, <1>5, <1>5a, <2>2
    <3> QED BY <1>5, <1>5a, <1>6, <2>2, <3>1, <3>2, <3>3 DEF DispatchInv, Readable
  <2> QED BY <2>1, <2>2
<1>11. ReservationBacked'
  <2> SUFFICES ASSUME NEW c \in Branches, active'[c] # None
               PROVE  Unresolved(active[c])' /\ BranchOf(active[c])' = c
    BY DEF ReservationBacked
  <2>1. CASE c = b
    BY <1>2, <1>5, <1>5a, <1>6, <1>7, <2>1 DEF b
  <2>2. CASE c # b
    <3>1. active'[c] = active[c] /\ active[c] \in Operations
      BY <1>6, <2>2 DEF DispatchInv, TypeOK
    <3>2. Unresolved(active[c]) /\ BranchOf(active[c]) = c
      BY <3>1 DEF DispatchInv, ReservationBacked
    <3>3. active[c] # o
      BY <2>2, <3>2 DEF b
    <3> QED BY <1>5, <1>5a, <3>1, <3>2, <3>3
  <2> QED BY <2>1, <2>2
<1>12. TokensUnique'
  <2> SUFFICES ASSUME NEW p \in Operations, NEW q \in Operations,
                      ops'[p].token # 0, ops'[p].token = ops'[q].token,
                      BranchOf(p) = BranchOf(q), p # q
               PROVE  FALSE
    BY <1>5, <1>5a DEF TokensUnique
  <2>1. \A r \in Operations : ops[r].token # 0 /\ BranchOf(r) = b => ops[r].token < f
    BY <1>9 DEF DispatchInv, Untouched
  <2>2. CASE p = o
    BY <1>3, <1>4, <2>1, <2>2 DEF b
  <2>3. CASE q = o
    BY <1>3, <1>4, <2>1, <2>3 DEF b
  <2>4. CASE p # o /\ q # o
    BY <1>4, <2>4 DEF DispatchInv, TokensUnique
  <2> QED BY <2>2, <2>3, <2>4
<1> QED BY <1>8, <1>10, <1>11, <1>12

\* Every step of the dispatch protocol on one operation keeps the invariant.
LEMMA DispatchStepKeeps ==
  ASSUME DispatchInv, TypeOK', NEW a \in Actors, NEW o \in Operations, DispatchStep(a, o)
  PROVE  DispatchInv'
<1> USE StoreAssumption
<1> DEFINE Protocol == Untouched' /\ Readable' /\ ReservationBacked' /\ TokensUnique'
           op == ops[o]
<1> SUFFICES Protocol /\ CommitJustified'
  BY DEF DispatchInv
<1>1. PICK g \in {ops[o].generation}, f \in {ops[o].token} :
        \/ Reserve(a, o, g)
        \/ \E status \in Rejections : \/ RejectBeforeDispatch(a, o, g, status)
                                    \/ CancelReserved(a, o, f, g, status)
        \/ \E c \in Candidates : Prepare(a, o, f, g, c)
        \/ \E requirePrepared \in BOOLEAN : AuthorizeSend(a, o, f, g, requirePrepared)
        \/ MarkAmbiguous(a, o, f, g)
        \/ \E r \in Revisions, observed \in BOOLEAN : RecordCommit(a, o, f, g, r, observed)
        \/ RecordIndex(a, o, g)
  BY DEF DispatchStep, Evidence
<1>2. /\ op \in Operation /\ f = op.token
      /\ \A p \in Operations : ops[p] \in Operation
      /\ op.status \in {"pending", "ambiguous"} => op.revision = None /\ ~op.observedExisting
      /\ op.status = "committed" => op.revision # None /\ op.token # 0
      /\ op.sendAuthorized => op.token # 0
  BY DEF DispatchInv, TypeOK, Readable, CommitJustified, Exists, Accepted
\* For a step that writes one receipt and keeps its token, the other receipts are old facts.
<1>3. ASSUME OthersKept(o), UNCHANGED <<fences, active>>,
             ops'[o].token = op.token, Exists(o), Exists(o)',
             Unresolved(o)' <=> Unresolved(o),
             ops'[o].status = "ambiguous" => op.token # 0,
             ops'[o].status \in Accepted => op.token # 0,
             ops'[o].status \in Accepted <=> ops'[o].revision # None
      PROVE  Protocol
  <2>1. ASSUME NEW p \in Operations
        PROVE  /\ ops'[p].token = ops[p].token
               /\ Exists(p) => Exists(p)' /\ ops'[p].intake = ops[p].intake
               /\ Unresolved(p)' <=> Unresolved(p)
               /\ ops'[p].status = "ambiguous" => ops'[p].token # 0
               /\ ops'[p].status \in Accepted => ops'[p].token # 0
               /\ ops'[p].status \in Accepted <=> ops'[p].revision # None
    <3>1. CASE p = o
      BY <1>3, <3>1 DEF OthersKept
    <3>2. CASE p # o
      <4>1. ops'[p] = ops[p]
        BY <1>3, <3>2 DEF OthersKept
      <4>2. (Exists(p)' <=> Exists(p)) /\ (Unresolved(p)' <=> Unresolved(p))
        BY <4>1 DEF Exists, Unresolved
      <4>3. Exists(p) => /\ ops[p].status = "ambiguous" => ops[p].token # 0
                         /\ ops[p].status \in Accepted => ops[p].token # 0
                         /\ ops[p].status \in Accepted <=> ops[p].revision # None
        BY DEF DispatchInv, Readable
      <4>4. ~Exists(p) => ops[p].status = "absent" /\ ops[p].revision = None
        BY DEF DispatchInv, Untouched, Exists
      <4> QED BY <4>1, <4>2, <4>3, <4>4 DEF Accepted
    <3> QED BY <3>1, <3>2
  <2> QED BY <1>3, <2>1, KeepingKeepsDispatch
<1>4. ASSUME OthersKept(o),
             ops'[o].status \in Accepted => (ops'[o].sendAuthorized <=> ~ops'[o].observedExisting),
             ops'[o].observedExisting => ops'[o].status \in Accepted,
             ops'[o].status \in Rejections => ~ops'[o].sendAuthorized,
             ops'[o].sendAuthorized => ops'[o].token # 0
      PROVE  CommitJustified'
  BY <1>4 DEF OthersKept, DispatchInv, CommitJustified
<1>5. CASE Reserve(a, o, g)
  <2>1. Protocol
    BY <1>5, ReserveKeepsDispatch
  <2>2. /\ ops[o].status = "pending"
        /\ ops' = [ops EXCEPT ![o] = [ops[o] EXCEPT !.token = fences[BranchOf(o)] + 1,
                                                  !.generation = g + 1]]
    BY <1>5 DEF Reserve
  <2>3. /\ OthersKept(o) /\ ops'[o].status = "pending"
        /\ ops'[o].observedExisting = op.observedExisting
        /\ ops'[o].sendAuthorized = op.sendAuthorized
    BY <1>2, <2>2 DEF OthersKept, DispatchInv, TypeOK, Operation
  <2>4. ~op.sendAuthorized
    BY <1>2, <1>5 DEF Reserve
  <2> QED BY <1>2, <1>4, <2>1, <2>2, <2>3, <2>4 DEF Accepted, Rejections
<1>6. ASSUME NEW status \in Rejections, RejectBeforeDispatch(a, o, g, status)
      PROVE  Protocol /\ CommitJustified'
  <2>1. /\ op.status = "pending" /\ op.token = 0
        /\ ops' = [ops EXCEPT ![o] = [ops[o] EXCEPT !.status = status, !.generation = g + 1]]
        /\ UNCHANGED <<fences, active>>
    BY <1>6 DEF RejectBeforeDispatch
  <2>2. /\ OthersKept(o) /\ ops'[o].status = status /\ ops'[o].token = op.token
        /\ ops'[o].observedExisting = op.observedExisting /\ ops'[o].revision = op.revision
        /\ ops'[o].sendAuthorized = op.sendAuthorized
    BY <1>2, <2>1 DEF OthersKept, DispatchInv, TypeOK, Operation
  <2>3. Exists(o) /\ Exists(o)' /\ ~Unresolved(o) /\ ~Unresolved(o)'
    BY <2>1, <2>2 DEF Exists, Unresolved, Rejections
  <2>4. status \notin Accepted /\ status # "ambiguous"
    BY DEF Accepted, Rejections
  <2>5. ~op.sendAuthorized
    BY <2>1 DEF DispatchInv, CommitJustified
  <2> QED BY <1>2, <1>3, <1>4, <2>1, <2>2, <2>3, <2>4, <2>5
<1>7. ASSUME NEW status \in Rejections, CancelReserved(a, o, f, g, status)
      PROVE  Protocol /\ CommitJustified'
  <2>1. /\ op.status = "pending" /\ ~op.sendAuthorized
        /\ HoldsToken(o, f)
        /\ ops' = [ops EXCEPT ![o] = [ops[o] EXCEPT !.status = status, !.generation = g + 1]]
        /\ active' = [active EXCEPT ![BranchOf(o)] = None]
        /\ UNCHANGED fences
    BY <1>7 DEF CancelReserved
  <2>2. /\ OthersKept(o) /\ ops'[o].status = status /\ ops'[o].token = op.token
        /\ ops'[o].observedExisting = op.observedExisting /\ ops'[o].revision = op.revision
        /\ ops'[o].sendAuthorized = op.sendAuthorized
    BY <1>2, <2>1 DEF OthersKept, DispatchInv, TypeOK, Operation
  <2>3. status \notin Accepted
    BY DEF Accepted, Rejections
  <2>4. Protocol
    BY <1>2, <2>1, <2>2, <2>3, ReleaseKeepsDispatch
  <2> QED BY <1>2, <1>4, <2>1, <2>2, <2>3, <2>4
<1>8. ASSUME NEW c \in Candidates, Prepare(a, o, f, g, c)
      PROVE  Protocol /\ CommitJustified'
  <2>1. /\ op.status = "pending" /\ HoldsToken(o, f)
        /\ ops' = [ops EXCEPT ![o] = [ops[o] EXCEPT !.candidate = c, !.generation = g + 1]]
        /\ UNCHANGED <<fences, active>>
    BY <1>8 DEF Prepare
  <2>2. /\ OthersKept(o) /\ ops'[o].status = op.status /\ ops'[o].token = op.token
        /\ ops'[o].observedExisting = op.observedExisting /\ ops'[o].revision = op.revision
        /\ ops'[o].sendAuthorized = op.sendAuthorized
    BY <1>2, <2>1 DEF OthersKept, DispatchInv, TypeOK, Operation
  <2>3. Exists(o) /\ Exists(o)' /\ (Unresolved(o)' <=> Unresolved(o))
    BY <2>1, <2>2 DEF Exists, Unresolved
  <2>4. op.status \notin Accepted /\ op.status \notin Rejections /\ op.status # "ambiguous"
    BY <2>1 DEF Accepted, Rejections
  <2> QED BY <1>2, <1>3, <1>4, <2>1, <2>2, <2>3, <2>4
<1>9. ASSUME NEW requirePrepared \in BOOLEAN, AuthorizeSend(a, o, f, g, requirePrepared)
      PROVE  Protocol /\ CommitJustified'
  <2>1. /\ op.status = "pending" /\ HoldsToken(o, f)
        /\ ops' = [ops EXCEPT ![o] = [ops[o] EXCEPT !.sendAuthorized = TRUE,
                                                  !.generation = g + 1]]
        /\ UNCHANGED <<fences, active>>
    BY <1>9 DEF AuthorizeSend
  <2>2. /\ OthersKept(o) /\ ops'[o].status = op.status /\ ops'[o].token = op.token
        /\ ops'[o].observedExisting = op.observedExisting /\ ops'[o].revision = op.revision
    BY <1>2, <2>1 DEF OthersKept, DispatchInv, TypeOK, Operation
  <2>3. Exists(o) /\ Exists(o)' /\ (Unresolved(o)' <=> Unresolved(o))
    BY <2>1, <2>2 DEF Exists, Unresolved
  <2>4. op.status \notin Accepted /\ op.status \notin Rejections /\ op.status # "ambiguous"
    BY <2>1 DEF Accepted, Rejections
  <2>5. op.token # 0
    BY <1>2, <2>1 DEF HoldsToken
  <2> QED BY <1>2, <1>3, <1>4, <2>1, <2>2, <2>3, <2>4, <2>5
<1>10. CASE MarkAmbiguous(a, o, f, g)
  <2>1. /\ op.status = "pending" /\ HoldsToken(o, f)
        /\ ops' = [ops EXCEPT ![o] = [ops[o] EXCEPT !.status = "ambiguous",
                                                  !.generation = g + 1]]
        /\ UNCHANGED <<fences, active>>
    BY <1>10 DEF MarkAmbiguous
  <2>2. /\ OthersKept(o) /\ ops'[o].status = "ambiguous" /\ ops'[o].token = op.token
        /\ ops'[o].observedExisting = op.observedExisting /\ ops'[o].revision = op.revision
    BY <1>2, <2>1 DEF OthersKept, DispatchInv, TypeOK, Operation
  <2>3. /\ Exists(o) /\ Exists(o)' /\ (Unresolved(o)' <=> Unresolved(o))
        /\ op.token # 0
    BY <1>2, <2>1, <2>2 DEF Exists, Unresolved, Outstanding, HoldsToken
  <2>4. "ambiguous" \notin Accepted /\ "ambiguous" \notin Rejections
    BY DEF Accepted, Rejections
  <2> QED BY <1>2, <1>3, <1>4, <2>1, <2>2, <2>3, <2>4
<1>11. ASSUME NEW r \in Revisions, NEW observed \in BOOLEAN,
              RecordCommit(a, o, f, g, r, observed)
       PROVE  Protocol /\ CommitJustified'
  <2> DEFINE status == IF op.candidate # None /\ IsPublished(r) THEN "indexed" ELSE "committed"
             seen == op.observedExisting \/ observed
  <2>1. /\ op.status \in Outstanding /\ HoldsToken(o, f)
        /\ observed => ~op.sendAuthorized
        /\ op.sendAuthorized \/ seen
        /\ ops' = [ops EXCEPT ![o] = [ops[o] EXCEPT !.status = status, !.revision = r,
                                        !.observedExisting = seen, !.generation = g + 1]]
        /\ active' = [active EXCEPT ![BranchOf(o)] = None]
        /\ UNCHANGED fences
    BY <1>11 DEF RecordCommit
  <2>2. status \in Accepted /\ status \notin Rejections
    BY DEF Accepted, Rejections
  <2> HIDE DEF status, seen
  <2>3. /\ OthersKept(o) /\ ops'[o].status = status /\ ops'[o].token = op.token
        /\ ops'[o].observedExisting = seen /\ ops'[o].revision = r
        /\ ops'[o].sendAuthorized = op.sendAuthorized
    BY <1>2, <2>1 DEF OthersKept, DispatchInv, TypeOK, Operation
  <2>4. r # None
    BY IndexAssumption
  <2>5. Protocol
    BY <1>2, <2>1, <2>2, <2>3, <2>4, ReleaseKeepsDispatch
  <2>6. op.sendAuthorized <=> ~seen
    BY <1>2, <2>1 DEF seen, Outstanding, Operation
  <2> QED BY <1>2, <1>4, <2>2, <2>3, <2>5, <2>6
<1>12. CASE RecordIndex(a, o, g)
  <2>1. /\ op.status = "committed"
        /\ ops' = [ops EXCEPT ![o] = [ops[o] EXCEPT !.status = "indexed",
                                                  !.generation = g + 1]]
        /\ UNCHANGED <<fences, active>>
    BY <1>12 DEF RecordIndex
  <2>2. /\ OthersKept(o) /\ ops'[o].status = "indexed" /\ ops'[o].token = op.token
        /\ ops'[o].observedExisting = op.observedExisting /\ ops'[o].revision = op.revision
        /\ ops'[o].sendAuthorized = op.sendAuthorized
    BY <1>2, <2>1 DEF OthersKept, DispatchInv, TypeOK, Operation
  <2>3. Exists(o) /\ Exists(o)' /\ ~Unresolved(o) /\ ~Unresolved(o)'
    BY <2>1, <2>2 DEF Exists, Unresolved, Outstanding
  <2>4. {"committed", "indexed"} \subseteq Accepted /\ "indexed" \notin Rejections
    BY DEF Accepted, Rejections
  <2>5. op.sendAuthorized <=> ~op.observedExisting
    BY <2>1, <2>4 DEF DispatchInv, CommitJustified
  <2> QED BY <1>2, <1>3, <1>4, <2>1, <2>2, <2>3, <2>4, <2>5
<1> QED BY <1>1, <1>5, <1>6, <1>7, <1>8, <1>9, <1>10, <1>11, <1>12

\* The other steps leave branches alone; publication only turns committed into indexed.
LEMMA OtherStepKeeps ==
  ASSUME DispatchInv, TypeOK', UNCHANGED <<fences, active>>,
         \A p \in Operations :
           \/ ops'[p] = ops[p]
           \/ /\ ~Exists(p) /\ Exists(p)'
              /\ ops'[p].status = "pending" /\ ops'[p].token = 0 /\ ops'[p].revision = None
              /\ ~ops'[p].sendAuthorized /\ ~ops'[p].observedExisting
           \/ /\ ops[p].status = "committed" /\ ops'[p].status = "indexed"
              /\ ops'[p].token = ops[p].token /\ ops'[p].intake = ops[p].intake
              /\ ops'[p].revision = ops[p].revision
              /\ ops'[p].sendAuthorized = ops[p].sendAuthorized
              /\ ops'[p].observedExisting = ops[p].observedExisting
  PROVE  DispatchInv'
<1>1. ASSUME NEW p \in Operations
      PROVE  /\ ops'[p].token = ops[p].token
             /\ Exists(p) => Exists(p)' /\ ops'[p].intake = ops[p].intake
             /\ Unresolved(p)' <=> Unresolved(p)
             /\ ops'[p].status = "ambiguous" => ops'[p].token # 0
             /\ ops'[p].status \in Accepted => ops'[p].token # 0
             /\ ops'[p].status \in Accepted <=> ops'[p].revision # None
  <2>1. /\ Exists(p) => /\ ops[p].status = "ambiguous" => ops[p].token # 0
                        /\ ops[p].status \in Accepted => ops[p].token # 0
                        /\ ops[p].status \in Accepted <=> ops[p].revision # None
        /\ ~Exists(p) => /\ ops[p].status = "absent"
                         /\ ops[p].token = 0 /\ ops[p].revision = None
    BY DEF DispatchInv, Readable, Untouched, Exists
  <2>2. CASE ops'[p] = ops[p]
    <3>1. (Exists(p)' <=> Exists(p)) /\ (Unresolved(p)' <=> Unresolved(p))
      BY <2>2 DEF Exists, Unresolved
    <3> QED BY <2>1, <2>2, <3>1 DEF Accepted
  <2>3. CASE ~Exists(p) /\ Exists(p)'
    BY <2>1, <2>3 DEF Accepted, Unresolved, Exists
  <2>4. CASE ops[p].status = "committed" /\ ops'[p].status = "indexed" /\ ops'[p] # ops[p]
    <3>1. Exists(p) /\ Exists(p)' /\ ~Unresolved(p) /\ ~Unresolved(p)'
      BY <2>4 DEF Exists, Unresolved, Outstanding
    <3> QED BY <2>1, <2>4, <3>1 DEF Accepted
  <2> QED BY <2>2, <2>3, <2>4
<1>2. Untouched' /\ Readable' /\ ReservationBacked' /\ TokensUnique'
  BY <1>1, KeepingKeepsDispatch
<1>3. CommitJustified'
  <2> SUFFICES ASSUME NEW p \in Operations
               PROVE  /\ ops'[p].status \in Accepted
                           => (ops'[p].sendAuthorized <=> ~ops'[p].observedExisting)
                      /\ ops'[p].observedExisting => ops'[p].status \in Accepted
                      /\ ops'[p].status \in Rejections => ~ops'[p].sendAuthorized
                      /\ ops'[p].sendAuthorized => ops'[p].token # 0
    BY DEF CommitJustified
  <2> QED BY DEF DispatchInv, CommitJustified, Accepted, Rejections
<1> QED BY <1>2, <1>3 DEF DispatchInv

\* Every step keeps the invariant.
LEMMA DispatchInvStep == DispatchInv /\ [Next]_vars => DispatchInv'
<1> USE StoreAssumption
<1> SUFFICES ASSUME DispatchInv, [Next]_vars PROVE DispatchInv'
  OBVIOUS
<1>1. TypeOK'
  BY TypeStep DEF DispatchInv
<1>2. ASSUME NEW a \in Actors, NEW o \in Operations, DispatchStep(a, o) PROVE DispatchInv'
  BY <1>1, <1>2, DispatchStepKeeps
<1>3. ASSUME NEW i \in Intakes, Intake(i) PROVE DispatchInv'
  <2>1. i.operation \in Operations
    OBVIOUS
  <2>2. /\ ~Exists(i.operation) /\ UNCHANGED <<fences, active>>
        /\ ops' = [ops EXCEPT ![i.operation] =
                     [NoOperation EXCEPT !.status = "pending", !.intake = i]]
    BY <1>3 DEF Intake
  <2>3. /\ \A p \in Operations : p # i.operation => ops'[p] = ops[p]
        /\ ops'[i.operation] = [NoOperation EXCEPT !.status = "pending", !.intake = i]
    BY <2>1, <2>2 DEF DispatchInv, TypeOK
  <2>4. /\ ops'[i.operation].status = "pending" /\ ops'[i.operation].token = 0
        /\ ops'[i.operation].revision = None
        /\ ~ops'[i.operation].sendAuthorized /\ ~ops'[i.operation].observedExisting
    BY <2>3 DEF NoOperation
  <2>5. Exists(i.operation)'
    BY <2>4 DEF Exists
  <2> QED BY <1>1, <2>2, <2>3, <2>4, <2>5, OtherStepKeeps
<1>4. ASSUME NEW a \in Actors, NEW r \in Revisions, IndexStep(a, r) PROVE DispatchInv'
  <2>1. CASE \E w \in Workers, f \in {jobs[r].fence} : PublishIndex(a, r, w, f)
    <3>1. /\ UNCHANGED <<fences, active>>
          /\ ops' = [o \in Operations |->
                       IF o \in AwaitingGraph(r)
                       THEN [ops[o] EXCEPT !.status = "indexed", !.generation = @ + 1]
                       ELSE ops[o]]
      BY <2>1 DEF PublishIndex
    <3>2. ASSUME NEW p \in Operations
          PROVE  \/ ops'[p] = ops[p]
                 \/ /\ ops[p].status = "committed" /\ ops'[p].status = "indexed"
                    /\ ops'[p].token = ops[p].token /\ ops'[p].intake = ops[p].intake
                    /\ ops'[p].revision = ops[p].revision
                    /\ ops'[p].sendAuthorized = ops[p].sendAuthorized
                    /\ ops'[p].observedExisting = ops[p].observedExisting
      <4>1. ops[p] \in Operation
        BY DEF DispatchInv, TypeOK
      <4>2. CASE p \in AwaitingGraph(r)
        BY <3>1, <4>1, <4>2 DEF AwaitingGraph, Operation
      <4>3. CASE p \notin AwaitingGraph(r)
        BY <3>1, <4>3
      <4> QED BY <4>2, <4>3
    <3> QED BY <1>1, <3>1, <3>2, OtherStepKeeps
  <2>2. CASE UNCHANGED storeVars
    <3>1. UNCHANGED <<ops, fences, active>>
      BY <2>2 DEF storeVars
    <3> QED BY <1>1, <3>1, OtherStepKeeps
  <2>3. \/ \E w \in Workers, f \in {jobs[r].fence} : PublishIndex(a, r, w, f)
        \/ UNCHANGED storeVars
    BY <1>4 DEF IndexStep, ClaimIndex, SealIndex, RemoveProjection
  <2> QED BY <2>1, <2>2, <2>3
<1>5. CASE UNCHANGED <<ops, fences, active>>
  BY <1>1, <1>5, OtherStepKeeps
<1>6. ASSUME \/ \E a \in Actors, b \in Branches, r \in Maybe(Revisions), u \in BOOLEAN :
                  ObserveHead(a, b, r, u)
             \/ \E a \in Actors, t \in Actors, permissions \in SUBSET Permissions :
                  SetGrant(a, t, permissions)
             \/ \E r \in Revisions : LeaseExpires(r)
             \/ UNCHANGED vars
      PROVE  UNCHANGED <<ops, fences, active>>
  BY <1>6 DEF ObserveHead, SetGrant, LeaseExpires, vars, storeVars
<1> QED BY <1>2, <1>3, <1>4, <1>5, <1>6 DEF Next

(***************************************************************************)
(* The dispatch protocol, for any number of branches, operations and       *)
(* callers: every stored record passes its own checks, a branch is blocked *)
(* only by the one unresolved operation that holds its newest fence, and a *)
(* commit had exactly one justification.                                   *)
(***************************************************************************)
THEOREM DispatchSafe == Spec => [](Readable /\ ReservationBacked /\ TokensUnique /\ CommitJustified)
<1>1. DispatchInv => Readable /\ ReservationBacked /\ TokensUnique /\ CommitJustified
  BY DEF DispatchInv
<1> QED BY <1>1, InitDispatch, DispatchInvStep, PTL DEF Spec
-----------------------------------------------------------------------------
\* The phase of an operation, read off its receipt.
LEMMA PhaseValue ==
  ASSUME NEW o \in Operations
  PROVE  /\ ops[o].status \in Accepted => Phase(o) = "settled"
         /\ ops[o].status \in Rejections => Phase(o) = "released"
         /\ Unresolved(o) /\ ops[o].sendAuthorized => Phase(o) = "sent"
         /\ Unresolved(o) /\ ~ops[o].sendAuthorized => Phase(o) = "holding"
         /\ ops[o].status = "absent" => Phase(o) = "idle"
         /\ ops[o].status = "pending" /\ ops[o].token = 0 => Phase(o) = "idle"
BY DEF Phase, Unresolved, Outstanding, Accepted, Rejections

\* A step that rewrites one receipt moves at most that operation's phase.
LEMMA PhaseOfOthers ==
  ASSUME NEW o \in Operations, OthersKept(o)
  PROVE  [p \in Operations |-> Phase(p)]' =
           [[p \in Operations |-> Phase(p)] EXCEPT ![o] = Phase(o)']
<1>1. ASSUME NEW p \in Operations, p # o PROVE Phase(p)' = Phase(p)
  <2>1. ops'[p] = ops[p]
    BY <1>1 DEF OthersKept
  <2> QED BY <2>1 DEF Phase, Unresolved
<1> QED BY <1>1

\* The initial store is the initial dispatch state.
LEMMA InitRefines == Init => Dispatch!DispatchInit
<1> SUFFICES ASSUME Init PROVE Dispatch!DispatchInit
  OBVIOUS
<1>1. ASSUME NEW o \in Operations PROVE Phase(o) = "idle"
  <2>1. ops[o].status = "absent"
    BY DEF Init, NoOperation
  <2> QED BY <2>1, PhaseValue
<1>2. active = [b \in Branches |-> None]
  BY DEF Init
<1> QED BY <1>1, <1>2 DEF Dispatch!DispatchInit

\* A dispatch step on one operation is a step of the abstract protocol or invisible there.
LEMMA DispatchStepRefines ==
  ASSUME DispatchInv, NEW a \in Actors, NEW o \in Operations, DispatchStep(a, o)
  PROVE  [Dispatch!DispatchNext]_(Dispatch!dispatchVars)
<1> DEFINE phase == [p \in Operations |-> Phase(p)]
           op == ops[o]
<1>1. PICK g \in {ops[o].generation}, f \in {ops[o].token} :
        \/ Reserve(a, o, g)
        \/ \E status \in Rejections : \/ RejectBeforeDispatch(a, o, g, status)
                                    \/ CancelReserved(a, o, f, g, status)
        \/ \E c \in Candidates : Prepare(a, o, f, g, c)
        \/ \E requirePrepared \in BOOLEAN : AuthorizeSend(a, o, f, g, requirePrepared)
        \/ MarkAmbiguous(a, o, f, g)
        \/ \E r \in Revisions, observed \in BOOLEAN : RecordCommit(a, o, f, g, r, observed)
        \/ RecordIndex(a, o, g)
  BY DEF DispatchStep, Evidence
<1>2. op \in Operation /\ ops \in [Operations -> Operation]
  BY DEF DispatchInv, TypeOK
\* The four outcomes a dispatch step can have in the abstract protocol.
<1>3. ASSUME OthersKept(o), UNCHANGED active, Phase(o)' = Phase(o)
      PROVE  UNCHANGED Dispatch!dispatchVars
  <2>1. phase' = phase
    BY <1>3, PhaseOfOthers
  <2> QED BY <1>3, <2>1 DEF Dispatch!dispatchVars
<1>4. ASSUME OthersKept(o), Phase(o) \in {"holding", "sent"}, HoldsToken(o, f),
             active' = [active EXCEPT ![BranchOf(o)] = None],
             Phase(o)' = "settled" \/ (Phase(o) = "holding" /\ Phase(o)' = "released")
      PROVE  Dispatch!DispatchNext
  <2>1. BranchOf(o) \in Branches /\ active[BranchOf(o)] = o
    BY <1>4, BranchType DEF HoldsToken, DispatchInv
  <2>2. phase' = [phase EXCEPT ![o] = Phase(o)'] /\ phase[o] = Phase(o)
    BY <1>4, PhaseOfOthers
  <2>3. CASE Phase(o)' = "settled"
    <3>1. Dispatch!Settle(o, BranchOf(o))
      BY <1>4, <2>1, <2>2, <2>3 DEF Dispatch!Settle
    <3> QED BY <2>1, <3>1 DEF Dispatch!DispatchNext
  <2>4. CASE Phase(o) = "holding" /\ Phase(o)' = "released"
    <3>1. Dispatch!Release(o, BranchOf(o))
      BY <1>4, <2>1, <2>2, <2>4 DEF Dispatch!Release
    <3> QED BY <2>1, <3>1 DEF Dispatch!DispatchNext
  <2> QED BY <1>4, <2>3, <2>4
<1>5. CASE Reserve(a, o, g)
  <2>1. /\ op.status = "pending" /\ op.token = 0 /\ ~op.sendAuthorized
        /\ active[BranchOf(o)] = None /\ active' = [active EXCEPT ![BranchOf(o)] = o]
        /\ ops' = [ops EXCEPT ![o] = [ops[o] EXCEPT !.token = fences[BranchOf(o)] + 1,
                                                  !.generation = g + 1]]
    BY <1>5 DEF Reserve, DispatchInv, CommitJustified
  <2>2. BranchOf(o) \in Branches /\ fences[BranchOf(o)] \in Nat
    BY <2>1, BranchType DEF DispatchInv, TypeOK, Exists
  <2>3. /\ OthersKept(o) /\ ops'[o].status = "pending" /\ ops'[o].token # 0
        /\ ops'[o].sendAuthorized = op.sendAuthorized
    BY <1>2, <2>1, <2>2 DEF OthersKept, Operation
  <2>4. Phase(o) = "idle"
    BY <2>1, PhaseValue
  <2>5. Phase(o)' = "holding"
    BY <2>1, <2>3 DEF Phase, Unresolved, Outstanding, Accepted, Rejections
  <2>6. Dispatch!Acquire(o, BranchOf(o))
    BY <2>1, <2>3, <2>4, <2>5, PhaseOfOthers DEF Dispatch!Acquire
  <2> QED BY <2>2, <2>6 DEF Dispatch!DispatchNext
<1>6. ASSUME NEW status \in Rejections, RejectBeforeDispatch(a, o, g, status)
      PROVE  Dispatch!DispatchNext
  <2>1. /\ op.status = "pending" /\ op.token = 0 /\ UNCHANGED active
        /\ ops' = [ops EXCEPT ![o] = [ops[o] EXCEPT !.status = status, !.generation = g + 1]]
    BY <1>6 DEF RejectBeforeDispatch
  <2>2. OthersKept(o) /\ ops'[o].status = status
    BY <1>2, <2>1 DEF OthersKept, Operation
  <2>3. Phase(o) = "idle"
    BY <2>1, PhaseValue
  <2>4. Phase(o)' = "released"
    BY <2>2 DEF Phase, Unresolved, Outstanding, Accepted, Rejections
  <2>5. Dispatch!Refuse(o)
    BY <2>1, <2>2, <2>3, <2>4, PhaseOfOthers DEF Dispatch!Refuse
  <2> QED BY <2>5 DEF Dispatch!DispatchNext
<1>7. ASSUME NEW status \in Rejections, CancelReserved(a, o, f, g, status)
      PROVE  Dispatch!DispatchNext
  <2>1. /\ op.status = "pending" /\ ~op.sendAuthorized /\ HoldsToken(o, f)
        /\ active' = [active EXCEPT ![BranchOf(o)] = None]
        /\ ops' = [ops EXCEPT ![o] = [ops[o] EXCEPT !.status = status, !.generation = g + 1]]
    BY <1>7 DEF CancelReserved
  <2>2. OthersKept(o) /\ ops'[o].status = status
    BY <1>2, <2>1 DEF OthersKept, Operation
  <2>3. Phase(o) = "holding"
    BY <2>1, PhaseValue DEF HoldsToken, Unresolved, Outstanding
  <2>4. Phase(o)' = "released"
    BY <2>2 DEF Phase, Unresolved, Outstanding, Accepted, Rejections
  <2> QED BY <1>4, <2>1, <2>2, <2>3, <2>4
<1>8. ASSUME NEW c \in Candidates, Prepare(a, o, f, g, c)
      PROVE  UNCHANGED Dispatch!dispatchVars
  <2>1. /\ UNCHANGED active
        /\ ops' = [ops EXCEPT ![o] = [ops[o] EXCEPT !.candidate = c, !.generation = g + 1]]
    BY <1>8 DEF Prepare
  <2>2. /\ OthersKept(o) /\ ops'[o].status = op.status /\ ops'[o].token = op.token
        /\ ops'[o].sendAuthorized = op.sendAuthorized
    BY <1>2, <2>1 DEF OthersKept, Operation
  <2>3. Phase(o)' = Phase(o)
    BY <2>2 DEF Phase, Unresolved
  <2> QED BY <1>3, <2>1, <2>2, <2>3
<1>9. ASSUME NEW requirePrepared \in BOOLEAN, AuthorizeSend(a, o, f, g, requirePrepared)
      PROVE  Dispatch!DispatchNext
  <2>1. /\ op.status = "pending" /\ ~op.sendAuthorized /\ HoldsToken(o, f) /\ UNCHANGED active
        /\ ops' = [ops EXCEPT ![o] = [ops[o] EXCEPT !.sendAuthorized = TRUE,
                                                  !.generation = g + 1]]
    BY <1>9 DEF AuthorizeSend
  <2>2. /\ OthersKept(o) /\ ops'[o].status = "pending" /\ ops'[o].token = op.token
        /\ ops'[o].sendAuthorized
    BY <1>2, <2>1 DEF OthersKept, Operation
  <2>3. Phase(o) = "holding"
    BY <2>1, PhaseValue DEF HoldsToken, Unresolved, Outstanding
  <2>4. Phase(o)' = "sent"
    BY <2>1, <2>2 DEF Phase, HoldsToken, Unresolved, Outstanding, Accepted, Rejections
  <2>5. Dispatch!Send(o)
    BY <2>1, <2>2, <2>3, <2>4, PhaseOfOthers DEF Dispatch!Send
  <2> QED BY <2>5 DEF Dispatch!DispatchNext
<1>10. CASE MarkAmbiguous(a, o, f, g)
  <2>1. /\ op.status = "pending" /\ UNCHANGED active
        /\ ops' = [ops EXCEPT ![o] = [ops[o] EXCEPT !.status = "ambiguous",
                                                  !.generation = g + 1]]
    BY <1>10 DEF MarkAmbiguous
  <2>2. /\ OthersKept(o) /\ ops'[o].status = "ambiguous" /\ ops'[o].token = op.token
        /\ ops'[o].sendAuthorized = op.sendAuthorized
    BY <1>2, <2>1 DEF OthersKept, Operation
  <2>3. Phase(o)' = Phase(o)
    BY <2>1, <2>2 DEF Phase, Unresolved, Outstanding, Accepted, Rejections
  <2> QED BY <1>3, <2>1, <2>2, <2>3
<1>11. ASSUME NEW r \in Revisions, NEW observed \in BOOLEAN,
              RecordCommit(a, o, f, g, r, observed)
       PROVE  Dispatch!DispatchNext
  <2> DEFINE status == IF op.candidate # None /\ IsPublished(r) THEN "indexed" ELSE "committed"
             seen == op.observedExisting \/ observed
  <2>1. /\ op.status \in Outstanding /\ HoldsToken(o, f)
        /\ active' = [active EXCEPT ![BranchOf(o)] = None]
        /\ ops' = [ops EXCEPT ![o] = [ops[o] EXCEPT !.status = status, !.revision = r,
                                        !.observedExisting = seen, !.generation = g + 1]]
    BY <1>11 DEF RecordCommit
  <2>2. status \in Accepted
    BY DEF Accepted
  <2> HIDE DEF status, seen
  <2>3. OthersKept(o) /\ ops'[o].status = status
    BY <1>2, <2>1 DEF OthersKept, Operation
  <2>4. Phase(o) \in {"holding", "sent"}
    BY <2>1, PhaseValue DEF HoldsToken, Unresolved
  <2>5. Phase(o)' = "settled"
    BY <2>2, <2>3 DEF Phase, Unresolved, Outstanding, Accepted, Rejections
  <2> QED BY <1>4, <2>1, <2>3, <2>4, <2>5
<1>12. CASE RecordIndex(a, o, g)
  <2>1. /\ op.status = "committed" /\ UNCHANGED active
        /\ ops' = [ops EXCEPT ![o] = [ops[o] EXCEPT !.status = "indexed",
                                                  !.generation = g + 1]]
    BY <1>12 DEF RecordIndex
  <2>2. OthersKept(o) /\ ops'[o].status = "indexed"
    BY <1>2, <2>1 DEF OthersKept, Operation
  <2>3. Phase(o)' = Phase(o)
    BY <2>1, <2>2 DEF Phase, Unresolved, Outstanding, Accepted, Rejections
  <2> QED BY <1>3, <2>1, <2>2, <2>3
<1> QED BY <1>1, <1>5, <1>6, <1>7, <1>8, <1>9, <1>10, <1>11, <1>12

\* The other steps are invisible to the dispatch protocol.
LEMMA OtherStepRefines ==
  ASSUME DispatchInv, UNCHANGED active,
         \A p \in Operations : ops'[p] = ops[p]
                               \/ (~Exists(p) /\ ops'[p].status = "pending" /\ ops'[p].token = 0)
                               \/ (ops[p].status = "committed" /\ ops'[p].status = "indexed")
  PROVE  UNCHANGED Dispatch!dispatchVars
<1>1. ASSUME NEW p \in Operations PROVE Phase(p)' = Phase(p)
  <2>1. CASE ops'[p] = ops[p]
    BY <2>1 DEF Phase, Unresolved
  <2>2. CASE ~Exists(p) /\ ops'[p].status = "pending" /\ ops'[p].token = 0
    BY <2>2 DEF Phase, Unresolved, Exists, Outstanding, Accepted, Rejections
  <2>3. CASE ops[p].status = "committed" /\ ops'[p].status = "indexed"
    BY <2>3 DEF Phase, Unresolved, Outstanding, Accepted, Rejections
  <2> QED BY <2>1, <2>2, <2>3
<1>2. [p \in Operations |-> Phase(p)]' = [p \in Operations |-> Phase(p)]
  BY <1>1
<1> QED BY <1>2 DEF Dispatch!dispatchVars

\* Every step of the store is a step of the abstract protocol or invisible there.
LEMMA StepRefines ==
  DispatchInv /\ [Next]_vars => [Dispatch!DispatchNext]_(Dispatch!dispatchVars)
<1> USE StoreAssumption
<1> SUFFICES ASSUME DispatchInv, [Next]_vars
             PROVE  [Dispatch!DispatchNext]_(Dispatch!dispatchVars)
  OBVIOUS
<1>1. ASSUME NEW a \in Actors, NEW o \in Operations, DispatchStep(a, o)
      PROVE  [Dispatch!DispatchNext]_(Dispatch!dispatchVars)
  BY <1>1, DispatchStepRefines
<1>2. ASSUME NEW i \in Intakes, Intake(i) PROVE UNCHANGED Dispatch!dispatchVars
  <2>1. /\ i.operation \in Operations /\ ~Exists(i.operation) /\ UNCHANGED active
        /\ ops' = [ops EXCEPT ![i.operation] =
                     [NoOperation EXCEPT !.status = "pending", !.intake = i]]
    BY <1>2 DEF Intake
  <2>2. /\ \A p \in Operations : p # i.operation => ops'[p] = ops[p]
        /\ ops'[i.operation].status = "pending" /\ ops'[i.operation].token = 0
    BY <2>1 DEF DispatchInv, TypeOK, NoOperation
  <2> QED BY <2>1, <2>2, OtherStepRefines
<1>3. ASSUME NEW a \in Actors, NEW r \in Revisions, IndexStep(a, r)
      PROVE  UNCHANGED Dispatch!dispatchVars
  <2>1. CASE \E w \in Workers, f \in {jobs[r].fence} : PublishIndex(a, r, w, f)
    <3>1. /\ UNCHANGED active
          /\ ops' = [o \in Operations |->
                       IF o \in AwaitingGraph(r)
                       THEN [ops[o] EXCEPT !.status = "indexed", !.generation = @ + 1]
                       ELSE ops[o]]
      BY <2>1 DEF PublishIndex
    <3>2. ASSUME NEW p \in Operations
          PROVE  ops'[p] = ops[p] \/ (ops[p].status = "committed" /\ ops'[p].status = "indexed")
      <4>1. ops[p] \in Operation
        BY DEF DispatchInv, TypeOK
      <4> QED BY <3>1, <4>1 DEF AwaitingGraph, Operation
    <3> QED BY <3>1, <3>2, OtherStepRefines
  <2>2. CASE UNCHANGED storeVars
    BY <2>2, OtherStepRefines DEF storeVars
  <2> QED BY <1>3, <2>1, <2>2 DEF IndexStep, ClaimIndex, SealIndex, RemoveProjection
<1>4. ASSUME \/ \E a \in Actors, b \in Branches, r \in Maybe(Revisions), u \in BOOLEAN :
                  ObserveHead(a, b, r, u)
             \/ \E a \in Actors, t \in Actors, permissions \in SUBSET Permissions :
                  SetGrant(a, t, permissions)
             \/ \E r \in Revisions : LeaseExpires(r)
             \/ UNCHANGED vars
      PROVE  UNCHANGED Dispatch!dispatchVars
  <2>1. UNCHANGED <<ops, active>>
    BY <1>4 DEF ObserveHead, SetGrant, LeaseExpires, vars, storeVars
  <2> QED BY <2>1, OtherStepRefines
<1> QED BY <1>1, <1>2, <1>3, <1>4 DEF Next

(***************************************************************************)
(* The store implements the dispatch promise of BranchDispatch: at most    *)
(* one writer per branch, one send permission per operation, and a branch  *)
(* whose operation may have sent is given back by a commit only.           *)
(***************************************************************************)
THEOREM ImplementsDispatch == Spec => DispatchRefined
<1>1. Spec => []DispatchInv
  BY InitDispatch, DispatchInvStep, PTL DEF Spec
<1> QED BY <1>1, InitRefines, StepRefines, PTL DEF Spec, DispatchRefined, Dispatch!DispatchSpec
==============================================================================
