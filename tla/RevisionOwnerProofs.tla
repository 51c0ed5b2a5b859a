-------------------------- MODULE RevisionOwnerProofs --------------------------
(***************************************************************************)
(* The owner implements the store's specification, for any number of       *)
(* concurrent requests and observations, so that what is proved of the     *)
(* store holds of the running owner.                                       *)
(***************************************************************************)
EXTENDS RevisionOwnerProperties, RevisionStoreProofs

OwnerTypes ==
  /\ commits \in [Revisions -> Commit]
  /\ remote \in [Branches -> Maybe(Revisions)]
  /\ requests \in SUBSET Request
  /\ external \in 0..MaxExternal
  /\ tasks \in [Tasks -> Task]
  /\ observers \in [Observers -> Observer]
  /\ failures \in 0..MaxFailures

\* The candidate of a request fits the head it was planned on: it is a child of the head,
\* or, for a no-op, what the head holds.
Fits(k) ==
  IF k.existing THEN k.head \in Revisions /\ ParentOf[k.head] = CandidateParent[k.candidate]
                ELSE k.head = CandidateParent[k.candidate]

Prepared == {"prepared", "authorized", "sent", "responded", "searching", "proven"}

\* What a request knows at each point, given the receipts in the store.
Ready(k, receipts) ==
  /\ k.pc # "idle" => k.operation \in Operations /\ receipts[k.operation].status # "absent"
  /\ k.pc = "cancelling" => k.status \in Rejections
  /\ k.pc = "preparing" \/ k.pc \in Prepared => k.candidate \in Candidates
  /\ k.pc \in Prepared => receipts[k.operation].candidate = k.candidate
  /\ k.pc \in {"preparing", "prepared", "authorized", "sent", "responded"} => Fits(k)
  /\ k.pc \in {"authorized", "sent", "responded"} => ~k.existing
  /\ k.pc \in {"responded", "proven"} => k.revision \in Revisions
  /\ k.pc = "proven" => ParentOf[k.revision] = CandidateParent[k.candidate]

TasksReady == \A t \in Tasks : Ready(tasks[t], ops)

\* A commit the owner asked for has the parent its candidate names.
ParentsAgree ==
  /\ \A r \in Revisions : commits[r].operation # None =>
       commits[r].candidate \in Candidates /\ ParentOf[r] = CandidateParent[commits[r].candidate]
  /\ \A q \in requests : q.parent = CandidateParent[q.candidate]

\* Observers that are about to write know a branch.
ObserversReady == \A v \in Observers : observers[v].pc # "idle" => observers[v].branch \in Branches

OwnerInv == TypeOK /\ OwnerTypes /\ TasksReady /\ ParentsAgree /\ ObserversReady
-----------------------------------------------------------------------------
\* A prepared candidate is immutable: no store transaction removes a receipt or changes the
\* candidate it was prepared with.
Kept(old, new) ==
  \A o \in Operations : old[o].status # "absent" =>
    /\ new[o].status # "absent"
    /\ old[o].candidate # None => new[o].candidate = old[o].candidate

LEMMA WriteKept ==
  ASSUME TypeOK, NEW o \in Operations, NEW receipt,
         ops' = [ops EXCEPT ![o] = receipt],
         receipt.status # "absent",
         ops[o].candidate # None => receipt.candidate = ops[o].candidate
  PROVE  Kept(ops, ops')
BY DEF Kept, TypeOK

LEMMA DispatchStepKept ==
  ASSUME TypeOK, NEW a \in Actors, NEW o \in Operations, DispatchStep(a, o)
  PROVE  Kept(ops, ops')
<1>0. ops[o] \in Operation
  BY DEF TypeOK
<1>1. PICK g \in {ops[o].generation}, f \in {ops[o].token} :
        \/ Reserve(a, o, g)
        \/ \E status \in Rejections : \/ RejectBeforeDispatch(a, o, g, status)
                                      \/ CancelReserved(a, o, f, g, status)
        \/ \E c \in Candidates : Prepare(a, o, f, g, c)
        \/ \E requirePrepared \in BOOLEAN : AuthorizeSend(a, o, f, g, requirePrepared)
        \/ MarkAmbiguous(a, o, f, g)
        \/ \E r \in Evidence(o), observed \in BOOLEAN : RecordCommit(a, o, f, g, r, observed)
        \/ RecordIndex(a, o, g)
  BY DEF DispatchStep
<1>2. CASE Reserve(a, o, g)
  <2> DEFINE receipt == [ops[o] EXCEPT !.token = fences[BranchOf(o)] + 1, !.generation = g + 1]
  <2>1. ops' = [ops EXCEPT ![o] = receipt]
    BY <1>2 DEF Reserve
  <2>2. receipt.status # "absent" /\ (ops[o].candidate # None => receipt.candidate = ops[o].candidate)
    BY <1>0, <1>2 DEF Reserve, Operation
  <2> QED BY <2>1, <2>2, WriteKept
<1>3. ASSUME NEW status \in Rejections,
             RejectBeforeDispatch(a, o, g, status) \/ CancelReserved(a, o, f, g, status)
      PROVE  Kept(ops, ops')
  <2> DEFINE receipt == [ops[o] EXCEPT !.status = status, !.generation = g + 1]
  <2>1. ops' = [ops EXCEPT ![o] = receipt]
    BY <1>3 DEF RejectBeforeDispatch, CancelReserved
  <2>2. receipt.status # "absent" /\ (ops[o].candidate # None => receipt.candidate = ops[o].candidate)
    BY <1>0, <1>3 DEF RejectBeforeDispatch, CancelReserved, Operation, Rejections
  <2> QED BY <2>1, <2>2, WriteKept
<1>4. ASSUME NEW c \in Candidates, Prepare(a, o, f, g, c)
      PROVE  Kept(ops, ops')
  <2> DEFINE receipt == [ops[o] EXCEPT !.candidate = c, !.generation = g + 1]
  <2>1. ops' = [ops EXCEPT ![o] = receipt]
    BY <1>4 DEF Prepare
  <2>2. receipt.status # "absent" /\ (ops[o].candidate # None => receipt.candidate = ops[o].candidate)
    BY <1>0, <1>4 DEF Prepare, Operation
  <2> QED BY <2>1, <2>2, WriteKept
<1>5. ASSUME NEW requirePrepared \in BOOLEAN, AuthorizeSend(a, o, f, g, requirePrepared)
      PROVE  Kept(ops, ops')
  <2> DEFINE receipt == [ops[o] EXCEPT !.sendAuthorized = TRUE, !.generation = g + 1]
  <2>1. ops' = [ops EXCEPT ![o] = receipt]
    BY <1>5 DEF AuthorizeSend
  <2>2. receipt.status # "absent" /\ (ops[o].candidate # None => receipt.candidate = ops[o].candidate)
    BY <1>0, <1>5 DEF AuthorizeSend, Operation
  <2> QED BY <2>1, <2>2, WriteKept
<1>6. CASE MarkAmbiguous(a, o, f, g)
  <2> DEFINE receipt == [ops[o] EXCEPT !.status = "ambiguous", !.generation = g + 1]
  <2>1. ops' = [ops EXCEPT ![o] = receipt]
    BY <1>6 DEF MarkAmbiguous
  <2>2. receipt.status # "absent" /\ (ops[o].candidate # None => receipt.candidate = ops[o].candidate)
    BY <1>0, <1>6 DEF MarkAmbiguous, Operation
  <2> QED BY <2>1, <2>2, WriteKept
<1>7. ASSUME NEW r \in Revisions, NEW observed \in BOOLEAN,
             RecordCommit(a, o, f, g, r, observed)
      PROVE  Kept(ops, ops')
  <2> DEFINE seen == ops[o].observedExisting \/ observed
             status == IF ops[o].candidate # None /\ IsPublished(r) THEN "indexed"
                                                                   ELSE "committed"
             receipt == [ops[o] EXCEPT !.status = status, !.revision = r,
                                       !.observedExisting = seen, !.generation = g + 1]
  <2>1. ops' = [ops EXCEPT ![o] = receipt]
    BY <1>7 DEF RecordCommit
  <2>2. receipt.status # "absent" /\ receipt.candidate = ops[o].candidate
    BY <1>0 DEF Operation
  <2> QED BY <2>1, <2>2, WriteKept
<1>8. CASE RecordIndex(a, o, g)
  <2> DEFINE receipt == [ops[o] EXCEPT !.status = "indexed", !.generation = g + 1]
  <2>1. ops' = [ops EXCEPT ![o] = receipt]
    BY <1>8 DEF RecordIndex
  <2>2. receipt.status # "absent" /\ (ops[o].candidate # None => receipt.candidate = ops[o].candidate)
    BY <1>0, <1>8 DEF RecordIndex, Operation
  <2> QED BY <2>1, <2>2, WriteKept
<1>9. QED BY <1>1, <1>2, <1>3, <1>4, <1>5, <1>6, <1>7, <1>8 DEF Evidence

LEMMA StepKept == TypeOK /\ [Next]_vars => Kept(ops, ops')
<1> SUFFICES ASSUME TypeOK, [Next]_vars PROVE Kept(ops, ops')
  OBVIOUS
<1>1. ASSUME ops' = ops PROVE Kept(ops, ops')
  BY <1>1 DEF Kept
<1>2. ASSUME NEW i \in Intakes, Intake(i) PROVE Kept(ops, ops')
  BY <1>2 DEF Intake, Exists, Kept, TypeOK
<1>3. ASSUME NEW a \in Actors, NEW r \in Revisions, IndexStep(a, r) PROVE Kept(ops, ops')
  <2>1. ASSUME NEW w \in Workers, NEW f, PublishIndex(a, r, w, f) PROVE Kept(ops, ops')
    BY <2>1 DEF PublishIndex, Kept, TypeOK, Operation
  <2>2. QED BY <1>1, <1>3, <2>1 DEF IndexStep, ClaimIndex, SealIndex, RemoveProjection, storeVars
<1>4. QED
  BY <1>1, <1>2, <1>3, DispatchStepKept
  DEF Next, vars, storeVars, ObserveHead, SetGrant, LeaseExpires
-----------------------------------------------------------------------------
\* The calls a running request makes on the store, as the owner.
OwnerCall(o, f, g) ==
  \/ Reserve(Owner, o, g)
  \/ \E status \in Rejections : CancelReserved(Owner, o, f, g, status)
  \/ \E c \in Candidates : Prepare(Owner, o, f, g, c)
  \/ AuthorizeSend(Owner, o, f, g, TRUE)
  \/ MarkAmbiguous(Owner, o, f, g)
  \/ \E r \in Evidence(o), observed \in BOOLEAN : RecordCommit(Owner, o, f, g, r, observed)

\* A call that the store accepts names the stored generation and token.
LEMMA CallIsStep ==
  ASSUME NEW o \in Operations, NEW f, NEW g, OwnerCall(o, f, g)
  PROVE  Next
<1>1. Owner \in Actors
  BY StoreAssumption DEF Owner
<1>2. g = ops[o].generation
  BY DEF OwnerCall, Reserve, CancelReserved, Prepare, AuthorizeSend, MarkAmbiguous,
         RecordCommit, Current
<1>3. CASE Reserve(Owner, o, g)
  BY <1>1, <1>2, <1>3 DEF Next, DispatchStep
<1>4. CASE ~Reserve(Owner, o, g)
  <2>1. f = ops[o].token
    BY <1>4 DEF OwnerCall, CancelReserved, Prepare, AuthorizeSend, MarkAmbiguous,
                RecordCommit, HoldsToken
  <2>2. DispatchStep(Owner, o)
    BY <1>2, <1>4, <2>1 DEF OwnerCall, DispatchStep
  <2> QED BY <1>1, <2>2 DEF Next
<1> QED BY <1>3, <1>4

LEMMA ContinueIsStep ==
  ASSUME OwnerInv, NEW t \in Tasks, Continue(t)
  PROVE  [Next]_vars
<1> DEFINE k == tasks[t]
           o == k.operation
<1>0. k \in Task /\ Ready(k, ops)
  BY DEF OwnerInv, OwnerTypes, TasksReady
<1>1. CASE \/ FetchHead(t) \/ Plan(t) \/ Send(t) \/ Answer(t) \/ AnswerLost(t)
           \/ Verify(t) \/ Search(t) \/ Refused(t)
  <2>1. UNCHANGED vars
    BY <1>1 DEF FetchHead, Plan, Send, Answer, AnswerLost, Verify, Search, Refused
  <2> QED BY <2>1
<1>2. CASE TaskReserve(t)
  <2>1. o \in Operations /\ OwnerCall(o, k.token, k.generation)
    BY <1>0, <1>2 DEF TaskReserve, OwnerCall, Ready
  <2> QED BY <2>1, CallIsStep
<1>3. CASE TaskCancel(t)
  <2>1. o \in Operations /\ k.status \in Rejections
    BY <1>0, <1>3 DEF TaskCancel, Ready
  <2>2. OwnerCall(o, k.token, k.generation)
    BY <1>3, <2>1 DEF TaskCancel, OwnerCall
  <2> QED BY <2>1, <2>2, CallIsStep
<1>4. CASE TaskPrepare(t)
  <2>1. o \in Operations /\ k.candidate \in Candidates
    BY <1>0, <1>4 DEF TaskPrepare, Ready
  <2>2. OwnerCall(o, k.token, k.generation)
    BY <1>4, <2>1 DEF TaskPrepare, OwnerCall
  <2> QED BY <2>1, <2>2, CallIsStep
<1>5. CASE TaskObserve(t)
  <2>1. o \in Operations /\ k.head \in Evidence(o)
    BY <1>0, <1>5 DEF TaskObserve, Ready, Prepared, Fits, Evidence
  <2>2. OwnerCall(o, k.token, k.generation)
    BY <1>5, <2>1 DEF TaskObserve, OwnerCall
  <2> QED BY <2>1, <2>2, CallIsStep
<1>6. CASE TaskAuthorize(t)
  <2>1. o \in Operations /\ OwnerCall(o, k.token, k.generation)
    BY <1>0, <1>6 DEF TaskAuthorize, OwnerCall, Ready
  <2> QED BY <2>1, CallIsStep
<1>7. CASE TaskAmbiguous(t)
  <2>1. o \in Operations /\ OwnerCall(o, k.token, k.generation)
    BY <1>0, <1>7 DEF TaskAmbiguous, OwnerCall, Ready
  <2> QED BY <2>1, CallIsStep
<1>8. CASE TaskRecord(t)
  <2>1. o \in Operations /\ k.revision \in Evidence(o)
    BY <1>0, <1>8 DEF TaskRecord, Ready, Prepared, Evidence
  <2>2. OwnerCall(o, k.token, k.generation)
    BY <1>8, <2>1 DEF TaskRecord, OwnerCall
  <2> QED BY <2>1, <2>2, CallIsStep
<1> QED BY <1>1, <1>2, <1>3, <1>4, <1>5, <1>6, <1>7, <1>8 DEF Continue

\* Every step of the owner is one transaction of the store or none.
LEMMA OwnerStepIsStep == OwnerInv /\ [OwnerNext]_ownerVars => [Next]_vars
<1> SUFFICES ASSUME OwnerInv, [OwnerNext]_ownerVars PROVE [Next]_vars
  OBVIOUS
<1>0. Owner \in Actors
  BY StoreAssumption DEF Owner
<1>1. ASSUME NEW t \in Tasks, NEW o \in Operations, Admit(t, o) \/ StartReconcile(t, o)
      PROVE  UNCHANGED vars
  BY <1>1 DEF Admit, StartReconcile
<1>2. ASSUME NEW t \in Tasks, Abandon(t) PROVE UNCHANGED vars
  BY <1>2 DEF Abandon
<1>3. ASSUME NEW v \in Observers, Observe(v) \/ ObserverGivesUp(v) PROVE [Next]_vars
  <2>1. CASE ObserverWrite(v)
    <3>1. /\ observers[v].branch \in Branches
          /\ observers[v].head \in Maybe(Revisions)
          /\ observers[v].unavailable \in BOOLEAN
      BY <2>1 DEF ObserverWrite, OwnerInv, OwnerTypes, ObserversReady, Observer
    <3>2. ObserveHead(Owner, observers[v].branch, observers[v].head, observers[v].unavailable)
      BY <2>1 DEF ObserverWrite
    <3> QED BY <1>0, <3>1, <3>2 DEF Next
  <2>2. CASE ~ObserverWrite(v)
    <3>1. UNCHANGED vars
      BY <1>3, <2>2 DEF Observe, ObserverFetch, ObserverJudge, ObserverGivesUp
    <3> QED BY <3>1
  <2> QED BY <2>1, <2>2
<1>4. CASE Provider
  BY <1>4 DEF Provider, Loses, Applies, ExternalCommit
<1>5. CASE Elsewhere
  BY <1>0, <1>5 DEF Elsewhere, Next
<1>6. CASE UNCHANGED ownerVars
  BY <1>6 DEF ownerVars
<1> QED BY <1>1, <1>2, <1>3, <1>4, <1>5, <1>6, ContinueIsStep DEF OwnerNext
-----------------------------------------------------------------------------
LEMMA IdleTaskType == IdleTask \in Task
<1>1. 0 \in 0..GenerationMax /\ 0 \in 0..FenceMax
  BY StoreAssumption, IndexAssumption
<1> QED BY <1>1 DEF IdleTask, Task, Maybe, Status

LEMMA OwnerInvInit == OwnerInit => OwnerInv
<1> SUFFICES ASSUME OwnerInit PROVE OwnerInv
  OBVIOUS
<1>1. TypeOK
  BY InitType DEF OwnerInit
<1>2. IdleTask \in Task /\ IdleObserver \in Observer /\ NoCommit \in Commit
  BY IdleTaskType DEF IdleObserver, Observer, NoCommit, Commit, Maybe
<1>3. OwnerTypes
  BY <1>2, OwnerAssumption DEF OwnerInit, OwnerTypes, Maybe
<1>4. TasksReady
  BY DEF OwnerInit, TasksReady, Ready, IdleTask, Prepared
<1>5. ParentsAgree /\ ObserversReady
  BY DEF OwnerInit, ParentsAgree, ObserversReady, NoCommit, IdleObserver
<1> QED BY <1>1, <1>3, <1>4, <1>5 DEF OwnerInv

\* What a request knows stays true while the store moves on.
LEMMA ReadyKept ==
  ASSUME NEW k \in Task, Ready(k, ops), Kept(ops, ops')
  PROVE  Ready(k, ops')
BY IndexAssumption DEF Ready, Kept, Prepared

\* A step in which request t goes on to k, and every other request rests.
LEMMA BecomeKeeps ==
  ASSUME OwnerInv, NEW t \in Tasks, NEW k \in Task, Become(t, k),
         Ready(k, ops'), Kept(ops, ops')
  PROVE  tasks' \in [Tasks -> Task] /\ TasksReady'
<1>1. tasks \in [Tasks -> Task] /\ \A u \in Tasks : Ready(tasks[u], ops)
  BY DEF OwnerInv, OwnerTypes, TasksReady
<1>2. tasks' = [tasks EXCEPT ![t] = k]
  BY DEF Become
<1>3. ASSUME NEW u \in Tasks PROVE Ready(tasks'[u], ops')
  <2>1. CASE u = t
    BY <1>1, <1>2, <2>1
  <2>2. CASE u # t
    <3>1. tasks'[u] = tasks[u] /\ tasks[u] \in Task /\ Ready(tasks[u], ops)
      BY <1>1, <1>2, <2>2
    <3> QED BY <3>1, ReadyKept
  <2> QED BY <2>1, <2>2
<1> QED BY <1>1, <1>2, <1>3 DEF TasksReady

LEMMA EndKeeps ==
  ASSUME OwnerInv, NEW t \in Tasks, End(t), Kept(ops, ops')
  PROVE  tasks' \in [Tasks -> Task] /\ TasksReady'
<1>1. Ready(IdleTask, ops')
  BY DEF Ready, IdleTask, Prepared
<1> QED BY <1>1, IdleTaskType, BecomeKeeps DEF End

\* promote, from the receipt to the prepared candidate.
LEMMA PlanningKeeps ==
  ASSUME OwnerInv, NEW t \in Tasks, Kept(ops, ops'),
         \/ \E o \in Operations : Admit(t, o)
         \/ TaskReserve(t) \/ FetchHead(t) \/ Plan(t) \/ TaskPrepare(t)
  PROVE  tasks' \in [Tasks -> Task] /\ TasksReady'
<1> DEFINE k == tasks[t]
           o == k.operation
<1>0. k \in Task /\ Ready(k, ops) /\ TypeOK
  BY DEF OwnerInv, OwnerTypes, TasksReady
<1>1. ASSUME NEW p \in Operations, Admit(t, p)
      PROVE  tasks' \in [Tasks -> Task] /\ TasksReady'
  <2> DEFINE n == [IdleTask EXCEPT !.pc = "admitted", !.operation = p,
                                   !.generation = ops[p].generation]
  <2>1. Become(t, n) /\ ops' = ops /\ ops[p].status = "pending"
    BY <1>1 DEF Admit, vars, storeVars
  <2>2. n \in Task
    BY <1>0, IdleTaskType DEF Task, Maybe, TypeOK, Operation
  <2>3. Ready(n, ops')
    BY <2>1 DEF Ready, IdleTask, Prepared
  <2> QED BY <2>1, <2>2, <2>3, BecomeKeeps
<1>2. CASE TaskReserve(t)
  <2> DEFINE n == [k EXCEPT !.pc = "reserved", !.generation = k.generation + 1,
                            !.token = fences[BranchOf(k.operation)] + 1]
  <2>1. Become(t, n) /\ Reserve(Owner, o, k.generation)
    BY <1>2 DEF TaskReserve
  <2>2. o \in Operations /\ Exists(o)
    BY <1>0, <1>2 DEF TaskReserve, Ready, Exists
  <2>3. /\ k.generation + 1 \in 0..GenerationMax
        /\ fences[BranchOf(o)] + 1 \in 0..FenceMax
    <3>1. BranchOf(o) \in Branches
      BY <1>0, <2>2, BranchType
    <3> QED BY <1>0, <2>1, <3>1, StoreAssumption, IndexAssumption
            DEF Reserve, Current, TypeOK, Task
  <2>4. n \in Task
    BY <1>0, <2>3 DEF Task
  <2>5. Ready(n, ops')
    BY <1>0, <2>2 DEF Ready, Task, Prepared, Kept, Exists
  <2> QED BY <2>1, <2>4, <2>5, BecomeKeeps
<1>3. CASE FetchHead(t)
  <2>0. k.pc = "reserved" /\ ops' = ops
    BY <1>3 DEF FetchHead, vars, storeVars
  <2>1. CASE Become(t, [k EXCEPT !.pc = "planning", !.head = remote[BranchOf(k.operation)]])
    <3> DEFINE n == [k EXCEPT !.pc = "planning", !.head = remote[BranchOf(k.operation)]]
    <3>1. BranchOf(o) \in Branches
      BY <1>0, <2>0, BranchType DEF Ready, Exists
    <3>2. n \in Task
      BY <1>0, <3>1 DEF Task, OwnerInv, OwnerTypes
    <3>3. Ready(n, ops')
      BY <1>0, <2>0 DEF Ready, Task, Prepared
    <3> QED BY <2>1, <3>2, <3>3, BecomeKeeps
  <2>2. CASE Become(t, [k EXCEPT !.pc = "cancelling", !.status = "unavailable"])
    <3> DEFINE n == [k EXCEPT !.pc = "cancelling", !.status = "unavailable"]
    <3>1. n \in Task
      BY <1>0 DEF Task, Status, Rejections
    <3>2. Ready(n, ops')
      BY <1>0, <2>0 DEF Ready, Task, Prepared, Rejections
    <3> QED BY <2>2, <3>1, <3>2, BecomeKeeps
  <2> QED BY <1>3, <2>1, <2>2 DEF FetchHead
<1>4. CASE Plan(t)
  <2> DEFINE mine == ops[o].intake.proposal
             Proposing(c, e) == [k EXCEPT !.pc = "preparing", !.candidate = c, !.existing = e]
             Rejecting(s) == [k EXCEPT !.pc = "cancelling", !.status = s]
  <2>0. k.pc = "planning" /\ ops' = ops
    BY <1>4 DEF Plan, vars, storeVars
  <2>1. o \in Operations /\ ops[o].status # "absent"
    BY <1>0, <2>0 DEF Ready
  <2>2. mine \in Candidates
    BY <1>0, <2>1, StoreAssumption DEF TypeOK
  <2>3. ASSUME NEW c \in Candidates, NEW e \in BOOLEAN, Become(t, Proposing(c, e)),
               IF e THEN k.head \in Revisions /\ ParentOf[k.head] = CandidateParent[c]
                    ELSE k.head = CandidateParent[c]
        PROVE  tasks' \in [Tasks -> Task] /\ TasksReady'
    <3>1. Proposing(c, e) \in Task
      BY <1>0 DEF Task, Maybe
    <3>2. Ready(Proposing(c, e), ops')
      BY <1>0, <2>0, <2>1, <2>3 DEF Ready, Task, Prepared, Fits
    <3> QED BY <2>3, <3>1, <3>2, BecomeKeeps
  <2>4. ASSUME NEW s \in Rejections, Become(t, Rejecting(s))
        PROVE  tasks' \in [Tasks -> Task] /\ TasksReady'
    <3>1. Rejecting(s) \in Task
      BY <1>0 DEF Task, Status, Rejections
    <3>2. Ready(Rejecting(s), ops')
      BY <1>0, <2>0, <2>1 DEF Ready, Task, Prepared
    <3> QED BY <2>4, <3>1, <3>2, BecomeKeeps
  <2>5. CASE NoOp(o, k.head) /\ Become(t, Proposing(mine, TRUE))
    <3>1. k.head \in Revisions /\ ParentOf[k.head] = CandidateParent[mine]
      BY <1>0, <2>5 DEF NoOp, Verified, Task, Maybe, OwnerInv, ParentsAgree
    <3> QED BY <2>2, <2>3, <2>5, <3>1
  <2>6. CASE CandidateParent[mine] = k.head /\ Become(t, Proposing(mine, FALSE))
    BY <2>2, <2>3, <2>6
  <2>7. ASSUME NEW c \in Candidates, CandidateParent[c] = k.head, Become(t, Proposing(c, FALSE))
        PROVE  tasks' \in [Tasks -> Task] /\ TasksReady'
    BY <2>3, <2>7
  <2>8. CASE Become(t, Rejecting("conflict")) \/ Become(t, Rejecting("unavailable"))
    BY <2>4, <2>8 DEF Rejections
  <2> HIDE DEF mine, Proposing, Rejecting
  <2>9. \/ NoOp(o, k.head) /\ Become(t, Proposing(mine, TRUE))
        \/ CandidateParent[mine] = k.head /\ Become(t, Proposing(mine, FALSE))
        \/ \E c \in Candidates : CandidateParent[c] = k.head /\ Become(t, Proposing(c, FALSE))
        \/ Become(t, Rejecting("conflict"))
        \/ Become(t, Rejecting("unavailable"))
    BY <1>4 DEF Plan, mine, Proposing, Rejecting
  <2> QED BY <2>5, <2>6, <2>7, <2>8, <2>9
<1>5. CASE TaskPrepare(t)
  <2> DEFINE n == [k EXCEPT !.pc = "prepared", !.generation = k.generation + 1]
  <2>1. /\ Become(t, n) /\ k.pc = "preparing"
        /\ Prepare(Owner, o, k.token, k.generation, k.candidate)
    BY <1>5 DEF TaskPrepare
  <2>2. o \in Operations /\ ops[o].status # "absent" /\ k.candidate \in Candidates
    BY <1>0, <2>1 DEF Ready
  <2>3. n \in Task
    <3>1. k.generation < GenerationMax /\ k.generation \in 0..GenerationMax
      BY <1>0, <2>1 DEF Prepare, Current, Task
    <3>2. k.generation + 1 \in 0..GenerationMax
      BY <3>1, StoreAssumption
    <3> QED BY <1>0, <3>2 DEF Task
  <2>4. ops'[o].candidate = k.candidate
    BY <1>0, <2>1, <2>2 DEF Prepare, TypeOK, Operation
  <2>5. Ready(n, ops')
    BY <1>0, <2>1, <2>2, <2>4 DEF Ready, Task, Prepared, Kept, Fits
  <2> QED BY <2>1, <2>3, <2>5, BecomeKeeps
<1> QED BY <1>1, <1>2, <1>3, <1>4, <1>5
\* promote, from the authorization to the proof.
LEMMA SendingKeeps ==
  ASSUME OwnerInv, NEW t \in Tasks, Kept(ops, ops'),
         TaskAuthorize(t) \/ Send(t) \/ Answer(t) \/ AnswerLost(t) \/ Verify(t)
  PROVE  tasks' \in [Tasks -> Task] /\ TasksReady'
<1> DEFINE k == tasks[t]
           Moved(n) == n \in Task /\ Ready(n, ops') /\ Become(t, n)
<1>0. k \in Task /\ Ready(k, ops) /\ TypeOK
  BY DEF OwnerInv, OwnerTypes, TasksReady
<1>1. Ready(k, ops')
  BY <1>0, ReadyKept
<1>2. ASSUME NEW n, Moved(n) PROVE tasks' \in [Tasks -> Task] /\ TasksReady'
  BY <1>2, BecomeKeeps
<1>3. CASE TaskAuthorize(t)
  <2> DEFINE n == [k EXCEPT !.pc = "authorized", !.generation = k.generation + 1]
  <2>1. /\ Become(t, n) /\ k.pc = "prepared" /\ ~k.existing
        /\ k.generation < GenerationMax
    BY <1>3 DEF TaskAuthorize, AuthorizeSend, Current
  <2>2. k.generation + 1 \in 0..GenerationMax
    BY <1>0, <2>1, StoreAssumption DEF Task
  <2>3. n \in Task
    BY <1>0, <2>2 DEF Task
  <2>4. Ready(n, ops')
    BY <1>0, <1>1, <2>1 DEF Ready, Task, Prepared, Fits
  <2> QED BY <1>2, <2>1, <2>3, <2>4
<1>4. CASE Send(t)
  <2> DEFINE n == [k EXCEPT !.pc = "sent"]
  <2>1. Become(t, n) /\ k.pc = "authorized"
    BY <1>4 DEF Send
  <2>2. n \in Task /\ Ready(n, ops')
    BY <1>0, <1>1, <2>1 DEF Ready, Task, Prepared, Fits
  <2> QED BY <1>2, <2>1, <2>2
<1>5. CASE Answer(t)
  <2>1. PICK r \in Revisions : Become(t, [k EXCEPT !.pc = "responded", !.revision = r])
    BY <1>5 DEF Answer
  <2> DEFINE n == [k EXCEPT !.pc = "responded", !.revision = r]
  <2>2. k.pc = "sent"
    BY <1>5 DEF Answer
  <2>3. n \in Task /\ Ready(n, ops')
    BY <1>0, <1>1, <2>2 DEF Ready, Task, Prepared, Fits, Maybe
  <2> QED BY <1>2, <2>1, <2>3
<1>6. ASSUME Become(t, [k EXCEPT !.pc = "unknown"]), k.pc \in {"sent", "responded"}
      PROVE  tasks' \in [Tasks -> Task] /\ TasksReady'
  <2> DEFINE n == [k EXCEPT !.pc = "unknown"]
  <2>1. n \in Task /\ Ready(n, ops')
    BY <1>0, <1>1, <1>6 DEF Ready, Task, Prepared
  <2> QED BY <1>2, <1>6, <2>1
<1>7. CASE Verify(t)
  <2>1. CASE Become(t, [k EXCEPT !.pc = "proven"]) /\ ParentOf[k.revision] = k.head
    <3> DEFINE n == [k EXCEPT !.pc = "proven"]
    <3>1. k.pc = "responded"
      BY <1>7 DEF Verify
    <3>2. n \in Task /\ Ready(n, ops')
      BY <1>0, <1>1, <2>1, <3>1 DEF Ready, Task, Prepared, Fits
    <3> QED BY <1>2, <2>1, <3>2
  <2> QED BY <1>6, <1>7, <2>1 DEF Verify
<1> QED BY <1>3, <1>4, <1>5, <1>6, <1>7 DEF AnswerLost

LEMMA ReconcilingKeeps ==
  ASSUME OwnerInv, NEW t \in Tasks, Kept(ops, ops'),
         Search(t) \/ \E o \in Operations : StartReconcile(t, o)
  PROVE  tasks' \in [Tasks -> Task] /\ TasksReady'
<1> DEFINE k == tasks[t]
           Moved(n) == n \in Task /\ Ready(n, ops') /\ Become(t, n)
<1>0. k \in Task /\ Ready(k, ops) /\ TypeOK
  BY DEF OwnerInv, OwnerTypes, TasksReady
<1>1. Ready(k, ops')
  BY <1>0, ReadyKept
<1>2. ASSUME NEW n, Moved(n) PROVE tasks' \in [Tasks -> Task] /\ TasksReady'
  BY <1>2, BecomeKeeps
<1>3. CASE Search(t)
  <2>0. k.pc = "searching"
    BY <1>3 DEF Search
  <2>1. ASSUME NEW r \in Revisions, Matches(k) = {r},
               Become(t, [k EXCEPT !.pc = "proven", !.revision = r])
        PROVE  tasks' \in [Tasks -> Task] /\ TasksReady'
    <3> DEFINE n == [k EXCEPT !.pc = "proven", !.revision = r]
    <3>1. ParentOf[r] = CandidateParent[k.candidate]
      <4>1. r \in Matches(k)
        BY <2>1
      <4> QED BY <4>1 DEF Matches
    <3>2. n \in Task /\ Ready(n, ops')
      BY <1>0, <1>1, <2>0, <3>1 DEF Ready, Task, Prepared, Maybe
    <3> QED BY <1>2, <2>1, <3>2
  <2>2. CASE Become(t, [k EXCEPT !.pc = "unknown"])
    <3> DEFINE n == [k EXCEPT !.pc = "unknown"]
    <3>1. n \in Task /\ Ready(n, ops')
      BY <1>0, <1>1, <2>0 DEF Ready, Task, Prepared
    <3> QED BY <1>2, <2>2, <3>1
  <2>3. CASE End(t)
    BY <2>3, EndKeeps
  <2> QED BY <1>3, <2>1, <2>2, <2>3 DEF Search
<1>4. ASSUME NEW o \in Operations, StartReconcile(t, o)
      PROVE  tasks' \in [Tasks -> Task] /\ TasksReady'
  <2> DEFINE op == ops[o]
             n == [IdleTask EXCEPT
                     !.pc = IF op.sendAuthorized THEN "searching" ELSE "cancelling",
                     !.operation = o, !.generation = op.generation, !.token = op.token,
                     !.candidate = IF op.sendAuthorized THEN op.candidate ELSE None,
                     !.status = IF op.sendAuthorized THEN op.status ELSE "unavailable"]
  <2>1. Become(t, n) /\ Reconcilable(o) /\ ops' = ops
    BY <1>4 DEF StartReconcile, vars, storeVars
  <2>2. op \in Operation
    BY <1>0 DEF TypeOK
  <2>3. n \in Task
    <3>1. /\ op.generation \in 0..GenerationMax /\ op.token \in 0..FenceMax
          /\ op.candidate \in Maybe(Candidates) /\ op.status \in Status
      BY <2>2 DEF Operation
    <3>2. "unavailable" \in Status /\ None \in Maybe(Candidates) /\ o \in Maybe(Operations)
      BY DEF Status, Rejections, Maybe
    <3> HIDE DEF op
    <3> QED BY <3>1, <3>2, IdleTaskType DEF Task, IdleTask
  <2>4. op.status # "absent" /\ (op.sendAuthorized => op.candidate \in Candidates)
    BY <2>1, <2>2 DEF Reconcilable, Unresolved, Outstanding, Operation, Maybe
  <2>5. Ready(n, ops')
    BY <2>1, <2>4 DEF Ready, IdleTask, Prepared, Rejections
  <2> QED BY <1>2, <2>1, <2>3, <2>5
<1> QED BY <1>3, <1>4

LEMMA TasksKept ==
  ASSUME OwnerInv, [OwnerNext]_ownerVars, Kept(ops, ops')
  PROVE  tasks' \in [Tasks -> Task] /\ TasksReady'
<1>1. CASE tasks' = tasks
  <2>1. ASSUME NEW t \in Tasks PROVE Ready(tasks[t], ops')
    BY ReadyKept DEF OwnerInv, OwnerTypes, TasksReady
  <2> QED BY <1>1, <2>1 DEF OwnerInv, OwnerTypes, TasksReady
<1>2. ASSUME NEW t \in Tasks, Continue(t) \/ Abandon(t)
                              \/ \E o \in Operations : Admit(t, o) \/ StartReconcile(t, o)
      PROVE  tasks' \in [Tasks -> Task] /\ TasksReady'
  <2>1. CASE TaskCancel(t) \/ TaskObserve(t) \/ TaskAmbiguous(t) \/ TaskRecord(t)
             \/ Refused(t) \/ Abandon(t)
    <3>1. End(t)
      BY <2>1 DEF TaskCancel, TaskObserve, TaskAmbiguous, TaskRecord, Refused, Abandon
    <3> QED BY <3>1, EndKeeps
  <2> QED BY <1>2, <2>1, PlanningKeeps, SendingKeeps, ReconcilingKeeps DEF Continue
<1>3. ASSUME NEW v \in Observers, Observe(v) \/ ObserverGivesUp(v) PROVE tasks' = tasks
  BY <1>3 DEF Observe, ObserverFetch, ObserverJudge, ObserverWrite, ObserverGivesUp
<1>4. Provider \/ Elsewhere \/ UNCHANGED ownerVars => tasks' = tasks
  BY DEF Provider, Loses, Applies, ExternalCommit, Elsewhere, ownerVars, processVars
<1> QED BY <1>1, <1>2, <1>3, <1>4 DEF OwnerNext
-----------------------------------------------------------------------------
ProviderTypes ==
  /\ commits \in [Revisions -> Commit]
  /\ remote \in [Branches -> Maybe(Revisions)]
  /\ requests \in SUBSET Request
  /\ external \in 0..MaxExternal

LEMMA ProviderKept ==
  ASSUME OwnerInv, [OwnerNext]_ownerVars
  PROVE  ProviderTypes' /\ ParentsAgree'
<1>0. ProviderTypes /\ ParentsAgree /\ TypeOK
  BY DEF OwnerInv, OwnerTypes, ProviderTypes
<1>1. CASE UNCHANGED providerVars
  BY <1>0, <1>1 DEF ProviderTypes, ParentsAgree, providerVars
<1>2. ASSUME NEW t \in Tasks, Send(t) PROVE ProviderTypes' /\ ParentsAgree'
  <2> DEFINE k == tasks[t]
             q == [operation |-> k.operation, parent |-> k.head, candidate |-> k.candidate]
  <2>1. /\ requests' = requests \union {q} /\ k.pc = "authorized"
        /\ UNCHANGED <<commits, remote, external>>
    BY <1>2 DEF Send
  <2>2. k \in Task /\ Ready(k, ops)
    BY DEF OwnerInv, OwnerTypes, TasksReady
  <2>3. q \in Request /\ q.parent = CandidateParent[q.candidate]
    BY <2>1, <2>2 DEF Ready, Prepared, Fits, Request, Task
  <2> QED BY <1>0, <2>1, <2>3 DEF ProviderTypes, ParentsAgree
<1>3. ASSUME NEW q \in requests, Loses(q) PROVE ProviderTypes' /\ ParentsAgree'
  BY <1>0, <1>3 DEF Loses, ProviderTypes, ParentsAgree
<1>4. ASSUME NEW q \in requests, NEW r \in Revisions, Applies(q, r)
      PROVE  ProviderTypes' /\ ParentsAgree'
  <2> DEFINE c == [made |-> TRUE, operation |-> q.operation, candidate |-> q.candidate]
  <2>1. /\ commits' = [commits EXCEPT ![r] = c]
        /\ remote' = [remote EXCEPT ![BranchOf(q.operation)] = r]
        /\ requests' = requests \ {q} /\ UNCHANGED external
        /\ ParentOf[r] = q.parent
    BY <1>4 DEF Applies
  <2>2. q \in Request /\ q.parent = CandidateParent[q.candidate]
    BY <1>0 DEF ProviderTypes, ParentsAgree
  <2>3. c \in Commit /\ c.candidate \in Candidates /\ c.candidate = q.candidate
    BY <2>2 DEF Commit, Request, Maybe
  <2>4. ProviderTypes'
    BY <1>0, <2>1, <2>3 DEF ProviderTypes, Maybe
  <2>5. ASSUME NEW s \in Revisions, commits'[s].operation # None
        PROVE  /\ commits'[s].candidate \in Candidates
               /\ ParentOf[s] = CandidateParent[commits'[s].candidate]
    <3>1. CASE s = r
      BY <1>0, <2>1, <2>2, <2>3, <3>1 DEF ProviderTypes
    <3>2. CASE s # r
      <4>1. commits'[s] = commits[s]
        BY <1>0, <2>1, <3>2 DEF ProviderTypes
      <4> QED BY <1>0, <2>5, <4>1 DEF ParentsAgree
    <3> QED BY <3>1, <3>2
  <2>6. \A p \in requests' : p.parent = CandidateParent[p.candidate]
    BY <1>0, <2>1 DEF ParentsAgree
  <2> QED BY <2>4, <2>5, <2>6 DEF ParentsAgree
<1>5. ASSUME NEW b \in Branches, NEW r \in Revisions, ExternalCommit(b, r)
      PROVE  ProviderTypes' /\ ParentsAgree'
  <2>1. /\ commits' = [commits EXCEPT ![r].made = TRUE]
        /\ remote' = [remote EXCEPT ![b] = r]
        /\ external' = external + 1 /\ external < MaxExternal
        /\ requests' = requests
    BY <1>5 DEF ExternalCommit
  <2>2. external' \in 0..MaxExternal
    BY <1>0, <2>1, OwnerAssumption DEF ProviderTypes
  <2>3. ProviderTypes'
    BY <1>0, <2>1, <2>2 DEF ProviderTypes, Commit, Maybe
  <2>4. \A s \in Revisions : /\ commits'[s].operation = commits[s].operation
                             /\ commits'[s].candidate = commits[s].candidate
    BY <1>0, <2>1 DEF ProviderTypes, Commit
  <2> QED BY <1>0, <2>1, <2>3, <2>4 DEF ParentsAgree
<1>6. ASSUME NEW t \in Tasks, Continue(t), ~Send(t) PROVE UNCHANGED providerVars
  BY <1>6 DEF Continue, TaskReserve, FetchHead, Plan, TaskCancel, TaskPrepare, TaskObserve,
              TaskAuthorize, Answer, AnswerLost, Verify, TaskAmbiguous, TaskRecord, Search,
              Refused, Quiet
<1>7. ASSUME NEW t \in Tasks,
             Abandon(t) \/ \E o \in Operations : Admit(t, o) \/ StartReconcile(t, o)
      PROVE  UNCHANGED providerVars
  BY <1>7 DEF Abandon, Admit, StartReconcile, Quiet
<1>8. ASSUME NEW v \in Observers, Observe(v) \/ ObserverGivesUp(v)
      PROVE  UNCHANGED providerVars
  BY <1>8 DEF Observe, ObserverFetch, ObserverJudge, ObserverWrite, ObserverGivesUp
<1>9. Elsewhere \/ UNCHANGED ownerVars => UNCHANGED providerVars
  BY DEF Elsewhere, ownerVars
<1> QED BY <1>1, <1>2, <1>3, <1>4, <1>5, <1>6, <1>7, <1>8, <1>9 DEF OwnerNext, Provider

LEMMA ObserversKept ==
  ASSUME OwnerInv, [OwnerNext]_ownerVars
  PROVE  /\ observers' \in [Observers -> Observer]
         /\ failures' \in 0..MaxFailures
         /\ ObserversReady'
<1> DEFINE Result == /\ observers' \in [Observers -> Observer]
                     /\ failures' \in 0..MaxFailures
                     /\ ObserversReady'
<1>0. /\ observers \in [Observers -> Observer] /\ failures \in 0..MaxFailures
      /\ ObserversReady /\ remote \in [Branches -> Maybe(Revisions)]
  BY DEF OwnerInv, OwnerTypes
<1>1. CASE observers' = observers /\ failures' = failures
  BY <1>0, <1>1 DEF ObserversReady
<1>2. failures < MaxFailures => failures + 1 \in 0..MaxFailures
  BY <1>0, OwnerAssumption
<1>3. ASSUME NEW t \in Tasks, Abandon(t) PROVE Result
  BY <1>0, <1>2, <1>3 DEF Abandon, ObserversReady
<1>4. ASSUME NEW v \in Observers, NEW n \in Observer,
             observers' = [observers EXCEPT ![v] = n],
             n.pc # "idle" => n.branch \in Branches
      PROVE  observers' \in [Observers -> Observer] /\ ObserversReady'
  BY <1>0, <1>4 DEF ObserversReady
<1>5. IdleObserver \in Observer /\ IdleObserver.pc = "idle"
  BY DEF IdleObserver, Observer, Maybe
<1>6. ASSUME NEW v \in Observers, Observe(v) \/ ObserverGivesUp(v) PROVE Result
  <2>1. ASSUME NEW b \in Branches, ObserverFetch(v, b) PROVE Result
    <3> DEFINE n == [IdleObserver EXCEPT !.pc = "fetched", !.branch = b, !.head = remote[b]]
    <3>1. observers' = [observers EXCEPT ![v] = n] /\ failures' = failures
      BY <2>1 DEF ObserverFetch
    <3>2. n \in Observer /\ n.branch \in Branches
      BY <1>0 DEF IdleObserver, Observer, Maybe
    <3> QED BY <1>0, <1>4, <3>1, <3>2
  <2>2. CASE ObserverJudge(v)
    <3> DEFINE head == observers[v].head
               n == [observers[v] EXCEPT
                       !.pc = "judged",
                       !.unavailable = head # None /\ ~HeadAccepted(head, observers[v].branch)]
    <3>1. /\ observers' = [observers EXCEPT ![v] = n] /\ failures' = failures
          /\ observers[v].pc = "fetched"
      BY <1>0, <2>2 DEF ObserverJudge, Observer
    <3>2. observers[v] \in Observer /\ observers[v].branch \in Branches
      BY <1>0, <3>1 DEF ObserversReady
    <3>3. n \in Observer /\ n.branch \in Branches
      BY <3>2 DEF Observer
    <3> QED BY <1>0, <1>4, <3>1, <3>3
  <2>3. CASE ObserverWrite(v)
    BY <1>0, <1>4, <1>5, <2>3 DEF ObserverWrite
  <2>4. CASE ObserverGivesUp(v)
    BY <1>0, <1>2, <1>4, <1>5, <2>4 DEF ObserverGivesUp
  <2> QED BY <1>6, <2>1, <2>2, <2>3, <2>4 DEF Observe
<1>7. ASSUME NEW t \in Tasks,
             Continue(t) \/ \E o \in Operations : Admit(t, o) \/ StartReconcile(t, o)
      PROVE  observers' = observers /\ failures' = failures
  BY <1>7 DEF Continue, TaskReserve, FetchHead, Plan, TaskCancel, TaskPrepare, TaskObserve,
              TaskAuthorize, Send, Answer, AnswerLost, Verify, TaskAmbiguous, TaskRecord,
              Search, Refused, Admit, StartReconcile, Quiet
<1>8. Provider \/ Elsewhere \/ UNCHANGED ownerVars
        => observers' = observers /\ failures' = failures
  BY DEF Provider, Loses, Applies, ExternalCommit, Elsewhere, ownerVars, processVars
<1> QED BY <1>1, <1>3, <1>6, <1>7, <1>8 DEF OwnerNext
-----------------------------------------------------------------------------
LEMMA OwnerInvStep == OwnerInv /\ [OwnerNext]_ownerVars => OwnerInv'
<1> SUFFICES ASSUME OwnerInv, [OwnerNext]_ownerVars PROVE OwnerInv'
  OBVIOUS
<1>1. [Next]_vars /\ TypeOK
  BY OwnerStepIsStep DEF OwnerInv
<1>2. TypeOK'
  BY <1>1, TypeStep
<1>3. Kept(ops, ops')
  BY <1>1, StepKept
<1>4. tasks' \in [Tasks -> Task] /\ TasksReady'
  BY <1>3, TasksKept
<1>5. ProviderTypes' /\ ParentsAgree'
  BY ProviderKept
<1> QED BY <1>2, <1>4, <1>5, ObserversKept DEF OwnerInv, OwnerTypes, ProviderTypes

LEMMA OwnerInvHolds == OwnerSpec => []OwnerInv
BY OwnerInvInit, OwnerInvStep, PTL DEF OwnerSpec

(***************************************************************************)
(* The types of the owner's state: of what requests remember between       *)
(* awaits (promotion.rs:50-155), of the provider and of the store.         *)
(***************************************************************************)
THEOREM OwnerTypeCorrect == OwnerSpec => []OwnerTypeOK
<1>1. OwnerInv => OwnerTypeOK
  BY DEF OwnerInv, OwnerTypes, OwnerTypeOK
<1> QED BY <1>1, OwnerInvHolds, PTL

(***************************************************************************)
(* The owner implements the store's specification: whatever its requests   *)
(* read before an await and use after it, every step is one permitted      *)
(* transaction or none, and record_commit is only called with a revision   *)
(* on the parent its candidate was prepared for (promotion.rs:176-251).    *)
(***************************************************************************)
THEOREM OwnerImplementsStore == OwnerSpec => StoreImplemented
<1>1. OwnerInit => Init
  BY DEF OwnerInit
<1> QED BY <1>1, OwnerInvHolds, OwnerStepIsStep, PTL DEF OwnerSpec, StoreImplemented, Spec

(***************************************************************************)
(* So the records of a running owner stay readable, its reservations are   *)
(* backed by outstanding operations and its fences identify one dispatch   *)
(* (validate_state, store.rs:246), and at most one writer is on a    *)
(* branch, whatever is cut, retried or reconciled concurrently.            *)
(***************************************************************************)
THEOREM OwnerDispatchSafe ==
  OwnerSpec => /\ [](Readable /\ ReservationBacked /\ TokensUnique /\ CommitJustified)
               /\ DispatchRefined
BY OwnerImplementsStore, DispatchSafe, ImplementsDispatch DEF StoreImplemented
=============================================================================
