------------------------- MODULE OwnerPromiseProofs -------------------------
(***************************************************************************)
(* What the owner promises its clients about the provider, for any number  *)
(* of branches, concurrent requests, observations, failures and external   *)
(* commits: one create per operation, serialized per branch, no commit     *)
(* after a rejection, real evidence behind every acceptance, and no commit *)
(* of the owner orphaned.                                                  *)
(***************************************************************************)
EXTENDS RevisionOwnerProofs, RevisionIndexProofs

USE DEF Maybe

\* A create of o has left for the provider.
Asked(o) == \/ \E q \in requests : q.operation = o
            \/ \E r \in Revisions : commits[r].operation = o

\* What request t has read and neither the provider nor the store can take back.
Knows(t) ==
  LET k == tasks[t]
      o == k.operation
  IN
  /\ k.pc \notin {"idle", "admitted"} => ops[o].token = k.token /\ k.token # 0
  /\ k.pc = "authorized" => ops[o].sendAuthorized /\ ~Asked(o)
  /\ k.pc \in {"responded", "proven"} => commits[k.revision].operation = o
  /\ k.pc \in {"preparing", "prepared"} /\ k.existing =>
       /\ commits[k.head].operation # None
       /\ commits[k.head].candidate = k.candidate
       /\ BranchOf(commits[k.head].operation) = BranchOf(o)

TasksKnow == \A t \in Tasks : Knows(t)

\* The permission to send is held by one request at a time.
PermitHeldOnce ==
  \A t, u \in Tasks : /\ tasks[t].pc = "authorized" /\ tasks[u].pc = "authorized"
                      /\ tasks[t].operation = tasks[u].operation
                      => t = u

\* A marked commit was made, for an operation that has a receipt.
CommitsMarked ==
  \A r \in Revisions : commits[r].operation # None =>
    commits[r].made /\ Exists(commits[r].operation)

\* No two creates of one operation, under way or done.
OneCreate ==
  /\ \A p, q \in requests : p.operation = q.operation => p = q
  /\ \A r, s \in Revisions :
       commits[r].operation # None /\ commits[r].operation = commits[s].operation => r = s
  /\ \A q \in requests, r \in Revisions : commits[r].operation # q.operation

\* A create was authorized, and carries the prepared candidate.
CreatesAuthorized ==
  /\ \A q \in requests : /\ ops[q.operation].sendAuthorized
                         /\ ops[q.operation].candidate = q.candidate
  /\ \A r \in Revisions : commits[r].operation # None =>
       /\ ops[commits[r].operation].sendAuthorized
       /\ ops[commits[r].operation].candidate = commits[r].candidate

\* The revision of an accepted receipt is marked, by the operation itself if it was sent.
AcceptedMarked ==
  \A o \in Operations : ops[o].status \in Accepted =>
    LET c == commits[ops[o].revision] IN
    /\ c.operation # None
    /\ c.candidate = ops[o].candidate
    /\ BranchOf(c.operation) = BranchOf(o)
    /\ ops[o].sendAuthorized => c.operation = o

Justified(r, b) == /\ r \in Revisions
                   /\ IsAccepted(r)
                   /\ commits[r].operation # None
                   /\ BranchOf(commits[r].operation) = b
HeadsJustified ==
  /\ \A b \in Branches : heads[b].revision # None /\ ~heads[b].unavailable
                           => Justified(heads[b].revision, b)
  /\ \A v \in Observers :
       observers[v].pc = "judged" /\ observers[v].head # None /\ ~observers[v].unavailable
         => Justified(observers[v].head, observers[v].branch)

(***************************************************************************)
(* The invariant behind the promise.  It follows one create through its    *)
(* life: the store's permission is held by one request, which has sent     *)
(* nothing; then there is one request or one commit of the operation, with *)
(* the prepared candidate; and only that commit is ever accepted for it.   *)
(***************************************************************************)
PromiseInv ==
  /\ TasksKnow
  /\ PermitHeldOnce
  /\ CommitsMarked
  /\ OneCreate
  /\ CreatesAuthorized
  /\ AcceptedMarked
  /\ HeadsJustified

OwnerStateInv == DispatchInv /\ OwnerInv /\ PromiseInv
-----------------------------------------------------------------------------
\* What no transaction of the store does to a receipt.
Stands(o) ==
  Exists(o) =>
    /\ ops'[o].status # "absent"
    /\ ops'[o].intake = ops[o].intake
    /\ ops[o].token # 0 => /\ ops'[o].token = ops[o].token
                           /\ ops'[o].status \in Outstanding => ops[o].status \in Outstanding
    /\ ops[o].candidate # None => ops'[o].candidate = ops[o].candidate
    /\ ops[o].sendAuthorized => ops'[o].sendAuthorized
    /\ ops[o].status \in Accepted => /\ ops'[o].status \in Accepted
                                     /\ ops'[o].revision = ops[o].revision
                                     /\ ops'[o].candidate = ops[o].candidate
                                     /\ ops'[o].sendAuthorized = ops[o].sendAuthorized

LEMMA WriteStands ==
  ASSUME TypeOK, NEW o \in Operations, NEW receipt,
         ops' = [ops EXCEPT ![o] = receipt],
         receipt.status # "absent",
         receipt.intake = ops[o].intake,
         ops[o].token # 0 => receipt.token = ops[o].token,
         ops[o].candidate # None => receipt.candidate = ops[o].candidate,
         ops[o].sendAuthorized => receipt.sendAuthorized,
         \/ ops[o].status \in Outstanding
         \/ /\ ops[o].status = "committed" /\ receipt.status = "indexed"
            /\ receipt.revision = ops[o].revision
            /\ receipt.candidate = ops[o].candidate
            /\ receipt.sendAuthorized = ops[o].sendAuthorized
  PROVE  \A p \in Operations : Stands(p)
<1>1. \A p \in Operations : ops'[p] = IF p = o THEN receipt ELSE ops[p]
  BY DEF TypeOK
<1> QED BY <1>1 DEF Stands, Exists, Accepted, Outstanding

LEMMA DispatchStands ==
  ASSUME TypeOK, NEW a \in Actors, NEW o \in Operations, DispatchStep(a, o)
  PROVE  \A p \in Operations : Stands(p)
<1> DEFINE Result == \A p \in Operations : Stands(p)
<1>0. ops[o] \in Operation
  BY DEF TypeOK
<1>1. PICK g \in {ops[o].generation}, f \in {ops[o].token} :
        \/ Reserve(a, o, g)
        \/ \E status \in Rejections : \/ RejectBeforeDispatch(a, o, g, status)
                                      \/ CancelReserved(a, o, f, g, status)
        \/ \E c \in Candidates : Prepare(a, o, f, g, c)
        \/ \E requirePrepared \in BOOLEAN : AuthorizeSend(a, o, f, g, requirePrepared)
        \/ MarkAmbiguous(a, o, f, g)
        \/ \E r \in Evidence(o), observed \in BOOLEAN : RecordCommit(a, o, f, g, r, observed)
        \/ RecordIndex(a, o, g)
  BY DEF DispatchStep
<1>2. CASE Reserve(a, o, g)
  <2> DEFINE receipt == [ops[o] EXCEPT !.token = fences[BranchOf(o)] + 1, !.generation = g + 1]
  <2>1. ops' = [ops EXCEPT ![o] = receipt] /\ ops[o].status = "pending" /\ ops[o].token = 0
    BY <1>2 DEF Reserve
  <2>2. /\ receipt.status = ops[o].status /\ receipt.intake = ops[o].intake
        /\ receipt.candidate = ops[o].candidate
        /\ receipt.sendAuthorized = ops[o].sendAuthorized
    BY <1>0 DEF Operation
  <2> HIDE DEF receipt
  <2> QED BY <2>1, <2>2, WriteStands DEF Outstanding
<1>3. ASSUME NEW status \in Rejections,
             RejectBeforeDispatch(a, o, g, status) \/ CancelReserved(a, o, f, g, status)
      PROVE  Result
  <2> DEFINE receipt == [ops[o] EXCEPT !.status = status, !.generation = g + 1]
  <2>1. ops' = [ops EXCEPT ![o] = receipt] /\ ops[o].status = "pending"
    BY <1>3 DEF RejectBeforeDispatch, CancelReserved
  <2>2. /\ receipt.status = status /\ receipt.intake = ops[o].intake
        /\ receipt.candidate = ops[o].candidate /\ receipt.token = ops[o].token
        /\ receipt.sendAuthorized = ops[o].sendAuthorized
    BY <1>0 DEF Operation
  <2> HIDE DEF receipt
  <2> QED BY <2>1, <2>2, WriteStands DEF Outstanding, Rejections
<1>4. ASSUME NEW c \in Candidates, Prepare(a, o, f, g, c) PROVE Result
  <2> DEFINE receipt == [ops[o] EXCEPT !.candidate = c, !.generation = g + 1]
  <2>1. ops' = [ops EXCEPT ![o] = receipt] /\ ops[o].status = "pending" /\ ops[o].candidate = None
    BY <1>4 DEF Prepare
  <2>2. /\ receipt.status = ops[o].status /\ receipt.intake = ops[o].intake
        /\ receipt.token = ops[o].token
        /\ receipt.sendAuthorized = ops[o].sendAuthorized
    BY <1>0 DEF Operation
  <2> HIDE DEF receipt
  <2> QED BY <2>1, <2>2, WriteStands DEF Outstanding
<1>5. ASSUME NEW requirePrepared \in BOOLEAN, AuthorizeSend(a, o, f, g, requirePrepared)
      PROVE  Result
  <2> DEFINE receipt == [ops[o] EXCEPT !.sendAuthorized = TRUE, !.generation = g + 1]
  <2>1. ops' = [ops EXCEPT ![o] = receipt] /\ ops[o].status = "pending"
    BY <1>5 DEF AuthorizeSend
  <2>2. /\ receipt.status = ops[o].status /\ receipt.intake = ops[o].intake
        /\ receipt.candidate = ops[o].candidate /\ receipt.token = ops[o].token
        /\ receipt.sendAuthorized
    BY <1>0 DEF Operation
  <2> HIDE DEF receipt
  <2> QED BY <2>1, <2>2, WriteStands DEF Outstanding
<1>6. CASE MarkAmbiguous(a, o, f, g)
  <2> DEFINE receipt == [ops[o] EXCEPT !.status = "ambiguous", !.generation = g + 1]
  <2>1. ops' = [ops EXCEPT ![o] = receipt] /\ ops[o].status = "pending"
    BY <1>6 DEF MarkAmbiguous
  <2>2. /\ receipt.status = "ambiguous" /\ receipt.intake = ops[o].intake
        /\ receipt.candidate = ops[o].candidate /\ receipt.token = ops[o].token
        /\ receipt.sendAuthorized = ops[o].sendAuthorized
    BY <1>0 DEF Operation
  <2> HIDE DEF receipt
  <2> QED BY <2>1, <2>2, WriteStands DEF Outstanding
<1>7. ASSUME NEW r \in Revisions, NEW observed \in BOOLEAN,
             RecordCommit(a, o, f, g, r, observed)
      PROVE  Result
  <2> DEFINE s == IF ops[o].candidate # None /\ IsPublished(r) THEN "indexed" ELSE "committed"
             receipt == [ops[o] EXCEPT !.status = s, !.revision = r,
                           !.observedExisting = ops[o].observedExisting \/ observed,
                           !.generation = g + 1]
  <2>1. ops' = [ops EXCEPT ![o] = receipt] /\ ops[o].status \in Outstanding
    BY <1>7 DEF RecordCommit
  <2>2. s # "absent"
    OBVIOUS
  <2>3. /\ receipt.status = s /\ receipt.intake = ops[o].intake
        /\ receipt.candidate = ops[o].candidate /\ receipt.token = ops[o].token
        /\ receipt.sendAuthorized = ops[o].sendAuthorized
    BY <1>0 DEF Operation
  <2> HIDE DEF receipt, s
  <2> QED BY <2>1, <2>2, <2>3, WriteStands
<1>8. CASE RecordIndex(a, o, g)
  <2> DEFINE receipt == [ops[o] EXCEPT !.status = "indexed", !.generation = g + 1]
  <2>1. ops' = [ops EXCEPT ![o] = receipt] /\ ops[o].status = "committed"
    BY <1>8 DEF RecordIndex
  <2>2. /\ receipt.status = "indexed" /\ receipt.intake = ops[o].intake
        /\ receipt.candidate = ops[o].candidate /\ receipt.token = ops[o].token
        /\ receipt.sendAuthorized = ops[o].sendAuthorized
        /\ receipt.revision = ops[o].revision
    BY <1>0 DEF Operation
  <2> HIDE DEF receipt
  <2> QED BY <2>1, <2>2, WriteStands
<1> QED BY <1>1, <1>2, <1>3, <1>4, <1>5, <1>6, <1>7, <1>8 DEF Evidence

\* Every step of the store leaves receipts standing, and accepted revisions accepted.
LEMMA StoreStands ==
  ASSUME TypeOK, [Next]_vars
  PROVE  /\ \A p \in Operations : Stands(p)
         /\ \A r \in Revisions : IsAccepted(r) => IsAccepted(r)'
<1>1. \A p \in Operations : Stands(p)
  <2>1. ASSUME ops' = ops PROVE \A p \in Operations : Stands(p)
    BY <2>1 DEF Stands, Exists
  <2>2. ASSUME NEW i \in Intakes, Intake(i) PROVE \A p \in Operations : Stands(p)
    BY <2>2 DEF Intake, TypeOK, Stands, Exists
  <2>3. ASSUME NEW a, NEW r, NEW w, NEW f, PublishIndex(a, r, w, f), NEW p \in Operations
        PROVE  Stands(p)
    <3>0. ops[p] \in Operation
      BY DEF TypeOK
    <3>1. CASE p \in AwaitingGraph(r)
      <4>1. /\ ops[p].status = "committed"
            /\ ops'[p] = [ops[p] EXCEPT !.status = "indexed", !.generation = @ + 1]
        BY <2>3, <3>1 DEF PublishIndex, AwaitingGraph
      <4>2. /\ ops'[p].status = "indexed" /\ ops'[p].intake = ops[p].intake
            /\ ops'[p].candidate = ops[p].candidate /\ ops'[p].token = ops[p].token
            /\ ops'[p].sendAuthorized = ops[p].sendAuthorized
            /\ ops'[p].revision = ops[p].revision
        BY <3>0, <4>1 DEF Operation
      <4> QED BY <4>1, <4>2 DEF Stands, Accepted, Outstanding
    <3>2. CASE p \notin AwaitingGraph(r)
      <4>1. ops'[p] = ops[p]
        BY <2>3, <3>2 DEF PublishIndex
      <4> QED BY <4>1 DEF Stands, Exists
    <3> QED BY <3>1, <3>2
  <2> QED BY <2>1, <2>2, <2>3, DispatchStands, WhatMoves
<1>2. ASSUME NEW r \in Revisions, IsAccepted(r) PROVE IsAccepted(r)'
  <2>0. accepted \in [Revisions -> AcceptedRow]
    BY DEF TypeOK, IndexTypeOK
  <2>1. CASE UNCHANGED accepted
    BY <1>2, <2>1 DEF IsAccepted
  <2>2. ASSUME NEW b, NEW q \in Revisions, NEW c, Enqueue(b, q, c) PROVE accepted'[r] = accepted[r]
    BY <1>2, <2>0, <2>2 DEF Enqueue
  <2>3. ASSUME NEW a \in Actors, NEW o \in Operations, DispatchStep(a, o)
        PROVE  accepted'[r] = accepted[r]
    <3>1. ASSUME NEW f, NEW g, NEW q \in Revisions, NEW observed,
                 RecordCommit(a, o, f, g, q, observed)
          PROVE  accepted'[r] = accepted[r]
      BY <2>2, <3>1 DEF RecordCommit, indexVars
    <3>2. CASE ~\E f \in {ops[o].token}, g \in {ops[o].generation}, q \in Evidence(o),
                  observed \in BOOLEAN : RecordCommit(a, o, f, g, q, observed)
      BY <2>3, <3>2 DEF DispatchStep, Reserve, RejectBeforeDispatch, CancelReserved, Prepare,
                AuthorizeSend, MarkAmbiguous, RecordIndex, indexVars
    <3> QED BY <3>1, <3>2 DEF Evidence
  <2>4. \/ UNCHANGED accepted
        \/ \E a \in Actors, o \in Operations : DispatchStep(a, o)
    <3>1. ASSUME NEW a, NEW q, IndexStep(a, q) PROVE UNCHANGED accepted
      <4>1. ASSUME NEW w, NEW f, PublishIndex(a, q, w, f) PROVE UNCHANGED accepted
        BY <4>1 DEF PublishIndex, PublishJob
      <4>2. ASSUME NEW w, NEW f, NEW g, SealIndex(a, q, w, f, g) PROVE UNCHANGED accepted
        BY <4>2 DEF SealIndex, SealJob
      <4>3. ASSUME NEW w, NEW wanted, ClaimIndex(a, q, w, wanted) PROVE UNCHANGED accepted
        BY <4>3 DEF ClaimIndex, ClaimJob
      <4>4. ASSUME RemoveProjection(a, q) PROVE UNCHANGED accepted
        BY <4>4 DEF RemoveProjection, RemoveGraph
      <4> QED BY <3>1, <4>1, <4>2, <4>3, <4>4 DEF IndexStep
    <3>2. ASSUME NEW a, NEW b, NEW q, NEW u, ObserveHead(a, b, q, u) PROVE UNCHANGED accepted
      BY <3>2 DEF ObserveHead, ObserveBranchHead
    <3>3. ASSUME NEW a, NEW t, NEW permissions, SetGrant(a, t, permissions) PROVE UNCHANGED accepted
      BY <3>3 DEF SetGrant, indexVars
    <3>4. ASSUME NEW q, LeaseExpires(q) PROVE UNCHANGED accepted
      BY <3>4 DEF LeaseExpires, ExpireLease
    <3>5. ASSUME NEW i, Intake(i) PROVE UNCHANGED accepted
      BY <3>5 DEF Intake, indexVars
    <3>6. UNCHANGED vars => UNCHANGED accepted
      BY DEF vars, indexVars
    <3> QED BY <3>1, <3>2, <3>3, <3>4, <3>5, <3>6 DEF Next
  <2> QED BY <1>2, <2>1, <2>3, <2>4 DEF IsAccepted
<1> QED BY <1>1, <1>2
-----------------------------------------------------------------------------
\* A marked commit is immutable: the provider only writes what was not made.
LEMMA CommitsStand ==
  ASSUME OwnerStateInv, [OwnerNext]_ownerVars, NEW r \in Revisions,
         commits[r].operation # None
  PROVE  commits'[r] = commits[r]
<1>0. commits[r].made /\ commits \in [Revisions -> Commit]
  BY DEF OwnerStateInv, PromiseInv, CommitsMarked, OwnerInv, OwnerTypes
<1>1. CASE UNCHANGED commits
  BY <1>1
<1>2. ASSUME NEW q, NEW p \in Revisions, Applies(q, p) PROVE commits'[r] = commits[r]
  BY <1>0, <1>2 DEF Applies
<1>3. ASSUME NEW b, NEW p \in Revisions, ExternalCommit(b, p) PROVE commits'[r] = commits[r]
  BY <1>0, <1>3 DEF ExternalCommit
<1>4. ASSUME NEW t \in Tasks, Continue(t) \/ Abandon(t)
                              \/ \E o \in Operations : Admit(t, o) \/ StartReconcile(t, o)
      PROVE  UNCHANGED commits
  BY <1>4 DEF Continue, TaskReserve, FetchHead, Plan, TaskCancel, TaskPrepare, TaskObserve,
              TaskAuthorize, Send, Answer, AnswerLost, Verify, TaskAmbiguous, TaskRecord, Search,
              Refused, Abandon, Admit, StartReconcile, Quiet, providerVars
<1>5. ASSUME NEW v \in Observers, Observe(v) \/ ObserverGivesUp(v) PROVE UNCHANGED commits
  BY <1>5 DEF Observe, ObserverFetch, ObserverJudge, ObserverWrite, ObserverGivesUp, providerVars
<1>6. Elsewhere \/ UNCHANGED ownerVars => UNCHANGED commits
  BY DEF Elsewhere, ownerVars, providerVars
<1>7. ASSUME NEW q, Loses(q) PROVE UNCHANGED commits
  BY <1>7 DEF Loses
<1> QED BY <1>1, <1>2, <1>3, <1>4, <1>5, <1>6, <1>7 DEF OwnerNext, Provider

(***************************************************************************)
(* What every step leaves standing: the receipts' past, the accepted       *)
(* revisions, the marked commits, and the earlier invariants.              *)
(***************************************************************************)
Standing ==
  /\ \A o \in Operations : Stands(o)
  /\ \A r \in Revisions : IsAccepted(r) => IsAccepted(r)'
  /\ \A r \in Revisions : commits[r].operation # None =>
       /\ commits'[r] = commits[r]
       /\ ops'[commits[r].operation].status # "absent"
       /\ ops'[commits[r].operation].intake = ops[commits[r].operation].intake
  /\ OwnerInv'

\* The types of what the promise is about.
LEMMA OwnerRowTypes ==
  ASSUME OwnerStateInv
  PROVE  /\ \A r \in Revisions : /\ commits[r] \in Commit
                                 /\ commits[r].operation \in Maybe(Operations)
                                 /\ commits[r].candidate \in Maybe(Candidates)
         /\ \A q \in requests : /\ q.operation \in Operations
                                /\ q.candidate \in Candidates
         /\ \A t \in Tasks : tasks[t] \in Task /\ Ready(tasks[t], ops)
         /\ \A o \in Operations : ops[o] \in Operation
BY DEF OwnerStateInv, OwnerInv, OwnerTypes, TasksReady, Commit, Request, DispatchInv, TypeOK

LEMMA StepStanding ==
  ASSUME OwnerStateInv, [OwnerNext]_ownerVars
  PROVE  Standing
<1>1. [Next]_vars /\ TypeOK
  BY OwnerStepIsStep DEF OwnerStateInv, OwnerInv
<1>2. /\ \A o \in Operations : Stands(o)
      /\ \A r \in Revisions : IsAccepted(r) => IsAccepted(r)'
  BY <1>1, StoreStands
<1>3. ASSUME NEW r \in Revisions, commits[r].operation # None
      PROVE  /\ commits'[r] = commits[r]
             /\ ops'[commits[r].operation].status # "absent"
             /\ ops'[commits[r].operation].intake = ops[commits[r].operation].intake
  <2>1. commits[r].operation \in Operations /\ Exists(commits[r].operation)
    BY <1>3, OwnerRowTypes DEF OwnerStateInv, PromiseInv, CommitsMarked
  <2> QED BY <1>2, <1>3, <2>1, CommitsStand DEF Stands
<1>4. OwnerInv'
  BY OwnerInvStep DEF OwnerStateInv
<1> QED BY <1>2, <1>3, <1>4 DEF Standing
-----------------------------------------------------------------------------
\* A request that rests knows what it knew, unless the provider got its create from another.
LEMMA KnowsKept ==
  ASSUME OwnerStateInv, Standing, NEW t \in Tasks, tasks'[t] = tasks[t],
         \A p \in Operations : tasks[t].pc = "authorized" /\ p = tasks[t].operation
                               => (Asked(p)' => Asked(p))
  PROVE  Knows(t)'
<1> DEFINE k == tasks[t]
           o == k.operation
<1>0. k \in Task /\ Ready(k, ops) /\ Knows(t)
  BY OwnerRowTypes DEF OwnerStateInv, PromiseInv, TasksKnow
<1>1. CASE k.pc = "idle"
  BY <1>1 DEF Knows
<1>2. CASE k.pc # "idle"
  <2>1. o \in Operations /\ Exists(o) /\ Stands(o)
    BY <1>0, <1>2 DEF Ready, Exists, Standing
  <2>2. k.pc \notin {"idle", "admitted"} => ops'[o].token = k.token /\ k.token # 0
    BY <1>0, <2>1 DEF Knows, Stands
  <2>3. k.pc = "authorized" => ops'[o].sendAuthorized /\ ~Asked(o)'
    <3>1. Asked(o)' = (\/ \E q \in requests' : q.operation = o
                       \/ \E r \in Revisions : commits'[r].operation = o)
      BY DEF Asked
    <3>2. ASSUME k.pc = "authorized" PROVE ~Asked(o)'
      <4>1. PICK p \in Operations : p = o
        BY <2>1
      <4>2. Asked(p)' => Asked(p)
        BY <3>2, <4>1
      <4>3. ~Asked(p)
        BY <1>0, <3>2, <4>1 DEF Knows
      <4> QED BY <3>1, <4>1, <4>2, <4>3 DEF Asked
    <3> QED BY <1>0, <2>1, <3>2 DEF Knows, Stands
  <2>4. k.pc \in {"responded", "proven"} => commits'[k.revision].operation = o
    <3>1. ASSUME k.pc \in {"responded", "proven"} PROVE commits'[k.revision].operation = o
      <4>1. k.revision \in Revisions /\ commits[k.revision].operation = o
        BY <1>0, <3>1 DEF Ready, Knows
      <4>2. o # None
        BY <2>1, StoreAssumption
      <4> QED BY <4>1, <4>2 DEF Standing
    <3> QED BY <3>1
  <2>5. ASSUME k.pc \in {"preparing", "prepared"}, k.existing
        PROVE  /\ commits'[k.head].operation # None
               /\ commits'[k.head].candidate = k.candidate
               /\ ops'[commits'[k.head].operation].intake.branch = ops'[o].intake.branch
    <3>1. k.head \in Revisions
      BY <1>0, <2>5 DEF Ready, Fits
    <3>2. /\ commits[k.head].operation # None
          /\ commits[k.head].candidate = k.candidate
          /\ ops[commits[k.head].operation].intake.branch = ops[o].intake.branch
      BY <1>0, <2>5 DEF Knows, BranchOf
    <3>3. ops'[o].intake = ops[o].intake
      BY <2>1 DEF Stands
    <3> QED BY <3>1, <3>2, <3>3 DEF Standing
  <2> QED BY <2>2, <2>3, <2>4, <2>5 DEF Knows, BranchOf
<1> QED BY <1>1, <1>2

\* Only t goes on, and the provider gets no create but t's.
LEMMA BecomeKnows ==
  ASSUME OwnerStateInv, Standing, NEW t \in Tasks, NEW n, Become(t, n), Knows(t)',
         \A u \in Tasks, p \in Operations :
            u # t /\ tasks[u].pc = "authorized" /\ p = tasks[u].operation
              => (Asked(p)' => Asked(p))
  PROVE  TasksKnow'
<1>1. \A u \in Tasks : u # t => tasks'[u] = tasks[u]
  BY DEF OwnerStateInv, OwnerInv, OwnerTypes, Become
<1>2. \A u \in Tasks : u # t => Knows(u)'
  BY <1>1, KnowsKept
<1> QED BY <1>2 DEF TasksKnow

LEMMA EndKnows ==
  ASSUME OwnerStateInv, Standing, NEW t \in Tasks, End(t), UNCHANGED <<requests, commits>>
  PROVE  TasksKnow'
<1>1. tasks'[t] = IdleTask
  BY DEF End, Become, OwnerStateInv, OwnerInv, OwnerTypes
<1>2. Knows(t)'
  BY <1>1 DEF Knows, IdleTask
<1>3. \A p \in Operations : Asked(p)' => Asked(p)
  BY DEF Asked
<1> QED BY <1>2, <1>3, BecomeKnows DEF End

\* promote, from the receipt to the candidate.
LEMMA PlanningKnows ==
  ASSUME OwnerStateInv, Standing, NEW t \in Tasks,
         \/ \E o \in Operations : Admit(t, o) \/ StartReconcile(t, o)
         \/ TaskReserve(t) \/ FetchHead(t) \/ Plan(t) \/ TaskPrepare(t) \/ TaskAuthorize(t)
  PROVE  TasksKnow'
<1> DEFINE k == tasks[t]
           o == k.operation
<1>0. k \in Task /\ Ready(k, ops) /\ Knows(t) /\ tasks \in [Tasks -> Task]
  BY OwnerRowTypes DEF OwnerStateInv, PromiseInv, TasksKnow, OwnerInv, OwnerTypes
<1>1. UNCHANGED <<requests, commits>>
  BY DEF Admit, StartReconcile, TaskReserve, FetchHead, Plan, TaskPrepare, TaskAuthorize,
         Quiet, providerVars
<1>2. \A p \in Operations : Asked(p)' => Asked(p)
  BY <1>1 DEF Asked
<1>3. ASSUME NEW n, Become(t, n), Knows(t)' PROVE TasksKnow'
  BY <1>2, <1>3, BecomeKnows
<1>4. ASSUME NEW n, Become(t, n) PROVE tasks'[t] = n
  BY <1>0, <1>4 DEF Become
<1>5. ASSUME NEW p \in Operations, Admit(t, p) PROVE TasksKnow'
  <2> DEFINE n == [IdleTask EXCEPT !.pc = "admitted", !.operation = p,
                                   !.generation = ops[p].generation]
  <2>1. Become(t, n) /\ n.pc = "admitted"
    BY <1>5 DEF Admit, IdleTask
  <2> HIDE DEF n
  <2> QED BY <1>3, <1>4, <2>1 DEF Knows
<1>6. ASSUME NEW p \in Operations, StartReconcile(t, p) PROVE TasksKnow'
  <2> DEFINE op == ops[p]
             n == [IdleTask EXCEPT
                     !.pc = IF op.sendAuthorized THEN "searching" ELSE "cancelling",
                     !.operation = p, !.generation = op.generation, !.token = op.token,
                     !.candidate = IF op.sendAuthorized THEN op.candidate ELSE None,
                     !.status = IF op.sendAuthorized THEN op.status ELSE "unavailable"]
  <2>1. Become(t, n) /\ ops' = ops /\ ops[p].token # 0
    BY <1>6 DEF StartReconcile, vars, storeVars, Reconcilable, Unresolved
  <2>2. n.pc \in {"searching", "cancelling"} /\ n.operation = p /\ n.token = ops[p].token
    BY DEF IdleTask
  <2> HIDE DEF n
  <2> QED BY <1>3, <1>4, <2>1, <2>2 DEF Knows
<1>7. CASE TaskReserve(t)
  <2> DEFINE n == [k EXCEPT !.pc = "reserved", !.generation = k.generation + 1,
                            !.token = fences[BranchOf(k.operation)] + 1]
  <2>1. Become(t, n) /\ Reserve(Owner, o, k.generation) /\ o \in Operations /\ Exists(o)
    BY <1>0, <1>7 DEF TaskReserve, Ready, Exists
  <2>2. n.pc = "reserved" /\ n.operation = o /\ n.token = fences[BranchOf(o)] + 1
    BY <1>0 DEF Task
  <2>3. ops'[o].token = fences[BranchOf(o)] + 1
    BY <2>1 DEF Reserve, OwnerStateInv, DispatchInv, TypeOK, Operation
  <2>4. fences[BranchOf(o)] + 1 # 0
    <3>1. BranchOf(o) \in Branches /\ TypeOK
      BY <2>1, BranchType DEF OwnerStateInv, DispatchInv
    <3> QED BY <3>1 DEF TypeOK
  <2> HIDE DEF n
  <2> QED BY <1>3, <1>4, <2>1, <2>2, <2>3, <2>4 DEF Knows
<1>8. CASE FetchHead(t)
  <2>1. k.pc = "reserved" /\ ops' = ops /\ ops[o].token = k.token /\ k.token # 0
    BY <1>0, <1>8 DEF FetchHead, vars, storeVars, Knows
  <2>2. ASSUME NEW n, Become(t, n), n.pc \in {"planning", "cancelling"},
               n.operation = o, n.token = k.token
        PROVE  TasksKnow'
    BY <1>3, <1>4, <2>1, <2>2 DEF Knows
  <2>3. PICK n : /\ Become(t, n)
                 /\ \/ n = [k EXCEPT !.pc = "planning", !.head = remote[BranchOf(k.operation)]]
                    \/ n = [k EXCEPT !.pc = "cancelling", !.status = "unavailable"]
    BY <1>8 DEF FetchHead
  <2>4. n.pc \in {"planning", "cancelling"} /\ n.operation = o /\ n.token = k.token
    BY <1>0, <2>3 DEF Task
  <2> QED BY <2>2, <2>3, <2>4
<1>9. CASE Plan(t)
  <2> DEFINE mine == ops[o].intake.proposal
             Proposing(c, e) == [k EXCEPT !.pc = "preparing", !.candidate = c, !.existing = e]
             Rejecting(s) == [k EXCEPT !.pc = "cancelling", !.status = s]
  <2>1. /\ k.pc = "planning" /\ ops' = ops /\ commits' = commits
        /\ ops[o].token = k.token /\ k.token # 0
    BY <1>0, <1>1, <1>9 DEF Plan, vars, storeVars, Knows
  <2>2. CASE NoOp(o, k.head) /\ Become(t, Proposing(mine, TRUE))
    <3> DEFINE n == Proposing(mine, TRUE)
    <3>1. /\ n.pc = "preparing" /\ n.operation = o /\ n.token = k.token
          /\ n.head = k.head /\ n.candidate = mine
      BY <1>0 DEF Task
    <3>2. /\ commits[k.head].operation # None
          /\ BranchOf(commits[k.head].operation) = BranchOf(o)
          /\ commits[k.head].candidate = mine
      BY <2>2 DEF NoOp, Verified
    <3> HIDE DEF n, mine
    <3>3. tasks'[t] = n
      BY <1>4, <2>2 DEF n
    <3>4. Knows(t)'
      BY <2>1, <3>1, <3>2, <3>3 DEF Knows, BranchOf
    <3> QED BY <1>3, <2>2, <3>4
  <2>3. ASSUME NEW c, Become(t, Proposing(c, FALSE)) PROVE TasksKnow'
    <3> DEFINE n == Proposing(c, FALSE)
    <3>1. n.pc = "preparing" /\ n.operation = o /\ n.token = k.token /\ ~n.existing
      BY <1>0 DEF Task
    <3> HIDE DEF n
    <3>2. Become(t, n) /\ tasks'[t] = n
      BY <1>4, <2>3 DEF n
    <3>3. Knows(t)'
      BY <2>1, <3>1, <3>2 DEF Knows
    <3> QED BY <1>3, <3>2, <3>3
  <2>4. ASSUME NEW s, Become(t, Rejecting(s)) PROVE TasksKnow'
    <3> DEFINE n == Rejecting(s)
    <3>1. n.pc = "cancelling" /\ n.operation = o /\ n.token = k.token
      BY <1>0 DEF Task
    <3> HIDE DEF n
    <3>2. Become(t, n) /\ tasks'[t] = n
      BY <1>4, <2>4 DEF n
    <3>3. Knows(t)'
      BY <2>1, <3>1, <3>2 DEF Knows
    <3> QED BY <1>3, <3>2, <3>3
  <2> HIDE DEF mine, Proposing, Rejecting
  <2>5. \/ NoOp(o, k.head) /\ Become(t, Proposing(mine, TRUE))
        \/ \E c : Become(t, Proposing(c, FALSE))
        \/ \E s : Become(t, Rejecting(s))
    BY <1>9 DEF Plan, mine, Proposing, Rejecting
  <2> QED BY <2>2, <2>3, <2>4, <2>5
<1>10. CASE TaskPrepare(t)
  <2> DEFINE n == [k EXCEPT !.pc = "prepared", !.generation = k.generation + 1]
  <2>1. /\ Become(t, n) /\ k.pc = "preparing" /\ o \in Operations
    BY <1>0, <1>10 DEF TaskPrepare, Ready
  <2>2. /\ n.pc = "prepared" /\ n.operation = o /\ n.token = k.token /\ n.head = k.head
        /\ n.candidate = k.candidate /\ n.existing = k.existing
    BY <1>0 DEF Task
  <2>3. tasks'[t] = n
    BY <1>4, <2>1
  <2> HIDE DEF n
  <2>4. Exists(o) /\ Stands(o) /\ (k.existing => k.head \in Revisions)
    BY <1>0, <2>1 DEF Ready, Exists, Standing, Fits
  <2>5. ops'[o].token = k.token /\ k.token # 0 /\ ops'[o].intake = ops[o].intake
    BY <1>0, <2>1, <2>4 DEF Knows, Stands
  <2>6. ASSUME k.existing
        PROVE  /\ commits'[k.head].operation # None
               /\ commits'[k.head].candidate = k.candidate
               /\ ops'[commits'[k.head].operation].intake.branch = ops'[o].intake.branch
    <3>1. /\ commits[k.head].operation # None
          /\ commits[k.head].candidate = k.candidate
          /\ ops[commits[k.head].operation].intake.branch = ops[o].intake.branch
      BY <1>0, <2>1, <2>6 DEF Knows, BranchOf
    <3> QED BY <2>4, <2>5, <2>6, <3>1 DEF Standing
  <2>7. Knows(t)'
    BY <2>2, <2>3, <2>5, <2>6 DEF Knows, BranchOf
  <2> QED BY <1>3, <2>1, <2>7
<1>11. CASE TaskAuthorize(t)
  <2> DEFINE n == [k EXCEPT !.pc = "authorized", !.generation = k.generation + 1]
  <2>1. /\ Become(t, n) /\ k.pc = "prepared" /\ o \in Operations
        /\ AuthorizeSend(Owner, o, k.token, k.generation, TRUE)
    BY <1>0, <1>11 DEF TaskAuthorize, Ready
  <2>2. n.pc = "authorized" /\ n.operation = o /\ n.token = k.token
    BY <1>0 DEF Task
  <2>3. tasks'[t] = n
    BY <1>4, <2>1
  <2> HIDE DEF n
  <2>4. ~ops[o].sendAuthorized /\ ops'[o].sendAuthorized /\ ops'[o].token = ops[o].token
    BY <2>1 DEF AuthorizeSend, OwnerStateInv, DispatchInv, TypeOK, Operation
  <2>5. ~Asked(o)
    BY <2>1, <2>4, StoreAssumption DEF OwnerStateInv, PromiseInv, CreatesAuthorized, Asked
  <2>6. Knows(t)'
    BY <1>0, <1>2, <2>1, <2>2, <2>3, <2>4, <2>5 DEF Knows
  <2> QED BY <1>3, <2>1, <2>6
<1> QED BY <1>5, <1>6, <1>7, <1>8, <1>9, <1>10, <1>11

\* promote from the send on, and reconcile's search.
LEMMA SendingKnows ==
  ASSUME OwnerStateInv, Standing, NEW t \in Tasks, UNCHANGED <<ops, commits>>,
         Send(t) \/ Answer(t) \/ AnswerLost(t) \/ Verify(t) \/ Search(t)
  PROVE  TasksKnow'
<1> DEFINE k == tasks[t]
           o == k.operation
<1>0. k \in Task /\ Ready(k, ops) /\ Knows(t) /\ tasks \in [Tasks -> Task]
  BY OwnerRowTypes DEF OwnerStateInv, PromiseInv, TasksKnow, OwnerInv, OwnerTypes
<1>1. ASSUME NEW n, Become(t, n) PROVE tasks'[t] = n
  BY <1>0, <1>1 DEF Become
<1>2. ~Send(t) => \A p \in Operations : Asked(p)' => Asked(p)
  BY DEF Answer, AnswerLost, Verify, Search, Quiet, providerVars, Asked
<1>3. CASE Send(t)
  <2> DEFINE n == [k EXCEPT !.pc = "sent"]
             q == [operation |-> o, parent |-> k.head, candidate |-> k.candidate]
  <2>1. Become(t, n) /\ requests' = requests \union {q} /\ k.pc = "authorized"
    BY <1>3 DEF Send
  <2>2. n.pc = "sent" /\ n.operation = o /\ n.token = k.token
    BY <1>0 DEF Task
  <2> HIDE DEF n
  <2>3. tasks'[t] = n
    BY <1>1, <2>1
  <2>4. Knows(t)'
    BY <1>0, <2>1, <2>2, <2>3 DEF Knows
  <2>5. ASSUME NEW u \in Tasks, NEW p \in Operations, u # t,
               tasks[u].pc = "authorized", p = tasks[u].operation, Asked(p)'
        PROVE  Asked(p)
    <3>1. p # o
      BY <2>1, <2>5 DEF OwnerStateInv, PromiseInv, PermitHeldOnce
    <3> QED BY <2>1, <2>5, <3>1 DEF Asked
  <2> QED BY <2>1, <2>4, <2>5, BecomeKnows
<1>4. ASSUME NEW n, Become(t, n), ~Send(t), n.operation = o, n.token = k.token,
             k.pc \notin {"idle", "admitted"},
             \/ n.pc = "unknown"
             \/ /\ n.pc \in {"responded", "proven"} /\ n.revision \in Revisions
                /\ commits[n.revision].operation = o
      PROVE  TasksKnow'
  <2>1. tasks'[t] = n
    BY <1>1, <1>4
  <2>2. Knows(t)'
    BY <1>0, <1>4, <2>1 DEF Knows
  <2> QED BY <1>2, <1>4, <2>2, BecomeKnows
<1>5. ASSUME Become(t, [k EXCEPT !.pc = "unknown"]), ~Send(t),
             k.pc \in {"sent", "responded", "searching"}
      PROVE  TasksKnow'
  <2> DEFINE n == [k EXCEPT !.pc = "unknown"]
  <2>1. n.pc = "unknown" /\ n.operation = o /\ n.token = k.token
    BY <1>0 DEF Task
  <2>2. Become(t, n)
    BY <1>5
  <2> HIDE DEF n
  <2> QED BY <1>4, <1>5, <2>1, <2>2
<1>6. CASE Answer(t)
  <2>1. PICK r \in Revisions : /\ commits[r].operation = o
                               /\ Become(t, [k EXCEPT !.pc = "responded", !.revision = r])
    BY <1>6 DEF Answer
  <2> DEFINE n == [k EXCEPT !.pc = "responded", !.revision = r]
  <2>2. n.pc = "responded" /\ n.operation = o /\ n.token = k.token /\ n.revision = r
    BY <1>0 DEF Task
  <2>3. Become(t, n) /\ k.pc = "sent" /\ ~Send(t)
    BY <1>6, <2>1 DEF Answer, Send
  <2> HIDE DEF n
  <2> QED BY <1>4, <2>1, <2>2, <2>3
<1>7. CASE AnswerLost(t)
  BY <1>5, <1>7 DEF AnswerLost, Send
<1>8. CASE Verify(t)
  <2>1. k.pc = "responded" /\ ~Send(t)
    BY <1>8 DEF Verify, Send
  <2>2. CASE Become(t, [k EXCEPT !.pc = "proven"])
    <3> DEFINE n == [k EXCEPT !.pc = "proven"]
    <3>1. n.pc = "proven" /\ n.operation = o /\ n.token = k.token /\ n.revision = k.revision
      BY <1>0 DEF Task
    <3>2. k.revision \in Revisions /\ commits[k.revision].operation = o
      BY <1>0, <2>1 DEF Ready, Knows
    <3>3. Become(t, n)
      BY <2>2
    <3> HIDE DEF n
    <3> QED BY <1>4, <2>1, <3>1, <3>2, <3>3
  <2> QED BY <1>5, <1>8, <2>1, <2>2 DEF Verify
<1>9. CASE Search(t)
  <2>1. k.pc = "searching" /\ ~Send(t)
    BY <1>9 DEF Search, Send
  <2>2. ASSUME NEW r \in Revisions, Matches(k) = {r},
               Become(t, [k EXCEPT !.pc = "proven", !.revision = r])
        PROVE  TasksKnow'
    <3> DEFINE n == [k EXCEPT !.pc = "proven", !.revision = r]
    <3>1. n.pc = "proven" /\ n.operation = o /\ n.token = k.token /\ n.revision = r
      BY <1>0 DEF Task
    <3>2. commits[r].operation = o
      <4>1. r \in Matches(k)
        BY <2>2
      <4> QED BY <4>1 DEF Matches
    <3>3. Become(t, n)
      BY <2>2
    <3> HIDE DEF n
    <3> QED BY <1>4, <2>1, <3>1, <3>2, <3>3
  <2>3. CASE End(t)
    BY <1>9, <2>3, EndKnows DEF Search, Quiet, providerVars
  <2> QED BY <1>5, <1>9, <2>1, <2>2, <2>3 DEF Search
<1> QED BY <1>3, <1>6, <1>7, <1>8, <1>9

\* What every request has read stays true, and the permission stays with one.
LEMMA TasksKnowStep ==
  ASSUME OwnerStateInv, Standing, [OwnerNext]_ownerVars
  PROVE  TasksKnow'
<1>1. ASSUME tasks' = tasks, \A p \in Operations : Asked(p)' => Asked(p) PROVE TasksKnow'
  BY <1>1, KnowsKept DEF TasksKnow
<1>2. ASSUME NEW t \in Tasks, Continue(t) \/ Abandon(t)
                              \/ \E o \in Operations : Admit(t, o) \/ StartReconcile(t, o)
      PROVE  TasksKnow'
  <2>1. CASE TaskCancel(t) \/ TaskObserve(t) \/ TaskAmbiguous(t) \/ TaskRecord(t)
             \/ Refused(t) \/ Abandon(t)
    <3>1. End(t) /\ UNCHANGED <<requests, commits>>
      BY <2>1 DEF TaskCancel, TaskObserve, TaskAmbiguous, TaskRecord, Refused, Abandon,
                  Quiet, providerVars
    <3> QED BY <3>1, EndKnows
  <2>2. CASE Send(t) \/ Answer(t) \/ AnswerLost(t) \/ Verify(t) \/ Search(t)
    <3>1. UNCHANGED <<ops, commits>>
      BY <2>2 DEF Send, Answer, AnswerLost, Verify, Search, Quiet, providerVars, vars, storeVars
    <3> QED BY <2>2, <3>1, SendingKnows
  <2> QED BY <1>2, <2>1, <2>2, PlanningKnows DEF Continue
<1>3. ASSUME NEW v \in Observers, Observe(v) \/ ObserverGivesUp(v) PROVE TasksKnow'
  <2>1. tasks' = tasks /\ UNCHANGED <<requests, commits>>
    BY <1>3 DEF Observe, ObserverFetch, ObserverJudge, ObserverWrite, ObserverGivesUp,
                providerVars
  <2> QED BY <1>1, <2>1 DEF Asked
<1>4. CASE Elsewhere \/ UNCHANGED ownerVars
  <2>1. tasks' = tasks /\ UNCHANGED <<requests, commits>>
    BY <1>4 DEF Elsewhere, ownerVars, processVars, providerVars
  <2> QED BY <1>1, <2>1 DEF Asked
<1>5. ASSUME NEW q \in requests, Loses(q) PROVE TasksKnow'
  <2>1. tasks' = tasks /\ requests' = requests \ {q} /\ commits' = commits
    BY <1>5 DEF Loses, processVars
  <2> QED BY <1>1, <2>1 DEF Asked
<1>6. ASSUME NEW q \in requests, NEW r \in Revisions, Applies(q, r) PROVE TasksKnow'
  <2>1. /\ tasks' = tasks /\ requests' = requests \ {q}
        /\ commits' = [commits EXCEPT ![r] = [made |-> TRUE, operation |-> q.operation,
                                              candidate |-> q.candidate]]
    BY <1>6 DEF Applies, processVars
  <2>2. \A p \in Operations : Asked(p)' => Asked(p)
    BY <2>1 DEF Asked, OwnerStateInv, OwnerInv, OwnerTypes
  <2> QED BY <1>1, <2>1, <2>2
<1>7. ASSUME NEW b \in Branches, NEW r \in Revisions, ExternalCommit(b, r) PROVE TasksKnow'
  <2>1. /\ tasks' = tasks /\ requests' = requests
        /\ commits' = [commits EXCEPT ![r].made = TRUE]
    BY <1>7 DEF ExternalCommit, processVars
  <2>2. \A p \in Revisions : commits'[p].operation = commits[p].operation
    BY <2>1 DEF OwnerStateInv, OwnerInv, OwnerTypes, Commit
  <2> QED BY <1>1, <2>1, <2>2 DEF Asked
<1> QED BY <1>2, <1>3, <1>4, <1>5, <1>6, <1>7 DEF OwnerNext, Provider

LEMMA PermitStep ==
  ASSUME OwnerStateInv, [OwnerNext]_ownerVars
  PROVE  PermitHeldOnce'
<1>0. tasks \in [Tasks -> Task]
  BY DEF OwnerStateInv, OwnerInv, OwnerTypes
<1>1. ASSUME NEW t \in Tasks, TaskAuthorize(t) PROVE PermitHeldOnce'
  <2>1. /\ tasks' = [tasks EXCEPT ![t] = [tasks[t] EXCEPT !.pc = "authorized",
                                             !.generation = tasks[t].generation + 1]]
        /\ ~ops[tasks[t].operation].sendAuthorized
    BY <1>1 DEF TaskAuthorize, Become, AuthorizeSend
  <2>2. tasks'[t].operation = tasks[t].operation /\ \A u \in Tasks : u # t => tasks'[u] = tasks[u]
    BY <1>0, <2>1 DEF Task
  <2>3. \A u \in Tasks : tasks[u].pc = "authorized" => ops[tasks[u].operation].sendAuthorized
    BY DEF OwnerStateInv, PromiseInv, TasksKnow, Knows
  <2>4. \A u \in Tasks : u # t /\ tasks'[u].pc = "authorized"
                           => tasks'[u].operation # tasks'[t].operation
    BY <2>1, <2>2, <2>3
  <2> QED BY <2>2, <2>4 DEF OwnerStateInv, PromiseInv, PermitHeldOnce
<1>2. ASSUME \A t \in Tasks : tasks'[t].pc = "authorized" => tasks'[t] = tasks[t]
      PROVE  PermitHeldOnce'
  BY <1>2 DEF OwnerStateInv, PromiseInv, PermitHeldOnce
<1>3. ASSUME NEW t \in Tasks, NEW n, Become(t, n), n.pc # "authorized" PROVE PermitHeldOnce'
  BY <1>0, <1>2, <1>3 DEF Become
<1>4. ASSUME NEW t \in Tasks, Continue(t), ~TaskAuthorize(t) PROVE PermitHeldOnce'
  <2>1. tasks[t] \in Task
    BY <1>0
  <2>2. CASE End(t)
    BY <1>3, <2>2 DEF End, IdleTask
  <2>3. CASE TaskReserve(t)
    BY <1>3, <2>1, <2>3 DEF TaskReserve, Task
  <2>4. CASE FetchHead(t)
    BY <1>3, <2>1, <2>4 DEF FetchHead, Task
  <2>5. CASE Plan(t)
    <3>1. PICK n : /\ Become(t, n)
                   /\ \/ \E c, e : n = [tasks[t] EXCEPT !.pc = "preparing", !.candidate = c,
                                                        !.existing = e]
                      \/ \E s : n = [tasks[t] EXCEPT !.pc = "cancelling", !.status = s]
      BY <2>5 DEF Plan
    <3>2. n.pc \in {"preparing", "cancelling"}
      BY <2>1, <3>1 DEF Task
    <3> QED BY <1>3, <3>1, <3>2
  <2>6. CASE TaskPrepare(t)
    BY <1>3, <2>1, <2>6 DEF TaskPrepare, Task
  <2>7. CASE Send(t) \/ Answer(t) \/ AnswerLost(t)
    BY <1>3, <2>1, <2>7 DEF Send, Answer, AnswerLost, Task
  <2>8. CASE Verify(t)
    BY <1>3, <2>1, <2>8 DEF Verify, Task
  <2>9. CASE Search(t) /\ ~End(t)
    BY <1>3, <2>1, <2>9 DEF Search, Task
  <2>10. TaskCancel(t) \/ TaskObserve(t) \/ TaskAmbiguous(t) \/ TaskRecord(t) \/ Refused(t)
           => End(t)
    BY DEF TaskCancel, TaskObserve, TaskAmbiguous, TaskRecord, Refused
  <2> QED BY <1>4, <2>2, <2>3, <2>4, <2>5, <2>6, <2>7, <2>8, <2>9, <2>10 DEF Continue
<1>5. ASSUME NEW t \in Tasks, Abandon(t) PROVE PermitHeldOnce'
  BY <1>3, <1>5 DEF Abandon, End, IdleTask
<1>6. ASSUME NEW t \in Tasks, NEW o \in Operations, Admit(t, o) PROVE PermitHeldOnce'
  BY <1>3, <1>6 DEF Admit, IdleTask
<1>7. ASSUME NEW t \in Tasks, NEW o \in Operations, StartReconcile(t, o) PROVE PermitHeldOnce'
  <2>1. PICK n : Become(t, n) /\ n.pc \in {"searching", "cancelling"}
    <3> DEFINE n == [IdleTask EXCEPT
                  !.pc = IF ops[o].sendAuthorized THEN "searching" ELSE "cancelling",
                  !.operation = o, !.generation = ops[o].generation,
                  !.token = ops[o].token,
                  !.candidate = IF ops[o].sendAuthorized THEN ops[o].candidate ELSE None,
                  !.status = IF ops[o].sendAuthorized THEN ops[o].status ELSE "unavailable"]
    <3>1. Become(t, n)
      BY <1>7 DEF StartReconcile
    <3>2. n.pc \in {"searching", "cancelling"}
      BY DEF IdleTask
    <3> HIDE DEF n
    <3> QED BY <3>1, <3>2
  <2> QED BY <1>3, <2>1
<1>8. CASE tasks' = tasks
  BY <1>2, <1>8
<1>9. ASSUME NEW v \in Observers, Observe(v) \/ ObserverGivesUp(v) PROVE tasks' = tasks
  BY <1>9 DEF Observe, ObserverFetch, ObserverJudge, ObserverWrite, ObserverGivesUp
<1>10. Provider \/ Elsewhere \/ UNCHANGED ownerVars => tasks' = tasks
  BY DEF Provider, Loses, Applies, ExternalCommit, Elsewhere, ownerVars, processVars
<1> QED BY <1>1, <1>4, <1>5, <1>6, <1>7, <1>8, <1>9, <1>10 DEF OwnerNext
-----------------------------------------------------------------------------
\* An authorized operation has a dispatched receipt and was not rejected.
LEMMA AuthorizedDispatched ==
  ASSUME OwnerStateInv, NEW o \in Operations, ops[o].sendAuthorized
  PROVE  Exists(o) /\ ops[o].token # 0 /\ ops[o].status \notin Rejections
BY DEF OwnerStateInv, DispatchInv, CommitJustified, Untouched

\* Where creates come from and go to.
LEMMA WhoCreates ==
  ASSUME [OwnerNext]_ownerVars
  PROVE  \/ UNCHANGED <<requests, commits, remote, external>>
         \/ \E t \in Tasks : Send(t)
         \/ \E q \in requests : Loses(q) \/ \E r \in Revisions : Applies(q, r)
         \/ \E b \in Branches, r \in Revisions : ExternalCommit(b, r)
<1>1. ASSUME NEW t \in Tasks, ~Send(t),
             Continue(t) \/ Abandon(t)
               \/ \E o \in Operations : Admit(t, o) \/ StartReconcile(t, o)
      PROVE  UNCHANGED <<requests, commits, remote, external>>
  BY <1>1 DEF Continue, TaskReserve, FetchHead, Plan, TaskCancel, TaskPrepare, TaskObserve,
              TaskAuthorize, Answer, AnswerLost, Verify, TaskAmbiguous, TaskRecord, Search,
              Refused, Abandon, Admit, StartReconcile, Quiet, providerVars
<1>2. ASSUME NEW v \in Observers, Observe(v) \/ ObserverGivesUp(v)
      PROVE  UNCHANGED <<requests, commits, remote, external>>
  BY <1>2 DEF Observe, ObserverFetch, ObserverJudge, ObserverWrite, ObserverGivesUp, providerVars
<1>3. Elsewhere \/ UNCHANGED ownerVars => UNCHANGED <<requests, commits, remote, external>>
  BY DEF Elsewhere, ownerVars, providerVars
<1> QED BY <1>1, <1>2, <1>3 DEF OwnerNext, Provider

LEMMA CommitsMarkedStep ==
  ASSUME OwnerStateInv, Standing, [OwnerNext]_ownerVars
  PROVE  CommitsMarked'
<1> SUFFICES ASSUME NEW r \in Revisions, commits'[r].operation # None
             PROVE  commits'[r].made /\ ops'[commits'[r].operation].status # "absent"
  BY DEF CommitsMarked, Exists
<1>0. commits \in [Revisions -> Commit]
  BY DEF OwnerStateInv, OwnerInv, OwnerTypes
<1>1. CASE commits[r].operation # None
  BY <1>1 DEF Standing, OwnerStateInv, PromiseInv, CommitsMarked
<1>2. CASE commits[r].operation = None
  <2>1. ASSUME NEW q \in requests, NEW p \in Revisions, Applies(q, p)
        PROVE  commits'[r].made /\ ops'[commits'[r].operation].status # "absent"
    <3>1. /\ commits' = [commits EXCEPT ![p] = [made |-> TRUE, operation |-> q.operation,
                                                candidate |-> q.candidate]]
          /\ ops' = ops
      BY <2>1 DEF Applies, vars, storeVars
    <3>2. q.operation \in Operations /\ ops[q.operation].sendAuthorized
      BY OwnerRowTypes DEF OwnerStateInv, PromiseInv, CreatesAuthorized
    <3>3. Exists(q.operation)
      BY <3>2, AuthorizedDispatched
    <3>4. r = p
      BY <1>0, <1>2, <3>1
    <3> QED BY <1>0, <3>1, <3>3, <3>4 DEF Exists
  <2>2. ASSUME NEW b, NEW p \in Revisions, ExternalCommit(b, p) PROVE commits'[r].operation = None
    BY <1>0, <1>2, <2>2 DEF ExternalCommit, Commit
  <2> QED BY <1>2, <2>1, <2>2, WhoCreates DEF Send, Loses
<1> QED BY <1>1, <1>2

(***************************************************************************)
(* A create leaves once: the request that holds the permission has sent    *)
(* nothing, and stops holding it by sending; the provider then turns the   *)
(* one request into the one commit.                                        *)
(***************************************************************************)
LEMMA OneCreateStep ==
  ASSUME OwnerStateInv, [OwnerNext]_ownerVars
  PROVE  OneCreate'
<1>0. commits \in [Revisions -> Commit] /\ OneCreate
  BY DEF OwnerStateInv, OwnerInv, OwnerTypes, PromiseInv
<1>1. CASE UNCHANGED <<requests, commits>>
  BY <1>0, <1>1 DEF OneCreate
<1>2. ASSUME NEW t \in Tasks, Send(t) PROVE OneCreate'
  <2>1. /\ \E h, c : requests' = requests \union {[operation |-> tasks[t].operation,
                                                  parent |-> h, candidate |-> c]}
        /\ commits' = commits /\ tasks[t].pc = "authorized"
    BY <1>2 DEF Send
  <2>2. ~Asked(tasks[t].operation)
    BY <2>1 DEF OwnerStateInv, PromiseInv, TasksKnow, Knows
  <2> QED BY <1>0, <2>1, <2>2 DEF OneCreate, Asked
<1>3. ASSUME NEW q \in requests, Loses(q) PROVE OneCreate'
  BY <1>0, <1>3 DEF Loses, OneCreate
<1>4. ASSUME NEW q \in requests, NEW p \in Revisions, Applies(q, p) PROVE OneCreate'
  <2>1. /\ commits' = [commits EXCEPT ![p] = [made |-> TRUE, operation |-> q.operation,
                                              candidate |-> q.candidate]]
        /\ requests' = requests \ {q}
    BY <1>4 DEF Applies
  <2>2. /\ commits'[p].operation = q.operation
        /\ \A r \in Revisions : r # p => commits'[r] = commits[r]
    BY <1>0, <2>1
  <2>3. \A x, y \in requests' : x.operation = y.operation => x = y
    BY <1>0, <2>1 DEF OneCreate
  <2>4. \A r, s \in Revisions :
          commits'[r].operation # None /\ commits'[r].operation = commits'[s].operation => r = s
    BY <1>0, <2>2 DEF OneCreate
  <2>5. \A x \in requests', r \in Revisions : commits'[r].operation # x.operation
    BY <1>0, <2>1, <2>2 DEF OneCreate
  <2> QED BY <2>3, <2>4, <2>5 DEF OneCreate
<1>5. ASSUME NEW b, NEW p \in Revisions, ExternalCommit(b, p) PROVE OneCreate'
  <2>1. commits' = [commits EXCEPT ![p].made = TRUE] /\ requests' = requests
    BY <1>5 DEF ExternalCommit
  <2>2. \A r \in Revisions : commits'[r].operation = commits[r].operation
    BY <1>0, <2>1 DEF Commit
  <2> QED BY <1>0, <2>1, <2>2 DEF OneCreate
<1> QED BY <1>1, <1>2, <1>3, <1>4, <1>5, WhoCreates

LEMMA CreatesAuthorizedStep ==
  ASSUME OwnerStateInv, Standing, [OwnerNext]_ownerVars
  PROVE  CreatesAuthorized'
<1>0. commits \in [Revisions -> Commit] /\ CreatesAuthorized
  BY DEF OwnerStateInv, OwnerInv, OwnerTypes, PromiseInv
\* What an operation was authorized for stays, whatever the store does.
<1>1. ASSUME NEW o \in Operations, NEW c \in Candidates,
             ops[o].sendAuthorized, ops[o].candidate = c
      PROVE  ops'[o].sendAuthorized /\ ops'[o].candidate = c
  <2>1. Exists(o) /\ Stands(o)
    BY <1>1, AuthorizedDispatched DEF Standing
  <2> QED BY <1>1, <2>1, IndexAssumption DEF Stands
<1>2. ASSUME NEW q \in requests
      PROVE  ops'[q.operation].sendAuthorized /\ ops'[q.operation].candidate = q.candidate
  <2>1. q.operation \in Operations /\ q.candidate \in Candidates
    BY OwnerRowTypes
  <2> QED BY <1>0, <1>1, <2>1 DEF CreatesAuthorized
<1>3. ASSUME NEW r \in Revisions, commits[r].operation # None
      PROVE  /\ ops'[commits[r].operation].sendAuthorized
             /\ ops'[commits[r].operation].candidate = commits[r].candidate
  <2>1. commits[r].operation \in Operations /\ commits[r].candidate \in Candidates
    BY <1>3, OwnerRowTypes DEF OwnerStateInv, OwnerInv, ParentsAgree
  <2> QED BY <1>0, <1>1, <1>3, <2>1 DEF CreatesAuthorized
<1>4. CASE UNCHANGED <<requests, commits>>
  BY <1>2, <1>3, <1>4 DEF CreatesAuthorized
<1>5. ASSUME NEW t \in Tasks, Send(t) PROVE CreatesAuthorized'
  <2> DEFINE k == tasks[t]
             n == [operation |-> k.operation, parent |-> k.head, candidate |-> k.candidate]
  <2>1. requests' = requests \union {n} /\ commits' = commits /\ ops' = ops /\ k.pc = "authorized"
    BY <1>5 DEF Send, vars, storeVars
  <2>2. Ready(k, ops) /\ Knows(t)
    BY OwnerRowTypes DEF OwnerStateInv, PromiseInv, TasksKnow
  <2>3. ops[k.operation].sendAuthorized /\ ops[k.operation].candidate = k.candidate
    BY <2>1, <2>2 DEF Knows, Ready, Prepared
  <2> QED BY <1>0, <2>1, <2>3 DEF CreatesAuthorized
<1>6. ASSUME NEW q \in requests, Loses(q) PROVE CreatesAuthorized'
  BY <1>2, <1>3, <1>6 DEF Loses, CreatesAuthorized
<1>7. ASSUME NEW q \in requests, NEW p \in Revisions, Applies(q, p) PROVE CreatesAuthorized'
  <2>1. /\ commits' = [commits EXCEPT ![p] = [made |-> TRUE, operation |-> q.operation,
                                              candidate |-> q.candidate]]
        /\ requests' = requests \ {q}
    BY <1>7 DEF Applies
  <2>2. /\ commits'[p].operation = q.operation /\ commits'[p].candidate = q.candidate
        /\ \A r \in Revisions : r # p => commits'[r] = commits[r]
    BY <1>0, <2>1
  <2> QED BY <1>2, <1>3, <2>1, <2>2 DEF CreatesAuthorized
<1>8. ASSUME NEW b, NEW p \in Revisions, ExternalCommit(b, p) PROVE CreatesAuthorized'
  <2>1. commits' = [commits EXCEPT ![p].made = TRUE] /\ requests' = requests
    BY <1>8 DEF ExternalCommit
  <2>2. \A r \in Revisions : /\ commits'[r].operation = commits[r].operation
                             /\ commits'[r].candidate = commits[r].candidate
    BY <1>0, <2>1 DEF Commit
  <2> QED BY <1>2, <1>3, <2>1, <2>2 DEF CreatesAuthorized
<1> QED BY <1>4, <1>5, <1>6, <1>7, <1>8, WhoCreates
-----------------------------------------------------------------------------
\* The evidence a request records: the commit it proved, or the no-op it observed.
LEMMA AcceptFacts ==
  ASSUME OwnerStateInv, NEW t \in Tasks, TaskRecord(t) \/ TaskObserve(t)
  PROVE  LET o == tasks[t].operation IN
         \E r \in Revisions :
           /\ o \in Operations
           /\ ops[o].candidate \in Candidates
           /\ Enqueue(BranchOf(o), r, ops[o].candidate)
           /\ \A p \in Operations : p # o => ops'[p] = ops[p]
           /\ ops'[o].status \in Accepted /\ ops'[o].revision = r
           /\ ops'[o].candidate = ops[o].candidate /\ ops'[o].intake = ops[o].intake
           /\ ops'[o].sendAuthorized = ops[o].sendAuthorized
           /\ commits[r].operation # None
           /\ commits[r].candidate = ops[o].candidate
           /\ BranchOf(commits[r].operation) = BranchOf(o)
           /\ ops[o].sendAuthorized => commits[r].operation = o
<1> DEFINE k == tasks[t]
           o == k.operation
<1>0. k \in Task /\ Ready(k, ops) /\ Knows(t)
  BY OwnerRowTypes DEF OwnerStateInv, PromiseInv, TasksKnow
<1>1. PICK r \in Maybe(Revisions), observed \in BOOLEAN :
        /\ RecordCommit(Owner, o, k.token, k.generation, r, observed)
        /\ \/ ~observed /\ k.pc = "proven" /\ r = k.revision
           \/ observed /\ k.pc = "prepared" /\ k.existing /\ r = k.head
  <2>1. CASE TaskRecord(t)
    <3>1. RecordCommit(Owner, o, k.token, k.generation, k.revision, FALSE) /\ k.pc = "proven"
      BY <2>1 DEF TaskRecord
    <3>2. k.revision \in Maybe(Revisions)
      BY <1>0 DEF Task
    <3> QED BY <3>1, <3>2
  <2>2. CASE TaskObserve(t)
    <3>1. /\ RecordCommit(Owner, o, k.token, k.generation, k.head, TRUE)
          /\ k.pc = "prepared" /\ k.existing
      BY <2>2 DEF TaskObserve
    <3>2. k.head \in Maybe(Revisions)
      BY <1>0 DEF Task
    <3> QED BY <3>1, <3>2
  <2> QED BY <2>1, <2>2
<1>2. o \in Operations /\ ops[o].candidate = k.candidate /\ k.candidate \in Candidates
  BY <1>0, <1>1 DEF Ready, Prepared
<1>3. ops[o] \in Operation /\ ops \in [Operations -> Operation] /\ k.candidate # None
  BY <1>2, IndexAssumption DEF OwnerStateInv, DispatchInv, TypeOK
<1>4. /\ r \in Revisions
      /\ commits[r].operation # None
      /\ commits[r].candidate = ops[o].candidate
      /\ BranchOf(commits[r].operation) = BranchOf(o)
      /\ ops[o].sendAuthorized => commits[r].operation = o
  <2>1. CASE ~observed /\ k.pc = "proven" /\ r = k.revision
    <3>1. r \in Revisions /\ commits[r].operation = o /\ o # None
      BY <1>0, <1>2, <2>1, StoreAssumption DEF Ready, Knows
    <3> QED BY <3>1 DEF OwnerStateInv, PromiseInv, CreatesAuthorized
  <2>2. CASE observed /\ k.pc = "prepared" /\ k.existing /\ r = k.head
    <3>1. r \in Revisions
      BY <1>0, <2>2 DEF Ready, Fits
    <3>2. ~ops[o].sendAuthorized
      BY <1>1, <2>2 DEF RecordCommit
    <3> QED BY <1>0, <1>2, <2>2, <3>1, <3>2 DEF Knows
  <2> QED BY <1>1, <2>1, <2>2
<1>5. Enqueue(BranchOf(o), r, ops[o].candidate)
  BY <1>1, <1>2, <1>3 DEF RecordCommit
<1>6. /\ \A p \in Operations : p # o => ops'[p] = ops[p]
      /\ ops'[o].status \in Accepted /\ ops'[o].revision = r
      /\ ops'[o].candidate = ops[o].candidate /\ ops'[o].intake = ops[o].intake
      /\ ops'[o].sendAuthorized = ops[o].sendAuthorized
  <2> DEFINE s == IF ops[o].candidate # None /\ IsPublished(r) THEN "indexed" ELSE "committed"
             receipt == [ops[o] EXCEPT !.status = s, !.revision = r,
                           !.observedExisting = ops[o].observedExisting \/ observed,
                           !.generation = k.generation + 1]
  <2>1. ops' = [ops EXCEPT ![o] = receipt]
    BY <1>1 DEF RecordCommit
  <2>2. s \in Accepted
    BY DEF Accepted
  <2>3. /\ receipt.status = s /\ receipt.intake = ops[o].intake /\ receipt.revision = r
        /\ receipt.candidate = ops[o].candidate
        /\ receipt.sendAuthorized = ops[o].sendAuthorized
    BY <1>3 DEF Operation
  <2> HIDE DEF receipt, s
  <2> QED BY <1>2, <1>3, <2>1, <2>2, <2>3
<1> QED BY <1>2, <1>4, <1>5, <1>6

\* Nothing else accepts an operation: publishing only turns Committed to Indexed.
LEMMA OthersAcceptNothing ==
  ASSUME OwnerStateInv, [OwnerNext]_ownerVars,
         ~\E t \in Tasks : TaskRecord(t) \/ TaskObserve(t),
         NEW o \in Operations, ops'[o].status \in Accepted
  PROVE  ops[o].status \in Accepted
<1>0. ops \in [Operations -> Operation] /\ ops[o] \in Operation
  BY DEF OwnerStateInv, DispatchInv, TypeOK
<1>1. CASE UNCHANGED ops
  BY <1>1
<1>2. ASSUME NEW p, NEW f, NEW g, Reserve(Owner, p, g) \/ AuthorizeSend(Owner, p, f, g, TRUE)
                                   \/ \E c : Prepare(Owner, p, f, g, c)
      PROVE  ops'[o].status = ops[o].status
  <2>1. ASSUME NEW n, ops' = [ops EXCEPT ![p] = n], n.status = ops[p].status
        PROVE  ops'[o].status = ops[o].status
    BY <1>0, <2>1
  <2>2. p \in Operations => ops[p] \in Operation
    BY <1>0
  <2>3. CASE p \notin Operations
    <3>1. \E n : ops' = [ops EXCEPT ![p] = n]
      BY <1>2 DEF Reserve, AuthorizeSend, Prepare
    <3> QED BY <1>0, <2>3, <3>1
  <2>4. CASE p \in Operations
    <3>1. CASE Reserve(Owner, p, g)
      <4> DEFINE n == [ops[p] EXCEPT !.token = fences[BranchOf(p)] + 1, !.generation = g + 1]
      <4>1. ops' = [ops EXCEPT ![p] = n] /\ n.status = ops[p].status
        BY <2>2, <2>4, <3>1 DEF Reserve, Operation
      <4> HIDE DEF n
      <4> QED BY <2>1, <4>1
    <3>2. CASE AuthorizeSend(Owner, p, f, g, TRUE)
      <4> DEFINE n == [ops[p] EXCEPT !.sendAuthorized = TRUE, !.generation = g + 1]
      <4>1. ops' = [ops EXCEPT ![p] = n] /\ n.status = ops[p].status
        BY <2>2, <2>4, <3>2 DEF AuthorizeSend, Operation
      <4> HIDE DEF n
      <4> QED BY <2>1, <4>1
    <3>3. ASSUME NEW c, Prepare(Owner, p, f, g, c) PROVE ops'[o].status = ops[o].status
      <4> DEFINE n == [ops[p] EXCEPT !.candidate = c, !.generation = g + 1]
      <4>1. ops' = [ops EXCEPT ![p] = n] /\ n.status = ops[p].status
        BY <2>2, <2>4, <3>3 DEF Prepare, Operation
      <4> HIDE DEF n
      <4> QED BY <2>1, <4>1
    <3> QED BY <1>2, <3>1, <3>2, <3>3
  <2> QED BY <2>3, <2>4
<1>3. ASSUME NEW p, NEW f, NEW g, NEW status \in Rejections, CancelReserved(Owner, p, f, g, status)
      PROVE  p # o /\ ops'[o] = ops[o]
  <2>1. ops' = [ops EXCEPT ![p] = [ops[p] EXCEPT !.status = status, !.generation = g + 1]]
    BY <1>3 DEF CancelReserved
  <2>2. p # o
    BY <1>0, <2>1 DEF Accepted, Rejections, Operation
  <2> QED BY <1>0, <2>1, <2>2
<1>4. ASSUME NEW p, NEW f, NEW g, MarkAmbiguous(Owner, p, f, g) PROVE p # o /\ ops'[o] = ops[o]
  <2>1. ops' = [ops EXCEPT ![p] = [ops[p] EXCEPT !.status = "ambiguous", !.generation = g + 1]]
    BY <1>4 DEF MarkAmbiguous
  <2>2. p # o
    BY <1>0, <2>1 DEF Accepted, Operation
  <2> QED BY <1>0, <2>1, <2>2
<1>5. ASSUME NEW i \in Intakes, Intake(i) PROVE ops[o].status \in Accepted
  <2>1. /\ i.operation \in Operations
        /\ ops' = [ops EXCEPT ![i.operation] =
                     [NoOperation EXCEPT !.status = "pending", !.intake = i]]
    BY <1>5, StoreAssumption DEF Intake
  <2>2. o # i.operation
    BY <1>0, <2>1 DEF NoOperation, Accepted
  <2> QED BY <1>0, <2>1, <2>2
<1>6. ASSUME NEW a, NEW r, NEW w, NEW f, PublishIndex(a, r, w, f) PROVE ops[o].status \in Accepted
  <2>1. CASE o \in AwaitingGraph(r)
    BY <2>1 DEF AwaitingGraph, Accepted
  <2>2. CASE o \notin AwaitingGraph(r)
    BY <1>6, <2>2 DEF PublishIndex
  <2> QED BY <2>1, <2>2
<1>7. ASSUME NEW t \in Tasks, Continue(t) PROVE ops[o].status \in Accepted
  <2>0. tasks[t].pc = "cancelling" => tasks[t].status \in Rejections
    BY OwnerRowTypes DEF Ready
  <2>1. CASE TaskReserve(t) \/ TaskAuthorize(t) \/ TaskPrepare(t)
    BY <1>2, <2>1 DEF TaskReserve, TaskAuthorize, TaskPrepare
  <2>2. CASE TaskCancel(t)
    BY <1>3, <2>0, <2>2 DEF TaskCancel
  <2>3. CASE TaskAmbiguous(t)
    BY <1>4, <2>3 DEF TaskAmbiguous
  <2>4. CASE FetchHead(t) \/ Plan(t) \/ Send(t) \/ Answer(t) \/ AnswerLost(t)
             \/ Verify(t) \/ Search(t) \/ Refused(t)
    BY <1>1, <2>4 DEF FetchHead, Plan, Send, Answer, AnswerLost, Verify, Search, Refused,
              vars, storeVars
  <2> QED BY <1>7, <2>1, <2>2, <2>3, <2>4 DEF Continue
<1>8. ASSUME NEW t \in Tasks,
             Abandon(t) \/ \E p \in Operations : Admit(t, p) \/ StartReconcile(t, p)
      PROVE  UNCHANGED ops
  BY <1>8 DEF Abandon, Admit, StartReconcile, vars, storeVars
<1>9. ASSUME NEW v \in Observers, Observe(v) \/ ObserverGivesUp(v) PROVE UNCHANGED ops
  BY <1>9 DEF Observe, ObserverFetch, ObserverJudge, ObserverWrite, ObserveHead,
              ObserverGivesUp, vars, storeVars
<1>10. Provider \/ UNCHANGED ownerVars => UNCHANGED ops
  BY DEF Provider, Loses, Applies, ExternalCommit, ownerVars, vars, storeVars
<1>11. ASSUME NEW r \in Revisions, IndexStep(Owner, r) \/ LeaseExpires(r)
       PROVE  ops[o].status \in Accepted
  <2>1. \/ UNCHANGED ops
        \/ \E w \in Workers, f \in {jobs[r].fence} : PublishIndex(Owner, r, w, f)
    BY <1>11 DEF IndexStep, ClaimIndex, SealIndex, RemoveProjection, LeaseExpires, storeVars
  <2> QED BY <1>1, <1>6, <2>1
<1> QED BY <1>1, <1>5, <1>7, <1>8, <1>9, <1>10, <1>11 DEF OwnerNext, Elsewhere

LEMMA AcceptedMarkedStep ==
  ASSUME OwnerStateInv, Standing, [OwnerNext]_ownerVars
  PROVE  AcceptedMarked'
<1> DEFINE Marked(o) ==
             /\ commits'[ops'[o].revision].operation # None
             /\ commits'[ops'[o].revision].candidate = ops'[o].candidate
             /\ ops'[commits'[ops'[o].revision].operation].intake.branch = ops'[o].intake.branch
             /\ ops'[o].sendAuthorized => commits'[ops'[o].revision].operation = o
<1> SUFFICES ASSUME NEW o \in Operations, ops'[o].status \in Accepted PROVE Marked(o)
  BY DEF AcceptedMarked, BranchOf
<1>1. CASE ops[o].status \in Accepted
  <2>1. ops[o].revision \in Revisions
    BY <1>1, AcceptedHasRevision DEF OwnerStateInv
  <2>2. Stands(o) /\ Exists(o)
    BY <1>1 DEF Standing, Exists, Accepted
  <2>3. /\ commits[ops[o].revision].operation # None
        /\ commits[ops[o].revision].candidate = ops[o].candidate
        /\ ops[commits[ops[o].revision].operation].intake.branch = ops[o].intake.branch
        /\ ops[o].sendAuthorized => commits[ops[o].revision].operation = o
    BY <1>1 DEF OwnerStateInv, PromiseInv, AcceptedMarked, BranchOf
  <2>4. /\ ops'[o].revision = ops[o].revision /\ ops'[o].candidate = ops[o].candidate
        /\ ops'[o].sendAuthorized = ops[o].sendAuthorized /\ ops'[o].intake = ops[o].intake
    BY <1>1, <2>2 DEF Stands
  <2>5. /\ commits'[ops[o].revision] = commits[ops[o].revision]
        /\ ops'[commits[ops[o].revision].operation].intake
             = ops[commits[ops[o].revision].operation].intake
    BY <2>1, <2>3 DEF Standing
  <2> QED BY <2>3, <2>4, <2>5
<1>2. CASE ops[o].status \notin Accepted
  <2>1. PICK t \in Tasks : TaskRecord(t) \/ TaskObserve(t)
    BY <1>2, OthersAcceptNothing
  <2>2. PICK r \in Revisions :
          /\ \A p \in Operations : p # tasks[t].operation => ops'[p] = ops[p]
          /\ ops'[tasks[t].operation].revision = r
          /\ ops'[tasks[t].operation].candidate = ops[tasks[t].operation].candidate
          /\ ops'[tasks[t].operation].intake = ops[tasks[t].operation].intake
          /\ ops'[tasks[t].operation].sendAuthorized = ops[tasks[t].operation].sendAuthorized
          /\ commits[r].operation # None
          /\ commits[r].candidate = ops[tasks[t].operation].candidate
          /\ BranchOf(commits[r].operation) = BranchOf(tasks[t].operation)
          /\ ops[tasks[t].operation].sendAuthorized => commits[r].operation = tasks[t].operation
    BY <2>1, AcceptFacts
  <2>3. tasks[t].operation = o
    BY <1>2, <2>2
  <2>4. /\ commits'[r] = commits[r]
        /\ ops'[commits[r].operation].intake = ops[commits[r].operation].intake
    BY <2>2 DEF Standing
  <2> QED BY <2>2, <2>3, <2>4 DEF BranchOf
<1> QED BY <1>1, <1>2

(***************************************************************************)
(* A head the index trusts was accepted on its branch: record_commit moves *)
(* it to what it accepts, and an observation writes what it judged, which  *)
(* no later step takes back.                                               *)
(***************************************************************************)
LEMMA HeadsJustifiedStep ==
  ASSUME OwnerStateInv, Standing, AcceptedMarked', [OwnerNext]_ownerVars
  PROVE  HeadsJustified'
<1> DEFINE Good(r, b) == /\ r \in Revisions /\ accepted'[r].sequence # 0
                         /\ commits'[r].operation # None
                         /\ ops'[commits'[r].operation].intake.branch = b
           GoodHeads == \A b \in Branches :
             heads'[b].revision # None /\ ~heads'[b].unavailable => Good(heads'[b].revision, b)
           GoodObservers == \A v \in Observers :
             observers'[v].pc = "judged" /\ observers'[v].head # None /\ ~observers'[v].unavailable
               => Good(observers'[v].head, observers'[v].branch)
<1> SUFFICES GoodHeads /\ GoodObservers
  BY DEF HeadsJustified, Justified, BranchOf, IsAccepted
<1>0. /\ HeadsJustified /\ observers \in [Observers -> Observer] /\ heads \in [Branches -> Head]
      /\ accepted \in [Revisions -> AcceptedRow] /\ ObserversReady
  BY DEF OwnerStateInv, PromiseInv, OwnerInv, OwnerTypes, TypeOK, IndexTypeOK
<1>1. ASSUME NEW r, NEW b, Justified(r, b) PROVE Good(r, b)
  BY <1>1 DEF Justified, Standing, IsAccepted, BranchOf
<1> HIDE DEF Good
<1>2. ASSUME UNCHANGED heads PROVE GoodHeads
  BY <1>0, <1>1, <1>2 DEF HeadsJustified
<1>3. ASSUME UNCHANGED observers PROVE GoodObservers
  BY <1>0, <1>1, <1>3 DEF HeadsJustified
<1>4. ASSUME NEW t \in Tasks, TaskRecord(t) \/ TaskObserve(t) PROVE GoodHeads /\ GoodObservers
  <2> DEFINE o == tasks[t].operation
  <2>1. PICK r \in Revisions :
          /\ o \in Operations /\ Enqueue(BranchOf(o), r, ops[o].candidate)
          /\ ops'[o].status \in Accepted /\ ops'[o].revision = r
          /\ ops'[o].intake = ops[o].intake
    BY <1>4, AcceptFacts
  <2>2. /\ commits'[r].operation # None
        /\ ops'[commits'[r].operation].intake.branch = BranchOf(o)
    BY <2>1 DEF AcceptedMarked, BranchOf
  <2> DEFINE row == IF IsAccepted(r) THEN accepted[r]
                    ELSE [sequence |-> NextSequence, candidate |-> ops[o].candidate]
  <2>3. /\ accepted' = [accepted EXCEPT ![r] = row]
        /\ \/ heads' = heads
           \/ heads' = [heads EXCEPT ![BranchOf(o)] =
                          [revision |-> r, sequence |-> row.sequence, unavailable |-> FALSE]]
    BY <2>1 DEF Enqueue
  <2>4. row.sequence # 0
    BY NextSequenceType DEF IsAccepted
  <2> HIDE DEF row
  <2>5. Good(r, BranchOf(o))
    BY <1>0, <2>2, <2>3, <2>4 DEF Good
  <2>6. GoodHeads
    <3>1. \A b \in Branches : \/ heads'[b] = heads[b]
                              \/ b = BranchOf(o) /\ heads'[b].revision = r
      BY <1>0, <2>3
    <3> QED BY <1>0, <1>1, <2>5, <3>1 DEF HeadsJustified
  <2>7. UNCHANGED observers
    BY <1>4 DEF TaskRecord, TaskObserve, Quiet
  <2> QED BY <1>3, <2>6, <2>7
<1>5. ASSUME NEW v \in Observers, ObserverWrite(v) PROVE GoodHeads /\ GoodObservers
  <2> DEFINE seen == observers[v]
  <2>1. /\ heads' = [heads EXCEPT ![seen.branch] =
              [revision |-> seen.head,
               sequence |-> IF seen.head = None THEN 0 ELSE accepted[seen.head].sequence,
               unavailable |-> seen.unavailable]]
        /\ observers' = [observers EXCEPT ![v] = IdleObserver]
        /\ seen.pc = "judged"
    BY <1>5 DEF ObserverWrite, ObserveHead, ObserveBranchHead
  <2>2. seen.head # None /\ ~seen.unavailable => Good(seen.head, seen.branch)
    BY <1>0, <1>1, <2>1 DEF HeadsJustified
  <2>3. \A b \in Branches :
          \/ heads'[b] = heads[b]
          \/ /\ b = seen.branch /\ heads'[b].revision = seen.head
             /\ heads'[b].unavailable = seen.unavailable
    BY <1>0, <2>1
  <2>4. GoodHeads
    BY <1>0, <1>1, <2>2, <2>3 DEF HeadsJustified
  <2>5. \A u \in Observers : observers'[u].pc = "judged" => observers'[u] = observers[u]
    BY <1>0, <2>1 DEF IdleObserver
  <2> QED BY <1>0, <1>1, <2>4, <2>5 DEF HeadsJustified
<1>6. ASSUME NEW v \in Observers, ObserverJudge(v) PROVE GoodHeads /\ GoodObservers
  <2> DEFINE seen == observers[v]
             lost == seen.head # None /\ ~HeadAccepted(seen.head, seen.branch)
  <2>1. /\ observers' = [observers EXCEPT ![v].pc = "judged", ![v].unavailable = lost]
        /\ seen.pc = "fetched" /\ UNCHANGED heads
    BY <1>6 DEF ObserverJudge, vars, indexVars
  <2>2. seen \in Observer
    BY <1>0
  <2>3. seen.head # None /\ ~lost => Good(seen.head, seen.branch)
    BY <1>1, <2>2 DEF HeadAccepted, Verified, Justified, Observer
  <2> HIDE DEF lost
  <2>4. /\ \A u \in Observers : u # v => observers'[u] = observers[u]
        /\ observers'[v].head = seen.head /\ observers'[v].branch = seen.branch
        /\ observers'[v].unavailable = lost
    BY <1>0, <2>1, <2>2 DEF Observer
  <2> QED BY <1>0, <1>1, <1>2, <2>1, <2>3, <2>4 DEF HeadsJustified
<1>7. ASSUME NEW v \in Observers, ObserverGivesUp(v) \/ \E b \in Branches : ObserverFetch(v, b)
      PROVE  GoodHeads /\ GoodObservers
  <2>1. UNCHANGED heads
    BY <1>7 DEF ObserverGivesUp, ObserverFetch, vars, indexVars
  <2>2. \A u \in Observers : observers'[u].pc = "judged" => observers'[u] = observers[u]
    <3>1. PICK n : observers' = [observers EXCEPT ![v] = n] /\ n.pc # "judged"
      <4>1. IdleObserver.pc # "judged"
        BY DEF IdleObserver
      <4>2. ASSUME NEW b PROVE [IdleObserver EXCEPT !.pc = "fetched", !.branch = b,
                                                    !.head = remote[b]].pc # "judged"
        BY DEF IdleObserver
      <4> QED BY <1>7, <4>1, <4>2 DEF ObserverGivesUp, ObserverFetch
    <3> QED BY <1>0, <3>1
  <2> QED BY <1>0, <1>1, <1>2, <2>1, <2>2 DEF HeadsJustified
<1>8. ASSUME NEW t \in Tasks, ~(TaskRecord(t) \/ TaskObserve(t)),
             Continue(t) \/ Abandon(t)
               \/ \E o \in Operations : Admit(t, o) \/ StartReconcile(t, o)
      PROVE  UNCHANGED <<heads, observers>>
  BY <1>8 DEF Continue, TaskReserve, Reserve, FetchHead, Plan, TaskCancel, CancelReserved,
              TaskPrepare, Prepare, TaskAuthorize, AuthorizeSend, Send, Answer, AnswerLost,
              Verify, TaskAmbiguous, MarkAmbiguous, Search, Refused, Abandon, Admit,
              StartReconcile, Quiet, vars, indexVars
<1>9. Provider \/ UNCHANGED ownerVars => UNCHANGED <<heads, observers>>
  BY DEF Provider, Loses, Applies, ExternalCommit, ownerVars, processVars, vars, indexVars
<1>10. ASSUME Elsewhere PROVE UNCHANGED <<heads, observers>>
  <2>1. ASSUME NEW r, NEW w, NEW f, PublishIndex(Owner, r, w, f) PROVE UNCHANGED heads
    <3>1. ASSUME PublishJob(r, w, f) PROVE UNCHANGED heads
      BY <3>1 DEF PublishJob
    <3> QED BY <2>1, <3>1 DEF PublishIndex
  <2>2. ASSUME NEW r, IndexStep(Owner, r) \/ LeaseExpires(r) PROVE UNCHANGED heads
    <3>1. ASSUME NEW w, NEW wanted, ClaimIndex(Owner, r, w, wanted) PROVE UNCHANGED heads
      BY <3>1 DEF ClaimIndex, ClaimJob
    <3>2. ASSUME NEW w, NEW f, NEW g, SealIndex(Owner, r, w, f, g) PROVE UNCHANGED heads
      BY <3>2 DEF SealIndex, SealJob
    <3>3. RemoveProjection(Owner, r) \/ LeaseExpires(r) => UNCHANGED heads
      BY DEF RemoveProjection, RemoveGraph, LeaseExpires, ExpireLease
    <3> QED BY <2>1, <2>2, <3>1, <3>2, <3>3 DEF IndexStep
  <2> QED BY <1>10, <2>2 DEF Elsewhere, Intake, indexVars, processVars
<1> QED BY <1>2, <1>3, <1>4, <1>5, <1>6, <1>7, <1>8, <1>9, <1>10 DEF OwnerNext, Observe
-----------------------------------------------------------------------------
LEMMA PromiseInit == OwnerInit => OwnerStateInv
<1> SUFFICES ASSUME OwnerInit PROVE OwnerStateInv
  OBVIOUS
<1>1. DispatchInv /\ OwnerInv
  BY InitDispatch, OwnerInvInit DEF OwnerInit
<1>2. /\ \A t \in Tasks : tasks[t].pc = "idle"
      /\ \A r \in Revisions : commits[r].operation = None
      /\ \A v \in Observers : observers[v].pc = "idle"
      /\ requests = {}
  BY DEF OwnerInit, IdleTask, NoCommit, IdleObserver
<1>3. /\ \A o \in Operations : ops[o].status = "absent"
      /\ \A b \in Branches : heads[b].revision = None
  BY DEF OwnerInit, Init, NoOperation, IndexInit, NoHead
<1>4. TasksKnow /\ PermitHeldOnce
  BY <1>2 DEF TasksKnow, Knows, PermitHeldOnce
<1>5. CommitsMarked /\ OneCreate /\ CreatesAuthorized
  BY <1>2 DEF CommitsMarked, OneCreate, CreatesAuthorized
<1>6. AcceptedMarked /\ HeadsJustified
  BY <1>2, <1>3 DEF AcceptedMarked, Accepted, HeadsJustified
<1> QED BY <1>1, <1>4, <1>5, <1>6 DEF OwnerStateInv, PromiseInv

LEMMA PromiseStep == OwnerStateInv /\ [OwnerNext]_ownerVars => OwnerStateInv'
<1> SUFFICES ASSUME OwnerStateInv, [OwnerNext]_ownerVars PROVE OwnerStateInv'
  OBVIOUS
<1>1. Standing
  BY StepStanding
<1>2. DispatchInv' /\ OwnerInv'
  BY OwnerStepIsStep, DispatchInvStep, OwnerInvStep DEF OwnerStateInv
<1>3. AcceptedMarked'
  BY <1>1, AcceptedMarkedStep
<1>4. HeadsJustified'
  BY <1>1, <1>3, HeadsJustifiedStep
<1>5. TasksKnow' /\ PermitHeldOnce'
  BY <1>1, TasksKnowStep, PermitStep
<1>6. CommitsMarked' /\ OneCreate' /\ CreatesAuthorized'
  BY <1>1, CommitsMarkedStep, OneCreateStep, CreatesAuthorizedStep
<1> QED BY <1>2, <1>3, <1>4, <1>5, <1>6 DEF OwnerStateInv, PromiseInv

LEMMA PromiseHolds == OwnerSpec => []OwnerStateInv
BY PromiseInit, PromiseStep, PTL DEF OwnerSpec

\* An authorized operation that is not accepted still holds its branch.
LEMMA AuthorizedActive ==
  ASSUME OwnerStateInv, NEW o \in Operations, ops[o].sendAuthorized, ops[o].status \notin Accepted
  PROVE  ops[o].status \in Outstanding /\ active[BranchOf(o)] = o
<1>1. Exists(o) /\ ops[o].token # 0 /\ ops[o].status \notin Rejections /\ ops[o] \in Operation
  BY AuthorizedDispatched, OwnerRowTypes
<1>2. ops[o].status \in Outstanding
  BY <1>1 DEF Operation, Status, Exists
<1> QED BY <1>1, <1>2 DEF OwnerStateInv, DispatchInv, Readable, Unresolved

\* Nor is an operation accepted whose request is on its way.
LEMMA RequestActive ==
  ASSUME OwnerStateInv, NEW q \in requests
  PROVE  /\ q.operation \in Operations
         /\ ops[q.operation].sendAuthorized
         /\ ops[q.operation].status \in Outstanding
         /\ active[BranchOf(q.operation)] = q.operation
<1>1. q.operation \in Operations /\ ops[q.operation].sendAuthorized
  BY OwnerRowTypes DEF OwnerStateInv, PromiseInv, CreatesAuthorized
<1>2. ASSUME ops[q.operation].status \in Accepted PROVE FALSE
  <2>1. /\ ops[q.operation].revision \in Revisions
        /\ commits[ops[q.operation].revision].operation = q.operation
    BY <1>1, <1>2, AcceptedHasRevision DEF OwnerStateInv, PromiseInv, AcceptedMarked
  <2> QED BY <2>1 DEF OwnerStateInv, PromiseInv, OneCreate
<1> QED BY <1>1, <1>2, AuthorizedActive

(***************************************************************************)
(* What the owner promises its clients.  Whatever is cut, retried,         *)
(* reconciled concurrently or answered late, an operation is created at    *)
(* most once, while it holds its branch; a rejected one never is; an       *)
(* accepted one is what was prepared, made by this operation unless it was *)
(* observed; and a head the index trusts was accepted on its branch        *)
(* (promotion.rs:50-251, sysml-revision-adapter.md:43).                    *)
(***************************************************************************)
THEOREM OwnerPromiseKept ==
  OwnerSpec => [](/\ OneCreatePerOperation /\ CreatesSerialized /\ RejectedNeverWritten
                  /\ AcceptedIsReal /\ ObservedHeadJustified)
<1>1. OwnerStateInv => OneCreatePerOperation
  <2> SUFFICES ASSUME OwnerStateInv, NEW o \in Operations
               PROVE  Cardinality({q \in requests : q.operation = o})
                        + Cardinality({r \in Revisions : commits[r].operation = o}) <= 1
    BY DEF OneCreatePerOperation
  <2> DEFINE asked == {q \in requests : q.operation = o}
             made == {r \in Revisions : commits[r].operation = o}
  <2>0. OneCreate /\ o # None
    BY StoreAssumption DEF OwnerStateInv, PromiseInv
  <2>1. asked = {} \/ \E q : asked = {q}
    BY <2>0 DEF OneCreate
  <2>2. made = {} \/ \E r : made = {r}
    <3>1. ASSUME NEW r \in made PROVE made = {r}
      <4>1. \A s \in made : s = r
        BY <2>0, <3>1 DEF OneCreate
      <4> QED BY <3>1, <4>1
    <3> QED BY <3>1
  <2>3. asked = {} \/ made = {}
    BY <2>0 DEF OneCreate
  <2> HIDE DEF asked, made
  <2>4. Cardinality(asked) \in {0, 1} /\ (asked = {} => Cardinality(asked) = 0)
    BY <2>1, FS_EmptySet, FS_Singleton
  <2>5. Cardinality(made) \in {0, 1} /\ (made = {} => Cardinality(made) = 0)
    BY <2>2, FS_EmptySet, FS_Singleton
  <2>6. Cardinality(asked) + Cardinality(made) <= 1
    BY <2>3, <2>4, <2>5
  <2> QED BY <2>6 DEF asked, made
<1>2. OwnerStateInv => CreatesSerialized
  <2> SUFFICES ASSUME OwnerStateInv, NEW o \in Operations, AtProvider(o)
               PROVE  /\ ops[o].sendAuthorized /\ ops[o].status \in Outstanding
                      /\ active[BranchOf(o)] = o
    BY DEF CreatesSerialized
  <2>1. CASE \E q \in requests : q.operation = o
    BY <2>1, RequestActive
  <2>2. ASSUME NEW r \in Revisions, commits[r].operation = o, ops[o].revision # r
        PROVE  /\ ops[o].sendAuthorized /\ ops[o].status \in Outstanding
               /\ active[BranchOf(o)] = o
    <3>1. o # None /\ ops[o].sendAuthorized
      BY <2>2, StoreAssumption DEF OwnerStateInv, PromiseInv, CreatesAuthorized
    <3>2. ASSUME ops[o].status \in Accepted PROVE FALSE
      <4>1. ops[o].revision \in Revisions /\ commits[ops[o].revision].operation = o
        BY <3>1, <3>2, AcceptedHasRevision DEF OwnerStateInv, PromiseInv, AcceptedMarked
      <4> QED BY <2>2, <3>1, <4>1 DEF OwnerStateInv, PromiseInv, OneCreate
    <3> QED BY <3>1, <3>2, AuthorizedActive
  <2> QED BY <2>1, <2>2 DEF AtProvider
<1>3. OwnerStateInv => RejectedNeverWritten
  <2> SUFFICES ASSUME OwnerStateInv, NEW o \in Operations, ops[o].status \in Rejections
               PROVE  /\ \A q \in requests : q.operation # o
                      /\ \A r \in Revisions : commits[r].operation # o
    BY DEF RejectedNeverWritten
  <2>1. ~ops[o].sendAuthorized /\ o # None
    BY StoreAssumption DEF OwnerStateInv, DispatchInv, CommitJustified
  <2> QED BY <2>1 DEF OwnerStateInv, PromiseInv, CreatesAuthorized
<1>4. OwnerStateInv => AcceptedIsReal
  <2> SUFFICES ASSUME OwnerStateInv, NEW o \in Operations,
                      ops[o].status \in Accepted, ops[o].candidate # None
               PROVE  LET r == ops[o].revision IN
                      /\ commits[r].candidate = ops[o].candidate
                      /\ ParentOf[r] = CandidateParent[ops[o].candidate]
                      /\ ~ops[o].observedExisting <=> commits[r].operation = o
    BY DEF AcceptedIsReal
  <2> DEFINE r == ops[o].revision
  <2>1. /\ r \in Revisions /\ commits[r].operation # None
        /\ commits[r].candidate = ops[o].candidate
        /\ ops[o].sendAuthorized => commits[r].operation = o
    BY AcceptedHasRevision DEF OwnerStateInv, PromiseInv, AcceptedMarked
  <2>2. ParentOf[r] = CandidateParent[ops[o].candidate]
    BY <2>1 DEF OwnerStateInv, OwnerInv, ParentsAgree
  <2>3. commits[r].operation = o => ops[o].sendAuthorized
    BY <2>1 DEF OwnerStateInv, PromiseInv, CreatesAuthorized
  <2>4. ops[o].sendAuthorized <=> ~ops[o].observedExisting
    BY DEF OwnerStateInv, DispatchInv, CommitJustified
  <2> QED BY <2>1, <2>2, <2>3, <2>4
<1>5. OwnerStateInv => ObservedHeadJustified
  BY DEF OwnerStateInv, PromiseInv, HeadsJustified, Justified, CommitsMarked,
         ObservedHeadJustified
<1> QED BY <1>1, <1>2, <1>3, <1>4, <1>5, PromiseHolds, PTL
-----------------------------------------------------------------------------
\* A request that may yet create a commit for its operation on the head it read.
AtHead(t) ==
  LET k == tasks[t]
      o == k.operation
  IN \/ k.pc \in {"planning", "preparing", "prepared"} /\ Unresolved(o) /\ ~ops[o].sendAuthorized
     \/ k.pc = "authorized"

(***************************************************************************)
(* Why no commit is orphaned: the head a request read under its            *)
(* reservation is still the head when its create arrives, because only a   *)
(* create of the operation that holds the branch moves the head.           *)
(***************************************************************************)
Onward ==
  /\ \A r \in Revisions :
       commits[r].operation # None => InHistory(r, BranchOf(commits[r].operation))
  /\ \A t \in Tasks : AtHead(t) => tasks[t].head = remote[BranchOf(tasks[t].operation)]
  /\ \A q \in requests : q.parent = remote[BranchOf(q.operation)]

OnwardInv == OwnerStateInv /\ (external = 0 => Onward)

\* Whoever is at the head holds the branch of its operation.
LEMMA AtHeadActive ==
  ASSUME OwnerStateInv, NEW t \in Tasks, AtHead(t)
  PROVE  /\ tasks[t].operation \in Operations /\ Exists(tasks[t].operation)
         /\ active[BranchOf(tasks[t].operation)] = tasks[t].operation
         /\ ops[tasks[t].operation].token # 0
         /\ \A q \in requests : q.operation # tasks[t].operation
<1> DEFINE k == tasks[t]
           o == k.operation
<1>1. Ready(k, ops) /\ Knows(t) /\ k.pc \in {"planning", "preparing", "prepared", "authorized"}
  BY OwnerRowTypes DEF OwnerStateInv, PromiseInv, TasksKnow, AtHead
<1>2. o \in Operations /\ Exists(o) /\ ops[o].token # 0
  BY <1>1 DEF Ready, Exists, Knows
<1>3. CASE Unresolved(o) /\ ~ops[o].sendAuthorized
  BY <1>2, <1>3 DEF OwnerStateInv, DispatchInv, Readable, PromiseInv, CreatesAuthorized
<1>4. CASE k.pc = "authorized"
  <2>1. ops[o].sendAuthorized /\ ~Asked(o)
    BY <1>1, <1>4 DEF Knows
  <2>2. ASSUME ops[o].status \in Accepted PROVE FALSE
    BY <1>2, <2>1, <2>2, AcceptedHasRevision
       DEF OwnerStateInv, PromiseInv, AcceptedMarked, Asked
  <2> QED BY <1>2, <2>1, <2>2, AuthorizedActive DEF Asked
<1> QED BY <1>2, <1>3, <1>4 DEF AtHead

\* A step that leaves the provider's commits and heads alone.
LEMMA OnwardResting ==
  ASSUME OwnerStateInv, Onward, Standing, UNCHANGED <<commits, remote>>,
         \A q \in requests' :
           \/ q \in requests
           \/ \E t \in Tasks : /\ AtHead(t) /\ q.operation = tasks[t].operation
                              /\ q.parent = tasks[t].head,
         \A t \in Tasks : AtHead(t)' =>
           /\ tasks'[t].operation \in Operations /\ Exists(tasks'[t].operation)
           /\ \/ /\ AtHead(t)
                 /\ tasks'[t].operation = tasks[t].operation /\ tasks'[t].head = tasks[t].head
              \/ tasks'[t].head = remote[BranchOf(tasks'[t].operation)]
  PROVE  Onward'
<1>1. ASSUME NEW r \in Revisions, commits'[r].operation # None
      PROVE  InHistory(r, BranchOf(commits[r].operation))'
  <2>1. /\ commits'[r].operation = commits[r].operation /\ commits[r].operation # None
        /\ ops'[commits[r].operation].intake = ops[commits[r].operation].intake
        /\ remote' = remote
    BY <1>1
    DEF Standing
  <2>2. InHistory(r, ops[commits[r].operation].intake.branch)
    BY <2>1 DEF Onward, BranchOf
  <2> QED BY <2>1, <2>2 DEF InHistory, BranchOf
<1>2. ASSUME NEW t \in Tasks, AtHead(t)'
      PROVE  tasks'[t].head = remote'[ops'[tasks'[t].operation].intake.branch]
  <2>1. Stands(tasks'[t].operation) /\ Exists(tasks'[t].operation)
    BY <1>2 DEF Standing
  <2>2. ops'[tasks'[t].operation].intake = ops[tasks'[t].operation].intake
    BY <2>1 DEF Stands
  <2>3. tasks'[t].head = remote[ops[tasks'[t].operation].intake.branch]
    BY <1>2 DEF Onward, BranchOf
  <2> QED BY <2>2, <2>3
<1>3. ASSUME NEW q \in requests' PROVE q.parent = remote'[ops'[q.operation].intake.branch]
  <2>1. q.operation \in Operations /\ Exists(q.operation)
    <3>1. CASE q \in requests
      BY <3>1, RequestActive DEF Exists, Outstanding
    <3>2. CASE \E t \in Tasks : AtHead(t) /\ q.operation = tasks[t].operation
      BY <3>2, AtHeadActive
    <3> QED BY <1>3, <3>1, <3>2
  <2>2. ops'[q.operation].intake = ops[q.operation].intake
    BY <2>1 DEF Standing, Stands
  <2>3. q.parent = remote[ops[q.operation].intake.branch]
    BY <1>3 DEF Onward, BranchOf
  <2> QED BY <2>2, <2>3
<1> QED BY <1>1, <1>2, <1>3 DEF Onward, BranchOf

\* A create arrives: its parent is the head, and nobody else was about to build on that.
LEMMA OnwardApplies ==
  ASSUME OwnerStateInv, Onward, NEW q \in requests, NEW r \in Revisions, Applies(q, r)
  PROVE  Onward'
<1> DEFINE b == ops[q.operation].intake.branch
<1>0. /\ commits \in [Revisions -> Commit] /\ remote \in [Branches -> Maybe(Revisions)]
      /\ OneCreate
  BY DEF OwnerStateInv, OwnerInv, OwnerTypes, PromiseInv
<1>1. /\ commits' = [commits EXCEPT ![r] = [made |-> TRUE, operation |-> q.operation,
                                            candidate |-> q.candidate]]
      /\ remote' = [remote EXCEPT ![b] = r]
      /\ requests' = requests \ {q} /\ ops' = ops /\ tasks' = tasks
      /\ ParentOf[r] = q.parent
  BY DEF Applies, BranchOf, vars, storeVars, processVars
<1>2. /\ q.operation \in Operations /\ ops[q.operation].sendAuthorized
      /\ active[b] = q.operation /\ Exists(q.operation)
  BY RequestActive DEF BranchOf, Exists, Outstanding
<1>3. b \in Branches
  BY <1>2, BranchType DEF OwnerStateInv, DispatchInv, BranchOf
<1>4. remote'[b] = r /\ \A c \in Branches : c # b => remote'[c] = remote[c]
  BY <1>0, <1>1, <1>3
<1>5. q.parent = remote[b] /\ r # None
  BY IndexAssumption DEF Onward, BranchOf
<1> HIDE DEF b
<1>6. ASSUME NEW s \in Revisions, commits'[s].operation # None
      PROVE  LET c == ops'[commits'[s].operation].intake.branch IN
             /\ remote'[c] # None
             /\ \A S \in SUBSET Revisions :
                  /\ remote'[c] \in S
                  /\ \A x \in S : ParentOf[x] # None => ParentOf[x] \in S
                  => s \in S
  <2>1. CASE s = r
    BY <1>0, <1>1, <1>4, <1>5, <2>1 DEF b
  <2>2. CASE s # r
    <3> DEFINE c == ops[commits[s].operation].intake.branch
    <3>1. commits'[s] = commits[s] /\ commits[s].operation # None
      BY <1>0, <1>1, <1>6, <2>2
    <3>2. /\ remote[c] # None
          /\ \A S \in SUBSET Revisions :
               /\ remote[c] \in S
               /\ \A x \in S : ParentOf[x] # None => ParentOf[x] \in S
               => s \in S
      BY <3>1 DEF Onward, InHistory, BranchOf
    <3>3. c \in Branches
      <4>1. commits[s].operation \in Operations /\ Exists(commits[s].operation)
        BY <3>1, OwnerRowTypes DEF OwnerStateInv, PromiseInv, CommitsMarked
      <4> QED BY <4>1, BranchType DEF OwnerStateInv, DispatchInv, BranchOf
    <3> HIDE DEF c
    <3>4. CASE c # b
      BY <1>1, <1>4, <3>1, <3>2, <3>3, <3>4 DEF c
    <3>5. CASE c = b
      <4>1. ASSUME NEW S \in SUBSET Revisions, r \in S,
                   \A x \in S : ParentOf[x] # None => ParentOf[x] \in S
            PROVE  s \in S
        <5>1. remote[b] \in S
          BY <1>1, <1>5, <3>2, <3>5, <4>1
        <5> QED BY <3>2, <3>5, <4>1, <5>1
      <4> QED BY <1>1, <1>4, <1>5, <3>1, <3>5, <4>1 DEF c
    <3> QED BY <3>4, <3>5
  <2> QED BY <2>1, <2>2
<1>7. ASSUME NEW t \in Tasks, AtHead(t)'
      PROVE  tasks'[t].head = remote'[ops'[tasks'[t].operation].intake.branch]
  <2> DEFINE o == tasks[t].operation
  <2>1. AtHead(t)
    BY <1>1, <1>7 DEF AtHead, Unresolved
  <2>2. o \in Operations /\ Exists(o) /\ active[BranchOf(o)] = o /\ q.operation # o
    BY <2>1, AtHeadActive
  <2>3. BranchOf(o) # b /\ BranchOf(o) \in Branches
    BY <1>2, <2>2, BranchType DEF OwnerStateInv, DispatchInv
  <2>4. tasks[t].head = remote[BranchOf(o)]
    BY <2>1 DEF Onward
  <2> QED BY <1>1, <1>4, <2>3, <2>4 DEF BranchOf
<1>8. ASSUME NEW p \in requests' PROVE p.parent = remote'[ops'[p.operation].intake.branch]
  <2>1. p \in requests /\ p # q
    BY <1>1, <1>8
  <2>2. /\ p.operation \in Operations /\ active[BranchOf(p.operation)] = p.operation
        /\ Exists(p.operation)
    BY <2>1, RequestActive DEF Exists, Outstanding
  <2>3. BranchOf(p.operation) # b /\ BranchOf(p.operation) \in Branches
    BY <1>0, <1>2, <2>1, <2>2, BranchType DEF OwnerStateInv, DispatchInv, OneCreate
  <2>4. p.parent = remote[BranchOf(p.operation)]
    BY <2>1 DEF Onward
  <2> QED BY <1>1, <1>4, <2>3, <2>4 DEF BranchOf
<1> QED BY <1>6, <1>7, <1>8 DEF Onward, InHistory, BranchOf
-----------------------------------------------------------------------------
LEMMA OnwardInit == OwnerInit => OnwardInv
<1> SUFFICES ASSUME OwnerInit PROVE OnwardInv
  OBVIOUS
<1>1. /\ \A t \in Tasks : tasks[t].pc = "idle"
      /\ \A r \in Revisions : commits[r].operation = None
      /\ requests = {}
  BY DEF OwnerInit, IdleTask, NoCommit
<1>2. Onward
  BY <1>1 DEF Onward, AtHead
<1> QED BY <1>2, PromiseInit DEF OnwardInv

\* Request t is on the way to a create: it has a head to build on.
Building == {"planning", "preparing", "prepared", "authorized"}

\* Only promote's own steps lead there, and they keep the operation and the head.
LEMMA BuildingSteps ==
  ASSUME OwnerTypes, [OwnerNext]_ownerVars, NEW t \in Tasks,
         tasks'[t].pc \in Building, tasks'[t] # tasks[t]
  PROVE  FetchHead(t) \/ Plan(t) \/ TaskPrepare(t) \/ TaskAuthorize(t)
<1> DEFINE k == tasks[t]
<1>0. tasks \in [Tasks -> Task] /\ k \in Task
  BY DEF OwnerTypes
<1>1. ASSUME NEW u \in Tasks, NEW n, Become(u, n), n.pc \notin Building PROVE FALSE
  <2>1. u = t
    BY <1>0, <1>1 DEF Become
  <2> QED BY <1>0, <1>1, <2>1 DEF Become
<1>2. ASSUME NEW u \in Tasks, End(u) PROVE FALSE
  BY <1>1, <1>2 DEF End, IdleTask, Building
<1>3. ASSUME NEW u \in Tasks, NEW p, Admit(u, p) \/ StartReconcile(u, p) PROVE FALSE
  <2>1. ASSUME Admit(u, p) PROVE FALSE
    <3> DEFINE n == [IdleTask EXCEPT !.pc = "admitted", !.operation = p,
                                     !.generation = ops[p].generation]
    <3>1. Become(u, n) /\ n.pc \notin Building
      BY <2>1 DEF Admit, IdleTask, Building
    <3> QED BY <1>1, <3>1
  <2>2. ASSUME StartReconcile(u, p) PROVE FALSE
    <3> DEFINE op == ops[p]
               n == [IdleTask EXCEPT
                       !.pc = IF op.sendAuthorized THEN "searching" ELSE "cancelling",
                       !.operation = p, !.generation = op.generation, !.token = op.token,
                       !.candidate = IF op.sendAuthorized THEN op.candidate ELSE None,
                       !.status = IF op.sendAuthorized THEN op.status ELSE "unavailable"]
    <3>1. Become(u, n)
      BY <2>2 DEF StartReconcile
    <3>2. n.pc \notin Building
      BY DEF IdleTask, Building
    <3> QED BY <1>1, <3>1, <3>2
  <2> QED BY <1>3, <2>1, <2>2
<1>4. ASSUME NEW u \in Tasks,
             \/ TaskReserve(u) \/ Send(u) \/ Answer(u) \/ AnswerLost(u) \/ Verify(u) \/ Search(u)
             \/ TaskCancel(u) \/ TaskObserve(u) \/ TaskAmbiguous(u) \/ TaskRecord(u)
             \/ Refused(u) \/ Abandon(u)
      PROVE  FALSE
  <2> DEFINE w == tasks[u]
  <2>1. w \in Task
    BY <1>0
  <2>2. ASSUME NEW pc, pc \notin Building, NEW r, NEW g, NEW f,
               \/ Become(u, [w EXCEPT !.pc = pc])
               \/ Become(u, [w EXCEPT !.pc = pc, !.revision = r])
               \/ Become(u, [w EXCEPT !.pc = pc, !.generation = g, !.token = f])
        PROVE  FALSE
    <3>1. /\ [w EXCEPT !.pc = pc].pc = pc
          /\ [w EXCEPT !.pc = pc, !.revision = r].pc = pc
          /\ [w EXCEPT !.pc = pc, !.generation = g, !.token = f].pc = pc
      BY <2>1 DEF Task
    <3> QED BY <1>1, <2>2, <3>1
  <2>3. ~TaskReserve(u)
    BY <2>2 DEF TaskReserve, Building
  <2>4. ~Send(u) /\ ~Answer(u) /\ ~AnswerLost(u)
    BY <2>2 DEF Send, Answer, AnswerLost, Building
  <2>5. ~Verify(u)
    BY <2>2 DEF Verify, Building
  <2>6. ~Search(u)
    BY <1>2, <2>2 DEF Search, Building
  <2> QED BY <1>2, <1>4, <2>3, <2>4, <2>5, <2>6
          DEF TaskCancel, TaskObserve, TaskAmbiguous, TaskRecord, Refused, Abandon
<1>5. ASSUME NEW u \in Tasks, u # t, NEW n, Become(u, n) PROVE FALSE
  BY <1>0, <1>5 DEF Become
<1>6. ASSUME NEW u \in Tasks, u # t,
             FetchHead(u) \/ Plan(u) \/ TaskPrepare(u) \/ TaskAuthorize(u)
      PROVE  FALSE
  BY <1>5, <1>6 DEF FetchHead, Plan, TaskPrepare, TaskAuthorize
<1>7. PICK u \in Tasks : \/ \E p \in Operations : Admit(u, p) \/ StartReconcile(u, p)
                         \/ Continue(u)
                         \/ Abandon(u)
  <2>1. ASSUME NEW v \in Observers, Observe(v) \/ ObserverGivesUp(v) PROVE tasks' = tasks
    BY <2>1 DEF Observe, ObserverFetch, ObserverJudge, ObserverWrite, ObserverGivesUp
  <2>2. Provider \/ Elsewhere \/ UNCHANGED ownerVars => tasks' = tasks
    BY DEF Provider, Loses, Applies, ExternalCommit, Elsewhere, ownerVars, processVars
  <2> QED BY <2>1, <2>2 DEF OwnerNext
<1> QED BY <1>3, <1>4, <1>6, <1>7 DEF Continue

\* Whoever is at the head after a step read it before, or reads it now.
LEMMA AtHeadStep ==
  ASSUME OwnerStateInv, Standing, [OwnerNext]_ownerVars, NEW t \in Tasks, AtHead(t)'
  PROVE  /\ tasks'[t].operation \in Operations /\ Exists(tasks'[t].operation)
         /\ \/ /\ AtHead(t)
               /\ tasks'[t].operation = tasks[t].operation /\ tasks'[t].head = tasks[t].head
            \/ tasks'[t].head = remote[BranchOf(tasks'[t].operation)]
<1> DEFINE k == tasks[t]
           o == k.operation
<1>0. /\ k \in Task /\ Ready(k, ops) /\ Knows(t)
      /\ tasks \in [Tasks -> Task] /\ OwnerTypes
  BY OwnerRowTypes DEF OwnerStateInv, PromiseInv, TasksKnow, OwnerInv, OwnerTypes
<1>1. tasks'[t].pc \in Building
  BY DEF AtHead, Building
<1>2. CASE tasks'[t] = k
  <2>1. o \in Operations /\ Exists(o) /\ Stands(o) /\ ops[o].token # 0
    BY <1>0, <1>1, <1>2 DEF Ready, Exists, Standing, Knows, Building
  <2>2. CASE k.pc = "authorized"
    BY <1>2, <2>1, <2>2 DEF AtHead
  <2>3. CASE k.pc # "authorized"
    <3>1. /\ k.pc \in {"planning", "preparing", "prepared"}
          /\ ops'[o].token # 0 /\ ops'[o].status \in Outstanding /\ ~ops'[o].sendAuthorized
      BY <1>2, <2>3 DEF AtHead, Unresolved
    <3>2. ops[o].status \in Outstanding /\ ~ops[o].sendAuthorized
      BY <2>1, <3>1 DEF Stands
    <3> QED BY <1>2, <2>1, <3>1, <3>2 DEF AtHead, Unresolved
  <2> QED BY <2>2, <2>3
<1>3. CASE tasks'[t] # k
  <2>0. ASSUME NEW n, Become(t, n) PROVE tasks'[t] = n
    BY <1>0, <2>0 DEF Become
  <2>1. FetchHead(t) \/ Plan(t) \/ TaskPrepare(t) \/ TaskAuthorize(t)
    BY <1>0, <1>1, <1>3, BuildingSteps
  <2>2. o \in Operations /\ Exists(o)
    BY <1>0, <2>1 DEF FetchHead, Plan, TaskPrepare, TaskAuthorize, Ready, Exists
  <2>3. CASE FetchHead(t)
    <3>1. PICK n : /\ Become(t, n)
                   /\ \/ n = [k EXCEPT !.pc = "planning", !.head = remote[BranchOf(o)]]
                      \/ n = [k EXCEPT !.pc = "cancelling", !.status = "unavailable"]
      BY <2>3 DEF FetchHead
    <3>2. \/ n.operation = o /\ n.head = remote[BranchOf(o)]
          \/ n.pc = "cancelling"
      BY <1>0, <3>1 DEF Task
    <3>3. tasks'[t] = n
      BY <2>0, <3>1
    <3> QED BY <1>1, <2>2, <3>2, <3>3 DEF Building
  <2>4. CASE Plan(t)
    <3>1. PICK n : /\ Become(t, n)
                   /\ \/ \E c, e : n = [k EXCEPT !.pc = "preparing", !.candidate = c,
                                                 !.existing = e]
                      \/ \E s : n = [k EXCEPT !.pc = "cancelling", !.status = s]
      BY <2>4 DEF Plan
    <3>2. \/ n.operation = o /\ n.head = k.head /\ n.pc = "preparing"
          \/ n.pc = "cancelling"
      BY <1>0, <3>1 DEF Task
    <3>3. tasks'[t] = n
      BY <2>0, <3>1
    <3>4. n.operation = o /\ n.head = k.head /\ n.pc = "preparing"
      BY <1>1, <3>2, <3>3 DEF Building
    <3>5. k.pc = "planning" /\ ops' = ops
      BY <2>4 DEF Plan, vars, storeVars
    <3>6. Unresolved(o) /\ ~ops[o].sendAuthorized
      BY <3>3, <3>4, <3>5 DEF AtHead, Unresolved
    <3> QED BY <2>2, <3>3, <3>4, <3>5, <3>6 DEF AtHead
  <2>5. CASE TaskPrepare(t)
    <3> DEFINE n == [k EXCEPT !.pc = "prepared", !.generation = k.generation + 1]
    <3>1. n.operation = o /\ n.head = k.head
      BY <1>0 DEF Task
    <3>2. tasks'[t] = n /\ k.pc = "preparing" /\ Prepare(Owner, o, k.token, k.generation, k.candidate)
      BY <2>0, <2>5 DEF TaskPrepare
    <3>3. Unresolved(o) /\ ~ops[o].sendAuthorized
      BY <1>0, <3>2 DEF Prepare, HoldsToken, Unresolved, Outstanding, Knows
    <3> QED BY <2>2, <3>1, <3>2, <3>3 DEF AtHead
  <2>6. CASE TaskAuthorize(t)
    <3> DEFINE n == [k EXCEPT !.pc = "authorized", !.generation = k.generation + 1]
    <3>1. n.operation = o /\ n.head = k.head
      BY <1>0 DEF Task
    <3>2. /\ tasks'[t] = n /\ k.pc = "prepared"
          /\ AuthorizeSend(Owner, o, k.token, k.generation, TRUE)
      BY <2>0, <2>6 DEF TaskAuthorize
    <3>3. Unresolved(o) /\ ~ops[o].sendAuthorized
      BY <1>0, <3>2 DEF AuthorizeSend, HoldsToken, Unresolved, Outstanding, Knows
    <3> QED BY <2>2, <3>1, <3>2, <3>3 DEF AtHead
  <2> QED BY <2>1, <2>3, <2>4, <2>5, <2>6
<1> QED BY <1>2, <1>3

LEMMA OnwardStep == OnwardInv /\ [OwnerNext]_ownerVars => OnwardInv'
<1> SUFFICES ASSUME OnwardInv, [OwnerNext]_ownerVars, external' = 0 PROVE Onward'
  BY PromiseStep DEF OnwardInv
<1>0. OwnerStateInv /\ Standing /\ external \in 0..MaxExternal
  BY StepStanding DEF OnwardInv, OwnerStateInv, OwnerInv, OwnerTypes
<1>1. external = 0 /\ ~(\E b \in Branches, r \in Revisions : ExternalCommit(b, r))
  <2>1. ASSUME NEW b, NEW r, ExternalCommit(b, r) PROVE FALSE
    BY <1>0, <2>1 DEF ExternalCommit
  <2>2. external' = external
    BY <2>1, WhoCreates DEF Send, Loses, Applies
  <2> QED BY <2>1, <2>2
<1>2. Onward
  BY <1>1 DEF OnwardInv
<1>3. ASSUME NEW q \in requests, NEW r \in Revisions, Applies(q, r) PROVE Onward'
  BY <1>0, <1>2, <1>3, OnwardApplies
<1>4. ASSUME UNCHANGED <<commits, remote>>,
             \A q \in requests' :
               \/ q \in requests
               \/ \E t \in Tasks : /\ AtHead(t) /\ q.operation = tasks[t].operation
                                   /\ q.parent = tasks[t].head
      PROVE  Onward'
  BY <1>0, <1>2, <1>4, AtHeadStep, OnwardResting
<1>5. ASSUME NEW t \in Tasks, Send(t) PROVE Onward'
  <2>1. /\ UNCHANGED <<commits, remote>> /\ AtHead(t)
        /\ requests' = requests \union {[operation |-> tasks[t].operation,
                                         parent |-> tasks[t].head,
                                         candidate |-> tasks[t].candidate]}
    BY <1>5 DEF Send, AtHead
  <2> QED BY <1>4, <2>1
<1>6. ASSUME NEW q \in requests, Loses(q) PROVE Onward'
  BY <1>4, <1>6 DEF Loses
<1> QED BY <1>1, <1>3, <1>4, <1>5, <1>6, WhoCreates

(***************************************************************************)
(* No commit is lost.  The provider takes a create on any parent and moves *)
(* the branch there; as long as nobody else writes, every commit the owner *)
(* made stays in the history of its branch, because the permission to send *)
(* is held over the head it was prepared for (promotion.rs:50-251).        *)
(***************************************************************************)
THEOREM NothingIsOrphaned == OwnerSpec => []NothingOrphaned
<1>1. OnwardInv => NothingOrphaned
  BY DEF OnwardInv, Onward, NothingOrphaned
<1> QED BY <1>1, OnwardInit, OnwardStep, PTL DEF OwnerSpec

(***************************************************************************)
(* The index of a running owner is that of the store: its claims, seals    *)
(* and publications are the store's (index_once, indexing.rs), so what     *)
(* holds of the store under any order of calls holds under the owner's.    *)
(***************************************************************************)
THEOREM OwnerIndexSafe ==
  OwnerSpec => /\ [](/\ OneCandidatePerRevision /\ PublishedHasGraph
                     /\ PublicationReachesReceipts /\ PointersResolve)
               /\ PointersNeverRewind /\ GraphsImmutable /\ SettledIsFinal
BY OwnerImplementsStore, IndexSafe, PointersOnlyAdvance, GraphsStay, SettledStays
   DEF StoreImplemented
=============================================================================
