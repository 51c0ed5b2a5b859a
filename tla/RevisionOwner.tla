----------------------------- MODULE RevisionOwner -----------------------------
(***************************************************************************)
(* The revision owner (ledgrrr-sysml-adapter): promote, reconcile and head *)
(* observation run as concurrent requests over the store and a remote      *)
(* model provider.  What a request reads it keeps in its own memory, and   *)
(* uses after every await; the store's generation and fence checks are all *)
(* that stands between a stale reading and a write.  The provider creates  *)
(* commits on any parent it is told, so nothing there orders two writers.  *)
(***************************************************************************)
EXTENDS RevisionStore

CONSTANTS Tasks,       \* promote and reconcile requests that may run at once
          Observers,   \* head observations that may run at once
          MaxFailures, \* requests cut by a deadline, a crash or a failed read
          MaxExternal  \* commits made by writers that bypass the owner

ASSUME OwnerAssumption == MaxFailures \in Nat /\ MaxExternal \in Nat

VARIABLES commits,   \* provider: what each revision holds
          remote,    \* provider: the head of each branch
          requests,  \* create requests under way to the provider
          external,  \* how many external commits there have been
          tasks,     \* what each running request has read
          observers, \* what each running head observation has read
          failures   \* how many failures there have been

providerVars == <<commits, remote, requests, external>>
processVars == <<tasks, observers, failures>>
ownerVars == <<providerVars, processVars, vars>>

Owner == BootstrapOwner

Commit == [made: BOOLEAN, operation: Maybe(Operations), candidate: Maybe(Candidates)]
NoCommit == [made |-> FALSE, operation |-> None, candidate |-> None]
Request == [operation: Operations, parent: Maybe(Revisions), candidate: Candidates]

Task == [pc: {"idle", "admitted", "reserved", "planning", "preparing", "prepared",
              "authorized", "sent", "responded", "searching",
              "cancelling", "unknown", "proven"},
         operation: Maybe(Operations),
         generation: 0..GenerationMax,
         token: 0..FenceMax,
         head: Maybe(Revisions),
         candidate: Maybe(Candidates),
         existing: BOOLEAN,
         status: Status,
         revision: Maybe(Revisions)]
IdleTask == [pc |-> "idle", operation |-> None, generation |-> 0, token |-> 0,
             head |-> None, candidate |-> None, existing |-> FALSE,
             status |-> "absent", revision |-> None]

Observer == [pc: {"idle", "fetched", "judged"}, branch: Maybe(Branches),
             head: Maybe(Revisions), unavailable: BOOLEAN]
IdleObserver == [pc |-> "idle", branch |-> None, head |-> None, unavailable |-> FALSE]

OwnerTypeOK ==
  /\ TypeOK
  /\ commits \in [Revisions -> Commit]
  /\ remote \in [Branches -> Maybe(Revisions)]
  /\ requests \in SUBSET Request
  /\ external \in 0..MaxExternal
  /\ tasks \in [Tasks -> Task]
  /\ observers \in [Observers -> Observer]
  /\ failures \in 0..MaxFailures

OwnerInit ==
  /\ Init
  /\ commits = [r \in Revisions |-> NoCommit]
  /\ remote = [b \in Branches |-> None]
  /\ requests = {}
  /\ external = 0
  /\ tasks = [t \in Tasks |-> IdleTask]
  /\ observers = [v \in Observers |-> IdleObserver]
  /\ failures = 0

\* The revisions NativeClient::history returns: the head of b and its ancestors.
InHistory(r, b) ==
  /\ remote[b] # None
  /\ \A S \in SUBSET Revisions :
       remote[b] \in S /\ (\A s \in S : ParentOf[s] # None => ParentOf[s] \in S) => r \in S

\* bound_snapshot for branch b succeeds: the marker in r names an operation of b whose
\* receipt accepted r.
Verified(r, b) ==
  /\ commits[r].operation # None
  /\ BranchOf(commits[r].operation) = b
  /\ ops[commits[r].operation].revision = r

\* Request t goes on to pc with these further readings; the provider is not involved.
Become(t, task) == tasks' = [tasks EXCEPT ![t] = task]
End(t) == Become(t, IdleTask)
Quiet == UNCHANGED <<providerVars, observers, failures>>
-----------------------------------------------------------------------------
(***************************************************************************)
(* promote                                                                 *)
(***************************************************************************)
\* The receipt is read, and only one that was never dispatched is promoted.
Admit(t, o) ==
  /\ tasks[t].pc = "idle"
  /\ ops[o].status = "pending" /\ ops[o].token = 0
  /\ \E a \in {ops[o].intake.actor, Owner} : "read" \in grants[a]
  /\ "propose" \in grants[ops[o].intake.actor]
  /\ Become(t, [IdleTask EXCEPT !.pc = "admitted", !.operation = o,
                                !.generation = ops[o].generation])
  /\ UNCHANGED vars /\ Quiet

TaskReserveNextToken(t) ==
  LET k == tasks[t] IN
  /\ k.pc = "admitted"
  /\ Reserve(Owner, k.operation, k.generation)
  /\ Become(t, [k EXCEPT !.pc = "reserved", !.generation = k.generation + 1,
                         !.token = fences[BranchOf(k.operation)] + 2])
  /\ Quiet

TaskReserve(t) ==
  LET k == tasks[t] IN
  /\ k.pc = "admitted"
  /\ Reserve(Owner, k.operation, k.generation)
  /\ Become(t, [k EXCEPT !.pc = "reserved", !.generation = k.generation + 1,
                         !.token = fences[BranchOf(k.operation)] + 1])
  /\ Quiet

\* The head is read under the reservation, and used until the request ends.
FetchHead(t) ==
  LET k == tasks[t] IN
  /\ k.pc = "reserved"
  /\ \/ Become(t, [k EXCEPT !.pc = "planning", !.head = remote[BranchOf(k.operation)]])
     \/ Become(t, [k EXCEPT !.pc = "cancelling", !.status = "unavailable"])
  /\ UNCHANGED vars /\ Quiet

NoOp(o, h) ==
  /\ h # None /\ Verified(h, BranchOf(o))
  /\ commits[h].candidate = ops[o].intake.proposal

\* bound_snapshot takes a root without elements for no prior state: it has no marker.
MayBeEmptyRoot(r) == commits[r].made /\ commits[r].operation = None /\ ParentOf[r] = None
Explained(r, b) == r # None => Verified(r, b) \/ MayBeEmptyRoot(r)

(***************************************************************************)
(* prepare_candidate, once the head is known.  Snapshots are immutable and *)
(* a receipt names its revision for good, so the reads after the head's    *)
(* are one step.  The merge of proposal, base and head is abstracted to    *)
(* some candidate for the head, or a conflict.  A head whose marker names  *)
(* no receipt that accepted it counts as empty content, and a base must be *)
(* explained or an empty root.  A failed read, an unexplained writer or a  *)
(* candidate that emit refuses gives the reservation back.                 *)
(***************************************************************************)
Plan(t) ==
  LET k == tasks[t]
      o == k.operation
      mine == ops[o].intake.proposal
      base == CandidateParent[mine]
      Propose(c, existing) == Become(t, [k EXCEPT !.pc = "preparing", !.candidate = c,
                                                  !.existing = existing])
      Reject(status) == Become(t, [k EXCEPT !.pc = "cancelling", !.status = status])
  IN /\ k.pc = "planning"
     /\ \/ NoOp(o, k.head) /\ Propose(mine, TRUE)
        \/ ~NoOp(o, k.head) /\ base = k.head /\ Propose(mine, FALSE)
        \/ /\ ~NoOp(o, k.head) /\ base # k.head /\ Explained(base, BranchOf(o))
           /\ \/ \E c \in Candidates : CandidateParent[c] = k.head /\ Propose(c, FALSE)
              \/ Reject("conflict")
        \/ Reject("unavailable")
     /\ UNCHANGED vars /\ Quiet

TaskCancel(t) ==
  LET k == tasks[t] IN
  /\ k.pc = "cancelling"
  /\ CancelReserved(Owner, k.operation, k.token, k.generation, k.status)
  /\ End(t) /\ Quiet

TaskPrepare(t) ==
  LET k == tasks[t] IN
  /\ k.pc = "preparing"
  /\ Prepare(Owner, k.operation, k.token, k.generation, k.candidate)
  /\ Become(t, [k EXCEPT !.pc = "prepared", !.generation = k.generation + 1])
  /\ Quiet

\* The head already holds the proposal: bind it, and send nothing.
TaskObserve(t) ==
  LET k == tasks[t] IN
  /\ k.pc = "prepared" /\ k.existing
  /\ RecordCommit(Owner, k.operation, k.token, k.generation, k.head, TRUE)
  /\ End(t) /\ Quiet

TaskAuthorizeInMemory(t) ==
  LET k == tasks[t] IN
  /\ k.pc = "prepared" /\ ~k.existing
  /\ Become(t, [k EXCEPT !.pc = "authorized"])
  /\ UNCHANGED vars /\ Quiet

TaskAuthorize(t) ==
  LET k == tasks[t] IN
  /\ k.pc = "prepared" /\ ~k.existing
  /\ AuthorizeSend(Owner, k.operation, k.token, k.generation, TRUE)
  /\ Become(t, [k EXCEPT !.pc = "authorized", !.generation = k.generation + 1])
  /\ Quiet

\* create_commit leaves for the provider.
Send(t) ==
  LET k == tasks[t] IN
  /\ k.pc = "authorized"
  /\ requests' = requests \union {[operation |-> k.operation, parent |-> k.head,
                                   candidate |-> k.candidate]}
  /\ Become(t, [k EXCEPT !.pc = "sent"])
  /\ UNCHANGED <<vars, commits, remote, external, observers, failures>>

\* The response arrives, or it does not: a timeout says nothing about the request.
Answer(t) ==
  LET k == tasks[t] IN
  /\ k.pc = "sent"
  /\ \E r \in Revisions : /\ commits[r].operation = k.operation
                          /\ Become(t, [k EXCEPT !.pc = "responded", !.revision = r])
  /\ UNCHANGED vars /\ Quiet

AnswerLostResending(t) ==
  LET k == tasks[t] IN
  /\ k.pc = "sent"
  /\ Become(t, [k EXCEPT !.pc = "authorized"])
  /\ UNCHANGED vars /\ Quiet

AnswerLost(t) ==
  LET k == tasks[t] IN
  /\ k.pc = "sent"
  /\ Become(t, [k EXCEPT !.pc = "unknown"])
  /\ UNCHANGED vars /\ Quiet

\* verify_result: parent, reachability, content and head of the returned revision.
Verify(t) ==
  LET k == tasks[t]
      b == BranchOf(k.operation)
  IN /\ k.pc = "responded"
     /\ \/ /\ ParentOf[k.revision] = k.head /\ InHistory(k.revision, b)
           /\ commits[k.revision].candidate = k.candidate
           /\ remote[b] = k.revision
           /\ Become(t, [k EXCEPT !.pc = "proven"])
        \/ Become(t, [k EXCEPT !.pc = "unknown"])
     /\ UNCHANGED vars /\ Quiet

TaskAmbiguous(t) ==
  LET k == tasks[t] IN
  /\ k.pc = "unknown"
  /\ MarkAmbiguous(Owner, k.operation, k.token, k.generation)
  /\ End(t) /\ Quiet

TaskRecord(t) ==
  LET k == tasks[t] IN
  /\ k.pc = "proven"
  /\ RecordCommit(Owner, k.operation, k.token, k.generation, k.revision, FALSE)
  /\ End(t) /\ Quiet
-----------------------------------------------------------------------------
(***************************************************************************)
(* reconcile reads the receipt: an outstanding dispatch that was never     *)
(* authorized is cancelled, an authorized one is searched for.  Anything   *)
(* else is returned as it is.                                              *)
(***************************************************************************)
ReconcilablePending(o) == Unresolved(o) /\ ops[o].status = "pending"
ReconcilableSent(o) == Unresolved(o) /\ ops[o].sendAuthorized /\ ops[o].candidate # None

Reconcilable(o) == Unresolved(o) /\ (ops[o].sendAuthorized => ops[o].candidate # None)

StartReconcile(t, o) ==
  /\ tasks[t].pc = "idle"
  /\ Reconcilable(o)
  /\ \E a \in {ops[o].intake.actor, Owner} : "read" \in grants[a]
  /\ Become(t, [IdleTask EXCEPT
                  !.pc = IF ops[o].sendAuthorized THEN "searching" ELSE "cancelling",
                  !.operation = o, !.generation = ops[o].generation,
                  !.token = ops[o].token,
                  !.candidate = IF ops[o].sendAuthorized THEN ops[o].candidate ELSE None,
                  !.status = IF ops[o].sendAuthorized THEN ops[o].status ELSE "unavailable"])
  /\ UNCHANGED vars /\ Quiet

MatchesHistory(k) == {r \in Revisions : InHistory(r, BranchOf(k.operation))}

MatchesByParent(k) ==
  {r \in Revisions : /\ InHistory(r, BranchOf(k.operation))
                     /\ ParentOf[r] = CandidateParent[k.candidate]}

\* The commits in the branch's history that are exactly what was prepared.
Matches(k) ==
  {r \in Revisions : /\ InHistory(r, BranchOf(k.operation))
                     /\ ParentOf[r] = CandidateParent[k.candidate]
                     /\ commits[r].operation = k.operation
                     /\ commits[r].candidate = k.candidate}

\* One match is proof.  None or several leave a pending receipt ambiguous.
Search(t) ==
  LET k == tasks[t] IN
  /\ k.pc = "searching"
  /\ \/ \E r \in Revisions : /\ Matches(k) = {r}
                             /\ Become(t, [k EXCEPT !.pc = "proven", !.revision = r])
     \/ /\ Cardinality(Matches(k)) # 1
        /\ IF k.status = "pending" THEN Become(t, [k EXCEPT !.pc = "unknown"]) ELSE End(t)
  /\ UNCHANGED vars /\ Quiet
-----------------------------------------------------------------------------
\* The store refuses the call a request makes next (Stale, BranchBlocked).
Refused(t) ==
  LET k == tasks[t]
      o == k.operation
  IN /\ \/ /\ k.pc \in {"admitted", "cancelling", "preparing", "prepared", "unknown", "proven"}
           /\ ~Current(o, k.generation)
        \/ /\ k.pc = "admitted"
           /\ active[BranchOf(o)] # None \/ fences[BranchOf(o)] = FenceMax
     /\ End(t)
     /\ UNCHANGED vars /\ Quiet

\* A deadline drops the request at an await, or the owner process dies: what a request
\* had read is lost, what the store and the provider have is not.
Abandon(t) ==
  /\ tasks[t].pc # "idle" /\ failures < MaxFailures
  /\ End(t)
  /\ failures' = failures + 1
  /\ UNCHANGED <<vars, providerVars, observers>>
-----------------------------------------------------------------------------
(***************************************************************************)
(* observe_index_head: fetch the head, judge it against what the store     *)
(* accepted, and only then, in another transaction, write it.              *)
(***************************************************************************)
ObserverFetch(v, b) ==
  /\ observers[v].pc = "idle"
  /\ observers' = [observers EXCEPT ![v] = [IdleObserver EXCEPT !.pc = "fetched",
                                                 !.branch = b, !.head = remote[b]]]
  /\ UNCHANGED <<vars, providerVars, tasks, failures>>

\* accepted_bundle finds the head and the snapshot hydrates to the accepted bundle.
HeadAccepted(r, b) ==
  IsAccepted(r) /\ Verified(r, b) /\ commits[r].candidate = accepted[r].candidate

ObserverJudgeAnyAccepted(v) ==
  LET head == observers[v].head IN
  /\ observers[v].pc = "fetched"
  /\ observers' = [observers EXCEPT ![v].pc = "judged"]
  /\ UNCHANGED <<vars, providerVars, tasks, failures>>

ObserverJudge(v) ==
  LET head == observers[v].head IN
  /\ observers[v].pc = "fetched"
  /\ observers' = [observers EXCEPT ![v].pc = "judged",
                     ![v].unavailable = head # None /\ ~HeadAccepted(head, observers[v].branch)]
  /\ UNCHANGED <<vars, providerVars, tasks, failures>>

ObserverWrite(v) ==
  /\ observers[v].pc = "judged"
  /\ ObserveHead(Owner, observers[v].branch, observers[v].head, observers[v].unavailable)
  /\ observers' = [observers EXCEPT ![v] = IdleObserver]
  /\ UNCHANGED <<providerVars, tasks, failures>>

\* The poll's 3 s budget, a request deadline or a failed read ends an observation unwritten.
ObserverGivesUp(v) ==
  /\ observers[v].pc # "idle" /\ failures < MaxFailures
  /\ observers' = [observers EXCEPT ![v] = IdleObserver]
  /\ failures' = failures + 1
  /\ UNCHANGED <<vars, providerVars, tasks>>
-----------------------------------------------------------------------------
(***************************************************************************)
(* The provider.  It ignores a stale previousCommit: a create becomes the  *)
(* head of its branch whatever the head was.                               *)
(***************************************************************************)
Applies(q, r) ==
  /\ ~commits[r].made /\ ParentOf[r] = q.parent
  /\ commits' = [commits EXCEPT ![r] = [made |-> TRUE, operation |-> q.operation,
                                        candidate |-> q.candidate]]
  /\ remote' = [remote EXCEPT ![BranchOf(q.operation)] = r]
  /\ requests' = requests \ {q}
  /\ UNCHANGED <<vars, processVars, external>>

Loses(q) ==
  /\ requests' = requests \ {q}
  /\ UNCHANGED <<vars, processVars, commits, remote, external>>

\* Another writer commits, without the owner's marker.
ExternalCommit(b, r) ==
  /\ external < MaxExternal
  /\ ~commits[r].made
  /\ ParentOf[r] # None => commits[ParentOf[r]].made
  /\ commits' = [commits EXCEPT ![r].made = TRUE]
  /\ remote' = [remote EXCEPT ![b] = r]
  /\ external' = external + 1
  /\ UNCHANGED <<vars, processVars, requests>>
-----------------------------------------------------------------------------
\* What a running request does next of its own accord.
Continue(t) ==
  \/ TaskReserve(t) \/ FetchHead(t) \/ Plan(t) \/ TaskCancel(t) \/ TaskPrepare(t)
  \/ TaskObserve(t) \/ TaskAuthorize(t) \/ Send(t) \/ Answer(t) \/ AnswerLost(t)
  \/ Verify(t) \/ TaskAmbiguous(t) \/ TaskRecord(t) \/ Search(t) \/ Refused(t)

Observe(v) ==
  \/ \E b \in Branches : ObserverFetch(v, b)
  \/ ObserverJudge(v)
  \/ ObserverWrite(v)

Provider ==
  \/ \E q \in requests : Loses(q) \/ \E r \in Revisions : Applies(q, r)
  \/ \E b \in Branches, r \in Revisions : ExternalCommit(b, r)

\* Steps of the store that no running promote, reconcile or observation takes.
Elsewhere ==
  /\ \/ \E i \in Intakes : Intake(i)
     \/ \E r \in Revisions : IndexStep(Owner, r) \/ LeaseExpires(r)
  /\ UNCHANGED <<providerVars, processVars>>

OwnerNext ==
  \/ \E t \in Tasks : \/ \E o \in Operations : Admit(t, o) \/ StartReconcile(t, o)
                     \/ Continue(t)
                     \/ Abandon(t)
  \/ \E v \in Observers : Observe(v) \/ ObserverGivesUp(v)
  \/ Provider
  \/ Elsewhere

OwnerSpec == OwnerInit /\ [][OwnerNext]_ownerVars
==============================================================================
