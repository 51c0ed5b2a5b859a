# Formal model of ledgrrr

ledgrrr is a Rust workspace of about thirty crates: a tax-ledger service behind an MCP
interface, a desktop host, and a *revision owner* that keeps SysML models in an external
model provider under one durable authority. These TLA+ modules model the parts of it that are
concurrent, durable and hard to test: the revision store and the revision owner, the ledger
service and the state it saves, the confirmation gate of the desktop chat, and the live
diagram editor of the book.

## Inventory

| Part | Where | State it keeps | Operations | What makes it correct |
|---|---|---|---|---|
| Revision store, dispatch | `crates/ledgrrr-revision-io/src/store.rs` | SQLite tables `grants`, `branches` (fence, active operation), `operations` (receipt, dispatch token, prepared candidate, send permission) | intake, reserve, prepare, authorize_send, cancel_reserved, mark_ambiguous, record_commit, record_observed, reject_before_dispatch, record_index, set_grant | one writer per branch; one send per operation; no release after a send; settled receipts are final; every stored record re-validates |
| Revision store, index | `.../store/index.rs` | `accepted_revisions`, `index_jobs` (lease, fence, attempts), `graph_artifacts`, `branch_index` (observed heads), `branch_checkpoints` (discovery pointers) | enqueue_accepted, claim_index, seal_index, publish_index, observe_head, remove_projection | one bundle per revision; a published graph exists and is reproducible; receipts follow publication; pointers never rewind |
| Revision owner | `crates/ledgrrr-sysml-adapter/src/promotion.rs`, `indexing.rs`, `server.rs`, `bin/revision-owner.rs` | per-request readings held over awaits; nothing durable of its own | promote, reconcile, observe_index_head, index_once | at most one create per operation although answers are lost and requests are cut; nothing orphaned; evidence is real; what was written is acknowledged |
| Model provider | external, reached through `client.rs` | commits and branch heads | create commit, read head, history and snapshots | ignores a stale `previousCommit`, so it orders nothing |
| Revision query | `indexing.rs`, `revision/query.rs` | none | Exact and Current queries | Fresh only for the observed head |
| Merge | `revision/merge.rs` | none | merge_models | three-way merge; disjoint edits kept, overlapping ones conflict |
| Ledger service | `crates/ledgerr-mcp/src/lib.rs`, `http_transport.rs` | transactions, labels, audit log, flags, events, each behind a lock; a saved sidecar and the journal | ingest, classify, reconcile, adjust, batch and bulk labelling, rules, flag resolution, save, restart | the audit log explains every label; events are numbered without a gap; what succeeded is durable; a restart finds a whole sidecar |
| Lifecycle events and machine | `ledgerr-mcp/src/events.rs`, `hsm.rs` | append-only event list; current state | append, reconstruct, transition | only known types; sequence has no gap |
| Ledger core | `crates/ledger-core` | journal file, rule registry | ingest, journal append, rule reload, pipeline | idempotent ingest; hot reload keeps the newest rules |
| Process surfaces | `crates/b00t-iface/src/core` | lifecycle state, crash budget | start, crash, restart, stop | budget and TTL respected |
| Desktop host | `crates/ledgerr-host` | settings, tray state | commands that load, change and save settings | no lost update |
| Chat and its window | `ledgerr-host/src/chat.rs`, `bin/tauri/commands.rs`, `ui/main-legacy.js` | the suspended tool loop in one slot, turns used; popups and a disabled button | send, suspend, confirm, resume | nothing runs unapproved or twice; an answered round resumes; the turn budget holds |
| Book live editor | `book/theme/rhai-live.js`, `rhai-live-core.js` | text, view mode and preview of each editor; Mermaid's load promise | attach, edit, toggle, reset, draft, render | the preview decides as the block says; one script for all; every editor attaches |

`PROJECT.json` lists every component, those that are not modelled with the reason, and the
hazards at the lines where they bite.

How they interact: an HTTP request to the owner runs one async handler. A handler opens its
own connection to the store, so handlers share state only through SQLite, where every method
is one IMMEDIATE transaction, and through the provider. A handler carries what it read (a
receipt's generation, a token, a head) over each await; a 60 s deadline may drop it at any
await, and a process may stop anywhere. A background loop polls heads and runs the index.

The ledger service is called by one transport: over stdio requests come one after the other,
over HTTP each runs on a blocking thread. Requests share the service's locks, which are taken
one at a time, and the file names of the sidecar. The chat's commands share one slot behind a
mutex with the threads they start; the window learns of both only by events, and answers only
through a command. The editors of a page share Mermaid's load promise and the stored view mode.
These three systems do not share state with the revision owner nor with each other: a mutation
call of the chat reaches a ledger service in the same process, as one of its requests.

## Modules

| Module | Models | Notes |
|---|---|---|
| `RevisionIndex` | `store/index.rs` | index tables and the index part of each transaction |
| `RevisionStore` | `store.rs` and the authorization in front of `index.rs` | `Spec`: one action per store method |
| `RevisionStoreProperties` | | invariants, action properties, refinement mapping to `BranchDispatch` |
| `BranchDispatch` | what the dispatch half promises | abstract: a phase per operation, a writer per branch |
| `RevisionOwner` | `promotion.rs`, `indexing.rs`, `server.rs`, provider | extends `RevisionStore`: the callers, with their stale readings |
| `RevisionOwnerProperties` | | promises to clients, fairness, liveness |
| `LedgerService` | `lib.rs`, `events.rs`, `batch_executor.rs` of the service; `ingest.rs`, `journal.rs` and the flags of `classify.rs` | one action per lock held or file-system call |
| `LedgerServiceProperties` | | what the service promises of memory and of the sidecar |
| `ToolConfirmation` | `chat.rs`, `commands.rs`, the window | operator, threads, commands, events; properties at its end |
| `RhaiDiagram` | parser and drafts of `rhai-live-core.js` | operators, and what a block and a graph decide |
| `RhaiLive` | `rhai-live.js` | extends `RhaiDiagram`: editors, Mermaid, the reader; properties at its end |
| `RevisionStoreProofs`, `RevisionIndexProofs` | | theorems about the store: its dispatch and refinement; its index, grants and settled receipts |
| `RevisionOwnerProofs`, `OwnerPromiseProofs` | | theorems about the owner: it implements the store; what it promises of the provider |
| `BranchDispatchProofs`, `LedgerServiceProofs`, `ToolConfirmationProofs`, `RhaiLiveProofs` | | theorems about the module of that name |
| `MCRevisionStore`, `MCRevisionOwner`, `MCLedgerService`, `MCToolConfirmation`, `MCRhaiLive` | | instances for TLC |

### Correspondence with the code

* A store method is one action. Its guards are the method's checks in the code's order of
  dependence (grant, token, generation, status); an error rolls the transaction back and is
  no step. An idempotent retry that returns the stored receipt changes nothing and is no step
  either. `active`/`fences` are the columns `branches.active_operation` and `branches.fence`;
  `ops[o]` is the JSON record of table `operations`; `token = 0` stands for no dispatch and
  `status = "absent"` for no row.
* Digests, bundles and revisions are members of small sets. What the code derives from a
  bundle's own manifest, its parent, is the constant function `CandidateParent`; the parent
  the provider recorded for a revision is `ParentOf`. The store trusts its caller's evidence
  that a revision has the prepared parent, so `DispatchStep` offers `RecordCommit` only what
  `Evidence` allows; `RevisionOwner` has no such restriction, and `StoreImplemented` shows that
  the evidence it produces is always of that kind.
* The walk of `is_ancestor` is an error when it meets a cycle or `MaxAncestors` revisions (10 000
  in the code): such a publication is no step (`AncestryKnown`). The runs have two or three
  revisions and do not reach the bound; the theorems hold for every bound.
* `jobs[r].live` stands for `lease_until` against the clock: `ExpireLease` is time passing.
  The row id that orders accepted revisions is `NextSequence`, as rows are never deleted.
* `RevisionStore!Next` offers each call with the stored generation, token and fence only,
  since any other is refused with `Stale` and changes nothing. `RevisionOwner` has callers
  that hold older readings; `Refused` is their call being refused.
* In `RevisionOwner` an action is the code between two awaits, or one store call. Snapshots
  are immutable and a receipt names its revision for good, so the reads that planning makes
  after it has read the head are one step. The merge is a choice: some candidate for the head
  or a conflict. Any failed read is an `unavailable` outcome or the end of the request.
* The provider applies a create whenever it arrives, on the parent it names, and makes it the
  branch's head (`book/src/sysml-revision-adapter.md:39`); a request may be lost, and an
  answer may be lost whether or not the request was applied. A root commit without elements carries
  no marker and counts as no prior state (`MayBeEmptyRoot`): it explains a base, but proves
  nothing.
* `SetGrant` is an action of the store and not of the owner: no route changes grants.
* In `LedgerService` `calls[r]` is the stack of the thread that runs request `r`: `at` is the
  next critical section or file-system call, `copy` the snapshot it is taking, `file` the inode
  it has open. `files` holds inodes and `tmpName`/`sideName` are names, so that a rename under an
  open file behaves as the file system does. A label is its category and confidence, the fields
  the audit log knows; a rule file is the labels and flags it gives. What a rule changes is a set
  (`Changes`), and the entries are written in any order (`Orders`) that goes row by row: the rows
  come out of a hash map, and a row's category is compared before its confidence. The process may stop between
  any two steps (`Crash`), which loses memory and keeps the disk. An I/O error fails the write
  part-way (`WriteTmp`), or the open or the rename before they change anything (`SaveRefused`).
* `acked` is an auxiliary copy of the memory at the last rename that succeeded: what a client
  has been told is done. Its labels, events, rows and flags must then be found again.
* In `ToolConfirmation` a request is a message of the operator. `phase`, `turns` and `pending` are
  the loop on its thread or in the slot; `granted` is the resolutions it was resumed with. The two
  critical sections of `confirm_pending_tool_call` are `Record` and `Take`. `AdmitSend` checks the
  slot; `StartLoop` comes after the settings were loaded and saved without the lock. `Suspend` fills
  the slot, and `Announce` shows the round to the window once the lock is released; `unshown` holds
  the rounds between the two. `asked` is an auxiliary count of model calls. Only mutation calls
  have a name; `CallId` is the id the model gave each, which need not be unique: the run
  gives each call its own, and the theorem `ApprovedOnly` covers any. A
  popup is `open` while its buttons work, `sent` or `taking` while its command runs.
* In `RhaiLive` an update runs to its end or to its await of Mermaid, when it becomes a job; jobs
  answer in any order. `RhaiDiagram` takes lines as records, and an identifier as the text
  `sanitizeId` leaves alone; where it does not, in comparisons, `PlainNode` says what is left.
  `DecidesAs` reads the graph as a person would, from the head of a chain along its `false` edges,
  and compares the outcome with what the lines say for every value near a threshold.

## Checks

| Run | Bounds | States | Shows |
|---|---|---|---|
| `store_dispatch` | 3 operations on 2 branches, 1 revision, 2 candidates, fences to 2 | 42 k | the dispatch protocol under every order of calls, with three operations competing for a branch at its last fence; refinement of `BranchDispatch` |
| `store_index` | 2 operations, root and child, 2 graph digests, 2 attempts; or 1 older receipt and 1 prepared, 2 administrators | 347 k | leases that expire, late seals, rebuilds, removals and pointers; receipts without a candidate; grants; generations that tell of every change |
| `store_removed` | 1 revision | | violated: see Findings |
| `owner_promote` | 2 operations, 1 external commit; 2 requests, 3 revisions, 2 failures, or 1 request, 1 observer, 1 worker, 2 revisions, 1 failure | 362 k | no duplicate, lost, orphaned or misattributed create; heads that publication may use are justified (with one branch: that a head belongs to its own branch among several is left to `OwnerPromiseKept`); every step is a step of `RevisionStore` |
| `owner_live` | 2 requests, 2 operations, 1 failure | 40 k | acknowledgement and release, under fairness |
| `owner_pointer` | 1 request, 1 observer, 1 worker | 550 | violated: see Findings |
| `ledger_service` | 2 transactions, 3 labels and a rule, 2 threads, 3 requests over stdio or 2 over HTTP, 1 crash, 1 I/O error | 1.2 M | the audit log, event numbers and journal under concurrent requests; durability and a readable sidecar when requests are serial |
| `ledger_restart` | the same, no I/O error | | violated: see Findings |
| `ledger_together` | the same, no I/O error | | violated: see Findings |
| `tool_confirmation` | 2 messages, 2 turns, 2 calls in the first round and 1 in the second | 286 k | approval, budget, replacement of rounds, and resumption under fairness |
| `rhai_live` | 2 editors, 3 blocks, 3 drafts, 3 actions of the reader | 178 k | previews and attachment, with Mermaid absent, ready, failing or late |
| `rhai_overtaken` | the same | | violated: see Findings |

Why the bounds are enough. The dispatch protocol is a contest for one branch: two operations
contend, a third shows that another branch, or the fence limit, changes nothing. Publication
needs an ancestor and a descendant to reorder, so two revisions; a second digest is needed to
see a rebuild differ. Two requests at a time suffice for every race between a promote and a
reconcile of one operation or of two, as each store call compares with a single receipt; three
revisions let both operations commit beside an external writer. `GenerationMax` 5 is the
longest life of an unpublished receipt (reserve, prepare, authorize, ambiguous, commit).
`MaxFailures` and `MaxExternal` bound faults, not the order in which they come.

The `ACTION_CONSTRAINT`s of the store runs (`MCRevisionStore`) select a part of the behaviour for
each run. The dispatch run has no head observations. In the index run a receipt that is sent was
prepared; if the two proposals have the same content, one of them is of the older protocol instead,
and grants change. What each leaves out another has. That of `owner_promote` (`MCRevisionOwner`) lets
heads be observed and jobs be worked on beside one request at a time, and two requests run where
neither happens. Deadlock is not checked: an instance stops when its bounded operations, fences,
revisions, requests or actions are used up.

For the ledger, two overlapping requests are what every race of the save needs; a bulk mapping
needs an ingest and a label before it, hence three requests over stdio. Three inodes are a
sidecar, a temporary file and one a thread still has open. For the chat, a second message is
what overlaps, a second turn tells a round from a later one, and two calls in a round make a
last answer differ from the first. For the editors, two suffice to share a script and to wait
for one another, and three actions to extend a chain, switch the view and come back; a block with two
lines for each direction of one subject has its chain extended by a draft.

### Fairness

`FairOwnerSpec` assumes weak fairness of the next step of each running request (the async
runtime polls ready tasks; each await ends by a response, an error or a time limit), strong
fairness of a client asking again for reconciliation (a client repeats until its receipt is
settled; a request slot is only intermittently free), weak fairness of head observation and
strong fairness of index work (`revision-owner.rs:223` repeats both every 200 ms; a job can
be claimed whenever its lease is not held). Nothing is assumed of the provider: a request
need never be applied. Failures are finite, as no liveness is promised to a client whose
every request is cut.

`ToolConfirmation!FairSpec` assumes weak fairness of every command that was invoked, of every
loop that has a thread (the model's endpoint has a time limit, so a call ends), of the thread that
announces a round, and of the window's event queue; nothing is assumed of the operator. `RhaiLive!Spec` assumes that the browser
runs `main`, reports the end of a script it loads, and settles the render an editor's first update
waits for; nothing is assumed of the reader. `LedgerService` states no liveness.

### Findings

* `store_removed`: `is_projection_removed` is documented to recognise a projection that "was
  published and then explicitly removed" (`store/index.rs:415`). `remove_projection` requeues
  any job with a descriptor, so a job that was sealed and never published counts too.
* `owner_pointer`: `observe_index_head` reads the head, awaits, and writes it later, without
  comparing it with what the store holds by then. If a promotion commits in between, the
  branch's head falls back to the older reading; publication of the new revision then skips
  the branch's pointer, and as a published job is never claimed again nothing moves it later.
  The branch stays without its published head in discovery until another revision is published.
* `ledger_restart`: `persist_state_to_path` renames a temporary file "so a mid-write crash never
  leaves a truncated/corrupt sidecar" (`ledgerr-mcp/src/lib.rs:3179`), but all requests use one
  temporary name and hold no lock. Over HTTP one request opens, and so empties, the file another
  is about to rename; if the process stops before it is written again, every start fails. Over
  stdio this cannot happen (`SidecarReadable`, proved).
* `ledger_together`: `snapshot_persisted_state` is to "persist all restart-visible state as one
  snapshot so idempotency, audit, lifecycle replay, and HSM resume move together"
  (`ledgerr-mcp/src/lib.rs:855`), but it takes one lock after another, as an ingest does. Over HTTP
  one request may save the ids of another's ingest before its rows are in the book; after a stop
  the service knows the ids and has no rows, and ingesting them again inserts nothing.
* `rhai_overtaken`: "`isometric-3d` renders an animated SVG scene" (`visualize.md:60`). An update
  that awaits Mermaid does not ask afterwards whether another was made meanwhile, so after a
  switch back the Mermaid drawing arrives last and stays under the isometric mode.

Three properties of the passing runs are stated with an exception, because the code does not keep
them without it.

* `RoundsAnswered` excludes ids that repeat and rounds put over one another. Two messages sent
  before the first one's event disables the button both pass `send_message`'s check of the slot. The
  second round then replaces the first, whose popups stay open, cannot be answered any more and cover
  the window; and if the replacement falls between `Record` and `Take`, a round is resumed of which
  some calls were never answered: those are told to the model as declined. `state.rs:13` says "Only
  one confirmation round can be in flight at a time" and the comment of `confirm_pending_tool_call`
  that "nothing is dispatched early". `OnlyOverlapReplaces` shows that nothing else than such an
  overlap does it, and `OnlyApprovedRun` that even then nothing runs unapproved.
* `OnlyApprovedRun` speaks of ids. They are copied as the endpoint gives them
  (`agent_runtime.rs:668`): where two calls of a round have one id, approving one runs the other.
* `PreviewDecides` excludes an editor that was updated while an update of it awaited Mermaid;
  `rhai_overtaken` shows why.

## Proofs

| Theorem | Statement |
|---|---|
| `TypeCorrect` | `Spec => []TypeOK` of `RevisionStore` |
| `DispatchSafe` | `Spec => [](Readable /\ ReservationBacked /\ TokensUnique /\ CommitJustified)` |
| `ImplementsDispatch` | `Spec => DispatchRefined`, the refinement of `BranchDispatch` |
| `DispatchExclusive` | `DispatchSpec => []WriterExclusive` |
| `IndexSafe` | `Spec => [](OneCandidatePerRevision /\ PublishedHasGraph /\ PublicationReachesReceipts /\ PointersResolve)` |
| `AdministratorStays` | `Spec => []AdministratorRemains` |
| `PointersOnlyAdvance`, `GraphsStay`, `SettledStays`, `GenerationsRise` | `Spec => PointersNeverRewind`, `GraphsImmutable`, `SettledIsFinal`, `GenerationsTell` |
| `OwnerTypeCorrect` | `OwnerSpec => []OwnerTypeOK` |
| `OwnerImplementsStore` | `OwnerSpec => StoreImplemented`, that is, `OwnerSpec => Spec` |
| `OwnerDispatchSafe`, `OwnerIndexSafe` | the conclusions of the store's theorems but `AdministratorStays`, of `OwnerSpec` |
| `OwnerPromiseKept` | `OwnerSpec => [](OneCreatePerOperation /\ CreatesSerialized /\ RejectedNeverWritten /\ AcceptedIsReal /\ ObservedHeadJustified)` |
| `NothingIsOrphaned` | `OwnerSpec => []NothingOrphaned` |
| `LedgerTypes` | `Spec => []LedgerTypeOK` of `LedgerService` |
| `HistoryGapless` | `Spec => []EventsGapless` |
| `JournalOncePerRun` | `Spec => []AppendedOncePerRun` |
| `AuditTells` | `Spec => []AuditExplains` |
| `SerialSidecarReadable` | `Spec => []SidecarReadable` |
| `AckedStays`, `AckedNotAppended` | `Spec => []DurableWhenSerial`, `Spec => AckedNotJournalledAgain` |
| `ToolTypes` | `Spec => []ToolTypeOK` of `ToolConfirmation` |
| `BudgetSpans` | `Spec => []BudgetSpansSuspensions` |
| `ApprovedOnly` | `Spec => []OnlyApprovedRun` |
| `OverlapOnly` | `Spec => []OnlyOverlapReplaces` |
| `OperatorObeyed` | `Spec => []RoundsAnswered` |
| `RhaiTypes` | `Spec => []RhaiTypeOK` of `RhaiLive` |
| `PreviewsCurrent` | `Spec => []PreviewCurrent` |
| `PreviewsDecide` | `Spec => []PreviewDecides`, if the parser decides each block the page can hold as its lines say |

So every safety property a passing run checks has a theorem, and every one but the last is
without a condition. `SettledStays` is proved and has no run.

### The store

The theorems of the store and of the owner hold for every set of branches, operations, revisions,
candidates, actors, workers,
graphs, requests and observers and every bound, from `IndexAssumption`, `StoreAssumption` and
`OwnerAssumption` (fences and generations
are naturals with a limit, null is not an identity, revisions are finite, an intake names known
identities).

The inductive invariant of `DispatchSafe` is `DispatchInv` in `RevisionStoreProofs`. The four
invariants are not inductive one by one: a record that validates tells nothing about the
operation a branch is reserved for, and uniqueness of tokens needs every token to be at most
its branch's fence, which `Reserve` is about to exceed. Together with `TypeOK` and `Untouched`
(an absent record has no token and no revision) they are: the steps that
change a receipt in place (`KeepingKeepsDispatch`), those that give the branch back
(`ReleaseKeepsDispatch`) and `Reserve` (`ReserveKeepsDispatch`) each have a lemma, and all other
actions leave the dispatch tables alone. `ImplementsDispatch` uses the same invariant: a step on
operation `o` changes only its phase (`PhaseOfOthers`), and `CommitJustified` tells which
abstract step it is.

`RevisionIndexProofs` adds `IndexInv`, which spans the tables of the index and the receipts: the four
invariants of `IndexSafe` and `NoJobNoGraph`, that a revision without a job has no graph. Without it
neither `PublicationReachesReceipts` nor `PointersResolve` survives the creation of a job: a job that
started with a graph would be published before its receipts and its branch heard of it.
`PointersOnlyAdvance`, `GraphsStay`, `SettledStays` and `GenerationsRise` are action properties that follow from
the same invariant, action by action; `AdministratorStays` needs no more than the two counts of
`SetGrant`.

### The owner

`OwnerImplementsStore` needs to know what a request still knows when it acts. `OwnerInv` says, for
each point of a request (`Ready`), which of its readings hold of the store for good: its receipt
exists, the candidate it carries is the one on record once it has prepared it, its candidate
fits the head it planned on (`Fits`), and a revision it calls proven has the candidate's parent.
These are stable, although the readings themselves grow stale, because a store transaction never
removes a receipt nor changes a candidate (`Kept`, `StepKept`); readings that others can overtake,
such as a generation, a token or the provider's head, are not part of it and need not be: the
store compares the first two (`CallIsStep`), and no step of the store depends on the third. `ParentsAgree`
carries the parent through the provider's requests and commits. By this refinement every theorem
about the store is one about the owner.

The promises about the provider are about what is no longer in the owner's hands, and each is
lost without the others. `PromiseInv` follows one create through its life. Permission to send is
held by one request, which has sent nothing yet (`PermitHeldOnce`); afterwards there is one request in
flight or one commit (`OneCreate`), it was authorized and carries the prepared candidate
(`CreatesAuthorized`), the operation a commit is marked
with has a receipt (`CommitsMarked`), and only what is marked is ever accepted
(`AcceptedMarked`) or observed as a head (`HeadsJustified`). `TasksKnow` is what a request has read
that neither the provider nor the store can take back. That the operation of a create under way holds
its branch then follows with `DispatchInv`. `NothingIsOrphaned` adds
`OnwardInv`: while nobody else writes, a create in flight names its branch's present head as
its parent, and a request that may send planned on that head. This is what makes the missing check at
the provider harmless: the branch cannot move between planning and create, since only the holder of
the reservation moves it.

### The ledger service

The theorems of `LedgerService` hold for any labels, rules, request threads and
inodes, any finite set of transactions, any number of requests, crashes and faults, and, but for
`SerialSidecarReadable`, `AckedStays` and `AckedNotAppended`, for either transport.
`LedgerAssumption` takes the transactions to be finitely many, as their ids are hashes of fixed
length; the entries a rule writes are then a sequence.

`LedgerTypes` is not inductive either: a label reaches the book out of a request, so `Carries` says
what a request carries at each of its points. `EventsGapless` is about memory and saved states: a
snapshot in a thread's hands is where a gap would come from, so `HistoryInv` says the same of
`calls[r].copy`, and `AuditInv` says of every copy that its log explains its labels. What keeps a log
explaining is one lemma, `GrownExplains`: entries that tell every change of a label, each once. A
call (`RelabelledExplains`) and a rule (`RuleExplains`) both write such entries.
For `AppendedOncePerRun`, `JournalInv` ties the journal to the process: a transaction not in `seen` has
been appended at most once per crash so far, one in `seen` at most once more.

`SerialInv` follows the save: with one
request at a time, whatever bears the temporary name is the file the saving request holds, it is
whole when the request is about to rename it, and the sidecar is never that file. `DurableInv` puts
three states in order: what was acknowledged is kept in the sidecar, and the sidecar in memory
(`KeptIn`); in between, the copy of the request that saves is memory's as far as it was taken
(`Faithful`), which holds only because no other request changes memory meanwhile. Memory only grows
(`MemoryGrows`), a rename makes all three equal, a crash loses memory, and a start takes it from the
sidecar. `AckedNotAppended` follows, as the ingest skips whatever memory has seen.

### The chat

The theorems of `ToolConfirmation` hold for any requests, turns, calls and ids, from
`RequestAssumption`, `TurnsAssumption`, `CallsAssumption` and `IdAssumption`, and need no fairness.
`TypeInv` adds that a request without a round has no pending calls, without which `Round` could name
calls beyond the budget. `BudgetSpans` rests on `BudgetInv`: until a request has ended, its turns
count the calls of the model, so a resumption that gave turns back would be seen. `ApprovedOnly` has two invariants: `WordInv` follows each "yes" from the
button through the slot to the resumed loop and keeps an approval behind it; `OnceInv` says that
a call that ran belongs to a turn its request has left (`Spent`), and that the owner of the slot is
awaiting, so that no round is resumed twice. `OverlapOnly` rests on `OverlapInv`: unless two
requests overlapped, the one that runs is alone and the slot is empty meanwhile, so `Suspend`
finds it empty. `OperatorObeyed` adds `RoundInv`, under the condition of its property: ids
differ and no round was put over another. A round is announced to the window once (it is `unshown`,
or one event holds it), each call has one
popup, what the slot heard is what the operator pressed, one command takes the round, and the resumed
loop runs what was granted and reports the rest declined.

### The editors

The theorems of `RhaiLive` hold for any number of editors, any blocks and drafts and any number of
actions. `RhaiInv` relates an editor to the jobs that await Mermaid for it: a job of an
editor that was not overtaken is its only one and carries its latest block, and an editor without a
job shows it (`PreviewCurrent`). `PreviewsDecide` is modular: from the page's side nothing but the
parser can make a preview decide otherwise. That the parser does decide as the lines say is data: it
sorts the chains and follows edges, both recursive definitions, so it stays with TLC, over every
block that three actions can build.

### Only model-checked

`AnsweredRoundResumes`, `EditorsAllAttach`, `WrittenIsAccepted` and `BranchFreedOrAmbiguous`: the
prover has no reasoning about fairness and `ENABLED`. The condition of `PreviewsDecide`, as said. The
five violated properties are shown by counterexamples.

## Not modelled

Bundle validation and canonical encoding, the SysML encoding, RDF projection and query
evaluation (pure conversions); the project's bootstrap and the registration of branches (they
make the initial state); schema migrations; reads that change nothing; the limits on request
size and concurrent requests.

Of the ledger service: the evidence graph, which is saved after the sidecar and read back at a
start, the lifecycle machine (its source holds unresolved merge-conflict markers), the document
registry and the exports. Of the chat: transcripts, logs, settings. Of the editor: layout, icons
and SVG, and the numbers of a threshold as text. `ledgerr-host/ui/main.js` is a bundle generated from
the front ends and their libraries: its 39,000 lines are most of the repository's script code, and
nothing in it is written by hand, so it is modelled through its sources only. `ui/docs` draws what
it is given. The other crates are listed in `PROJECT.json` with reasons.

## Plan

Done: the revision store and owner, the ledger service, the chat's confirmation gate and the live
editor, with the runs above and a theorem for each of their safety properties. Next, in this order:

1. Proofs: what `DispatchExclusive` means for the owner, that is, at most one create under way per
   branch as a theorem about the abstract dispatch alone; the conditions under which
   `PublishedHeadIsDiscoverable` does hold.
2. `RevisionQuery`: what a Current or Exact query may answer while heads, jobs and pointers move.
3. `RevisionMerge`: the three-way merge as an operator against its reference definition.
4. `SurfaceMachine` and `SettingsTray`: crash budgets; lost settings updates.
5. Bootstrap, branch registration and migrations as actions of the store.
