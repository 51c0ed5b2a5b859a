------------------------ MODULE LedgerServiceProperties ------------------------
(***************************************************************************)
(* What the ledger service promises about the state it keeps and the state *)
(* it saves: the audit trail, the lifecycle events, and what a restart     *)
(* finds.                                                                  *)
(***************************************************************************)
EXTENDS LedgerService, SequencesExt

Whole(content) == content.kind = "whole"
Saved == IF sideName = None THEN Full(NewState) ELSE files[sideName]

\* The states a reader may be given: memory, and every complete file.
Books == {book} \union {files[f].state.book : f \in {g \in Files : Whole(files[g])}}
Histories == {history} \union {files[f].state.history : f \in {g \in Files : Whole(files[g])}}

EntriesOf(b, x, field) == {i \in DOMAIN b.audit : b.audit[i].tx = x /\ b.audit[i].field = field}

\* What the entries of a transaction and field left before the n-th entry: no value if there
\* is none, and otherwise the new value of the last one.
LeftBefore(b, x, field, n, value) ==
  LET earlier == {i \in EntriesOf(b, x, field) : i < n}
  IN /\ earlier = {} => value = None
     /\ \A i \in earlier : (\A j \in earlier : j <= i) => value = b.audit[i].new

Explains(b) ==
  \A x \in Txs, field \in Fields :
    /\ \A i \in EntriesOf(b, x, field) : /\ LeftBefore(b, x, field, i, b.audit[i].old)
                                         /\ b.audit[i].old # b.audit[i].new
    /\ LeftBefore(b, x, field, Len(b.audit) + 1, FieldOf(b.label[x], field))

\* The audit log of every state, saved ones included, tells how each label came to be what
\* it is: the entries of a transaction and field start from no value, each starts from the
\* value the one before left and changes it, and the last one left the value now stored
\* (apply_classification_action and classify_ingested through batches, failures, concurrent
\* snapshots and restarts).
AuditExplains == \A b \in Books : Explains(b)

Gapless(h) ==
  /\ h.last = Len(h.events)
  /\ \A i \in DOMAIN h.events : h.events[i].sequence = i

\* Sequence numbers of lifecycle events are their positions, in memory and in every saved
\* state: no event is lost from the middle, written twice, or numbered anew after a restart
\* (append_event, snapshot_persisted_state, from_manifest_str).
EventsGapless == \A h \in Histories : Gapless(h)

\* A review flag that was open is open still, or has been resolved since.
FlagKept(old, new) ==
  /\ old.resolved <= new.resolved
  /\ old.open => new.open \/ old.resolved < new.resolved

\* What was in memory when a request succeeded is in the sidecar ever after, as long as
\* requests come one by one: ids and rows, audit entries and events in the same order, and
\* review flags unless resolved since (persist_state, load_persisted_state).  The labels
\* are what the audit entries leave, by AuditExplains.
DurableWhenSerial ==
  transport = "stdio" =>
    /\ Whole(Saved)
    /\ acked.seen \subseteq Saved.state.seen
    /\ acked.book.rows \subseteq Saved.state.book.rows
    /\ IsPrefix(acked.book.audit, Saved.state.book.audit)
    /\ IsPrefix(acked.history.events, Saved.state.history.events)
    /\ \A x \in Txs : FlagKept(acked.book.flags[x], Saved.state.book.flags[x])

\* However often the process stops, between any two steps, a start finds a sidecar it can
\* read, as long as requests come one by one (persist_state_to_path, load_persisted_state).
SidecarReadable == transport = "stdio" => Whole(Saved) /\ phase # "refused"

\* A transaction is appended to the journal at most once in the life of a process, by
\* concurrent requests too; only a crash before the save lets a later one append it again
\* (IngestedLedger::ingest under the ingest lock).
AppendedOncePerRun == \A x \in Txs : journal[x] <= budget.crashes + 1

\* A transaction that a successful request had ingested is never appended again, not even
\* after a crash, as long as requests come one by one.
AckedNotJournalledAgain ==
  [][transport = "stdio" => \A x \in acked.seen : journal'[x] = journal[x]]_vars

\* The comment of snapshot_persisted_state, for either transport: one snapshot, "so
\* idempotency, audit, lifecycle replay, and HSM resume move together".  An id the sidecar
\* calls ingested has its row there; a restart would never insert a row it lacks.
SavedTogether == Whole(Saved) => Saved.state.seen \subseteq Saved.state.book.rows

\* The comment of persist_state_to_path, for either transport: the temporary file is renamed
\* "so a mid-write crash never leaves a truncated/corrupt sidecar that causes startup to fail
\* closed".
StartsAfterCrash == phase # "refused"
==============================================================================
