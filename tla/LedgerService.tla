---------------------------- MODULE LedgerService ----------------------------
(***************************************************************************)
(* The tax-ledger service (ledgerr-mcp, lib.rs) behind its two transports: *)
(* stdio answers one request after the other, HTTP runs every request on a *)
(* blocking thread of its own.  The state is kept in memory behind one     *)
(* lock for ingest, one for classification and one for lifecycle events,   *)
(* is copied lock by lock into a snapshot, and is saved to a sidecar file  *)
(* through a temporary file that all requests share.                       *)
(*                                                                         *)
(* An action is the code under one lock or one file-system call.           *)
(***************************************************************************)
EXTENDS Naturals, Sequences, FiniteSets

CONSTANTS Txs,         \* content-derived transaction ids
          Labels,      \* [category, confidence] pairs a caller may send
          LowLabels,   \* those that ask for review: confidence < 0.80, or uncategorized
          Rules,       \* outcomes of a rule file: what it labels, and what it flags
          Requests,    \* concurrent request threads
          Files,       \* inodes of the directory that holds the sidecar
          None,        \* no value
          MaxCalls, \* bound on the requests of each transport
          MaxCrashes, MaxFaults \* bounds on crashes and on I/O errors

Fields == {"category", "confidence"}
Transports == {"stdio", "http"}

ASSUME LedgerAssumption ==
  /\ IsFiniteSet(Txs)
  /\ LowLabels \subseteq Labels
  /\ \A l \in Labels : DOMAIN l = Fields
  /\ Rules \subseteq [label: [Txs -> Labels], flagged: SUBSET Txs]
  /\ None \notin Labels \union Files
  /\ MaxCalls \in [Transports -> Nat] /\ MaxCrashes \in Nat /\ MaxFaults \in Nat

VARIABLES transport, \* LEDGERR_MCP_TRANSPORT
          phase,     \* whether the process is up, down, or refused to start
          seen,      \* ingest_state: transaction ids already ingested
          book,      \* classification_state: rows, labels, audit log and review flags
          history,   \* lifecycle_events: the events and the last sequence number
          journal,   \* the journal file: how often each transaction was appended
          files,     \* contents of the inodes
          tmpName,   \* the inode named *.ledgerr-state.json.tmp
          sideName,  \* the inode named *.ledgerr-state.json
          calls,     \* what each request thread is doing
          acked,     \* auxiliary: state when a request last succeeded after a save
          budget     \* auxiliary: requests, crashes and faults so far

memory == <<seen, book, history>>
disk == <<files, tmpName, sideName>>
vars == <<transport, phase, memory, journal, disk, calls, acked, budget>>

Maybe(S) == S \union {None}
Values == UNION {{l[f] : f \in Fields} : l \in Labels}
AuditEntry == [tx: Txs, field: Fields, old: Maybe(Values), new: Values]
EventTypes == {"ingest", "classification", "reconciliation", "adjustment"}
Event == [sequence: Nat, type: EventTypes, tx: Txs]
Book == [rows: SUBSET Txs, label: [Txs -> Maybe(Labels)], audit: Seq(AuditEntry),
         flags: [Txs -> [open: BOOLEAN, resolved: Nat]]]
History == [events: Seq(Event), last: Nat]
State == [seen: SUBSET Txs, book: Book, history: History]

NewBook == [rows |-> {}, label |-> [x \in Txs |-> None], audit |-> <<>>,
            flags |-> [x \in Txs |-> [open |-> FALSE, resolved |-> 0]]]
NewHistory == [events |-> <<>>, last |-> 0]
NewState == [seen |-> {}, book |-> NewBook, history |-> NewHistory]

\* What a file holds: all of a saved state, nothing, or parts of one or two writes.
Content == [kind: {"whole", "blank", "torn"}, state: State]
Full(state) == [kind |-> "whole", state |-> state]
Blank == [kind |-> "blank", state |-> NewState]
Torn == [kind |-> "torn", state |-> NewState]
Memory == [seen |-> seen, book |-> book, history |-> history]

Kinds == EventTypes \union {"bulk_mapping", "rule", "resolve"}
Points == {"idle", "ingest", "rows", "ingestEvents", "classify", "event", "rule", "resolve",
           "copySeen", "copyBook", "copyHistory", "open", "write", "rename"}
Call == [at: Points, kind: Kinds, todo: SUBSET Txs, inserted: SUBSET Txs, tx: Maybe(Txs),
         label: Maybe(Labels), strict: BOOLEAN, rule: Maybe(Rules), copy: State,
         file: Maybe(Files)]
Idle == [at |-> "idle", kind |-> "resolve", todo |-> {}, inserted |-> {}, tx |-> None,
         label |-> None, strict |-> FALSE, rule |-> None, copy |-> NewState, file |-> None]

LedgerTypeOK ==
  /\ transport \in Transports /\ phase \in {"up", "down", "refused"}
  /\ Memory \in State /\ journal \in [Txs -> Nat]
  /\ files \in [Files -> Content]
  /\ tmpName \in Maybe(Files) /\ sideName \in Maybe(Files)
  /\ calls \in [Requests -> Call]
  /\ acked \in State
  /\ budget \in [calls: Nat, crashes: Nat, faults: Nat]

Init ==
  /\ transport \in Transports /\ phase = "up"
  /\ seen = {} /\ book = NewBook /\ history = NewHistory
  /\ journal = [x \in Txs |-> 0]
  /\ files = [f \in Files |-> Blank] /\ tmpName = None /\ sideName = None
  /\ calls = [r \in Requests |-> Idle]
  /\ acked = NewState
  /\ budget = [calls |-> 0, crashes |-> 0, faults |-> 0]

(***************************************************************************)
(* Requests.                                                               *)
(***************************************************************************)
At(r, point) == phase = "up" /\ calls[r].at = point
Move(r, c) == calls' = [calls EXCEPT ![r] = c]
Goto(r, point) == Move(r, [calls[r] EXCEPT !.at = point])
Fault == budget.faults < MaxFaults /\ budget' = [budget EXCEPT !.faults = @ + 1]

\* A request starts; stdio reads the next line only after it has answered the last.
Start(r) ==
  /\ At(r, "idle") /\ budget.calls < MaxCalls[transport]
  /\ transport = "stdio" => \A q \in Requests : calls[q].at = "idle"
  /\ \/ \E rows \in SUBSET Txs \ {{}} :
          Move(r, [Idle EXCEPT !.at = "ingest", !.kind = "ingest", !.todo = rows])
     \/ \E rows \in SUBSET Txs \ {{}}, l \in Labels, strict \in BOOLEAN,
           kind \in {"classification", "reconciliation", "adjustment"} :
          /\ kind # "classification" => strict /\ Cardinality(rows) = 1
          /\ Move(r, [Idle EXCEPT !.at = "classify", !.kind = kind, !.todo = rows,
                                  !.label = l, !.strict = strict])
     \/ \E rows \in SUBSET Txs \ {{}}, l \in Labels, strict \in BOOLEAN, source \in Txs :
          /\ rows \subseteq book.rows \ {source} \* what apply_mapping_bulk finds similar
          /\ source \in book.rows /\ book.label[source] # None
          /\ Move(r, [Idle EXCEPT !.at = "classify", !.kind = "bulk_mapping", !.todo = rows,
                                  !.label = l, !.strict = strict])
     \/ \E rule \in Rules :
          Move(r, [Idle EXCEPT !.at = "rule", !.kind = "rule", !.rule = rule])
     \/ \E rows \in SUBSET Txs \ {{}} :
          Move(r, [Idle EXCEPT !.at = "resolve", !.kind = "resolve", !.todo = rows])
  /\ budget' = [budget EXCEPT !.calls = @ + 1]
  /\ UNCHANGED <<transport, phase, memory, journal, disk, acked>>

\* What follows a failed item of a batch: the next item, or the end of the request.
AfterFailure(r, rest) ==
  IF calls[r].strict \/ rest = {} THEN Idle
  ELSE [calls[r] EXCEPT !.at = "classify", !.todo = rest, !.file = None]

(***************************************************************************)
(* ingest_statement_rows.                                                  *)
(***************************************************************************)
\* Mutant: every row of the request is appended, known or not.
IngestRowsAppendingAll(r) ==
  /\ At(r, "ingest")
  /\ LET inserted == calls[r].todo \ seen IN
     /\ seen' = seen \union inserted
     /\ \/ /\ journal' = [x \in Txs |-> journal[x] + IF x \in calls[r].todo THEN 1 ELSE 0]
           /\ Move(r, [calls[r] EXCEPT !.at = "rows", !.inserted = inserted])
           /\ UNCHANGED budget
        \/ \E written \in SUBSET inserted :
           /\ inserted # {}
           /\ journal' = [x \in Txs |-> journal[x] + IF x \in written THEN 1 ELSE 0]
           /\ Move(r, Idle) /\ Fault
  /\ UNCHANGED <<transport, phase, book, history, disk, acked>>

\* IngestedLedger::ingest_to_journal_and_workbook, under the ingest lock.  An I/O error
\* leaves the ids in memory, and in the journal whatever was written before it.
IngestRows(r) ==
  /\ At(r, "ingest")
  /\ LET inserted == calls[r].todo \ seen IN
     /\ seen' = seen \union inserted
     /\ \/ /\ journal' = [x \in Txs |-> journal[x] + IF x \in inserted THEN 1 ELSE 0]
           /\ Move(r, [calls[r] EXCEPT !.at = "rows", !.inserted = inserted])
           /\ UNCHANGED budget
        \/ \E written \in SUBSET inserted :
           /\ inserted # {}
           /\ journal' = [x \in Txs |-> journal[x] + IF x \in written THEN 1 ELSE 0]
           /\ Move(r, Idle) /\ Fault
  /\ UNCHANGED <<transport, phase, book, history, disk, acked>>

\* The rows reach the classification state; then the ontology sidecar may refuse.
IngestBook(r) ==
  /\ At(r, "rows")
  /\ book' = [book EXCEPT !.rows = @ \union calls[r].inserted]
  /\ \/ Goto(r, "ingestEvents") /\ UNCHANGED budget
     \/ Move(r, Idle) /\ Fault
  /\ UNCHANGED <<transport, phase, seen, history, journal, disk, acked>>

\* InMemoryLifecycleEventStore::append_event.
Appended(h, type, x) ==
  [events |-> Append(h.events, [sequence |-> h.last + 1, type |-> type, tx |-> x]),
   last |-> h.last + 1]

\* One event per row of the request, whether or not it was inserted.
IngestEvent(r) ==
  /\ At(r, "ingestEvents")
  /\ \E x \in calls[r].todo :
     /\ history' = Appended(history, "ingest", x)
     /\ LET rest == calls[r].todo \ {x} IN
        Move(r, [calls[r] EXCEPT !.todo = rest,
                                 !.at = IF rest = {} THEN "copySeen" ELSE "ingestEvents"])
  /\ UNCHANGED <<transport, phase, seen, book, journal, disk, acked, budget>>

(***************************************************************************)
(* apply_classification_action, classify_ingested and bulk_resolve_flags,  *)
(* each under the classification lock.                                     *)
(***************************************************************************)
FieldOf(label, field) == IF label = None THEN None ELSE label[field]
AuditOf(x, field, old, new) ==
  IF FieldOf(old, field) = new[field] THEN <<>>
  ELSE <<[tx |-> x, field |-> field, old |-> FieldOf(old, field), new |-> new[field]]>>

\* Mutant: a change of confidence alone leaves no entry.
RelabelledByCategory(b, x, new) ==
  [b EXCEPT !.label[x] = new,
            !.audit = @ \o AuditOf(x, "category", b.label[x], new)]

Relabelled(b, x, new) ==
  [b EXCEPT !.label[x] = new,
            !.audit = @ \o AuditOf(x, "category", b.label[x], new)
                        \o AuditOf(x, "confidence", b.label[x], new)]

Flagged(b, x) == [b EXCEPT !.flags[x].open = TRUE]

\* A label for one transaction of the request.  It is refused when the transaction is not
\* known, or its row, the category or the confidence does not validate.
Classify(r) ==
  /\ At(r, "classify")
  /\ \E x \in calls[r].todo :
     LET rest == calls[r].todo \ {x}
         labelled == Relabelled(book, x, calls[r].label)
     IN \/ /\ x \in book.rows
           /\ book' = IF calls[r].label \in LowLabels THEN Flagged(labelled, x) ELSE labelled
           /\ Move(r, [calls[r] EXCEPT !.at = "event", !.tx = x, !.todo = rest])
        \/ Move(r, AfterFailure(r, rest)) /\ UNCHANGED book
  /\ UNCHANGED <<transport, phase, seen, history, journal, disk, acked, budget>>

\* Mutant: the event type is not normalized.
ClassifyEventUnchecked(r) ==
  /\ At(r, "event")
  /\ /\ history' = Appended(history, calls[r].kind, calls[r].tx)
     /\ Goto(r, "copySeen")
  /\ UNCHANGED <<transport, phase, seen, book, journal, disk, acked, budget>>

\* The lifecycle event of the label.  normalize_event_type knows no "bulk_mapping".
ClassifyEvent(r) ==
  /\ At(r, "event")
  /\ \/ /\ calls[r].kind \in EventTypes
        /\ history' = Appended(history, calls[r].kind, calls[r].tx)
        /\ Goto(r, "copySeen")
     \/ /\ calls[r].kind \notin EventTypes
        /\ Move(r, AfterFailure(r, calls[r].todo))
        /\ UNCHANGED history
  /\ UNCHANGED <<transport, phase, seen, book, journal, disk, acked, budget>>

\* classify_ingested: a rule labels every row and flags what needs review, and every value
\* it changes leaves an entry: row by row, the category of a row before its confidence.
Changes(b, rule) ==
  LET entry(x, field) == [tx |-> x, field |-> field, old |-> FieldOf(b.label[x], field),
                          new |-> rule.label[x][field]]
  IN {e \in {entry(x, field) : x \in b.rows, field \in Fields} : e.old # e.new}

Orders(entries) ==
  {s \in [1 .. Cardinality(entries) -> entries] :
     /\ {s[i] : i \in DOMAIN s} = entries
     /\ \A i, j \in DOMAIN s : i < j /\ s[i].tx = s[j].tx => j = i + 1 /\ s[i].field = "category"}

ByRule(b, rule, entries) ==
  [b EXCEPT !.label = [x \in Txs |-> IF x \in b.rows THEN rule.label[x] ELSE b.label[x]],
            !.audit = @ \o entries,
            !.flags = [x \in Txs |-> IF x \in b.rows \intersect rule.flagged
                                     THEN [b.flags[x] EXCEPT !.open = TRUE] ELSE b.flags[x]]]

\* No lifecycle event is written.  A rule that fails on some row has flagged rows before it,
\* labels nothing, and what it flagged is not saved.
ClassifyByRule(r) ==
  /\ At(r, "rule")
  /\ \/ /\ \E entries \in Orders(Changes(book, calls[r].rule)) :
             book' = ByRule(book, calls[r].rule, entries)
        /\ Goto(r, "copySeen")
     \/ \E before \in SUBSET (book.rows \intersect calls[r].rule.flagged) :
          /\ book.rows # {}
          /\ book' = [book EXCEPT !.flags = [x \in Txs |->
                        IF x \in before THEN [@[x] EXCEPT !.open = TRUE] ELSE @[x]]]
          /\ Move(r, Idle)
  /\ UNCHANGED <<transport, phase, seen, history, journal, disk, acked, budget>>

\* bulk_resolve_flags answers without saving.
Resolve(r) ==
  /\ At(r, "resolve")
  /\ book' = [book EXCEPT !.flags = [x \in Txs |->
                IF x \in calls[r].todo /\ @[x].open
                THEN [open |-> FALSE, resolved |-> @[x].resolved + 1] ELSE @[x]]]
  /\ Move(r, Idle)
  /\ UNCHANGED <<transport, phase, seen, history, journal, disk, acked, budget>>

(***************************************************************************)
(* persist_state: the three locks one after the other, then the temporary  *)
(* file and the rename.                                                    *)
(***************************************************************************)
CopySeen(r) ==
  /\ At(r, "copySeen")
  /\ Move(r, [calls[r] EXCEPT !.at = "copyBook", !.copy.seen = seen])
  /\ UNCHANGED <<transport, phase, memory, journal, disk, acked, budget>>

CopyBook(r) ==
  /\ At(r, "copyBook")
  /\ Move(r, [calls[r] EXCEPT !.at = "copyHistory", !.copy.book = book])
  /\ UNCHANGED <<transport, phase, memory, journal, disk, acked, budget>>

CopyHistory(r) ==
  /\ At(r, "copyHistory")
  /\ Move(r, [calls[r] EXCEPT !.at = "open", !.copy.history = history])
  /\ UNCHANGED <<transport, phase, memory, journal, disk, acked, budget>>

Free == {f \in Files : f \notin {tmpName, sideName} \union {calls[q].file : q \in Requests}}
\* Mutant: the sidecar itself is opened.
OpenTmpInPlace(r) ==
  /\ At(r, "open")
  /\ \E f \in IF sideName = None THEN Free ELSE {sideName} :
     /\ tmpName' = f
     /\ files' = [files EXCEPT ![f] = Blank]
     /\ Move(r, [calls[r] EXCEPT !.at = "write", !.file = f])
  /\ UNCHANGED <<transport, phase, memory, journal, sideName, acked, budget>>

\* fs::write opens the temporary file: it is created, or truncated if it is there.
OpenTmp(r) ==
  /\ At(r, "open")
  /\ \E f \in IF tmpName = None THEN Free ELSE {tmpName} :
     /\ tmpName' = f
     /\ files' = [files EXCEPT ![f] = Blank]
     /\ Move(r, [calls[r] EXCEPT !.at = "write", !.file = f])
  /\ UNCHANGED <<transport, phase, memory, journal, sideName, acked, budget>>

\* Mutant: a failed write goes on to the rename.
WriteTmpIgnoringErrors(r) ==
  /\ At(r, "write")
  /\ LET f == calls[r].file IN
     \/ /\ \E content \in {Full(calls[r].copy)} \union IF files[f] = Blank THEN {} ELSE {Torn} :
             files' = [files EXCEPT ![f] = content]
        /\ Move(r, [calls[r] EXCEPT !.at = "rename", !.file = None])
        /\ UNCHANGED budget
     \/ /\ files' = [files EXCEPT ![f] = Torn]
        /\ Move(r, [calls[r] EXCEPT !.at = "rename", !.file = None]) /\ Fault
  /\ UNCHANGED <<transport, phase, memory, journal, tmpName, sideName, acked>>

\* Its bytes are written from offset 0 of the inode that was opened.  Over what another
\* request wrote there a shorter text leaves a tail.  A failed write leaves a part.
WriteTmp(r) ==
  /\ At(r, "write")
  /\ LET f == calls[r].file IN
     \/ /\ \E content \in {Full(calls[r].copy)} \union IF files[f] = Blank THEN {} ELSE {Torn} :
             files' = [files EXCEPT ![f] = content]
        /\ Move(r, [calls[r] EXCEPT !.at = "rename", !.file = None])
        /\ UNCHANGED budget
     \/ /\ files' = [files EXCEPT ![f] = Torn]
        /\ Move(r, AfterFailure(r, calls[r].todo)) /\ Fault
  /\ UNCHANGED <<transport, phase, memory, journal, tmpName, sideName, acked>>

\* The rename takes whatever bears the temporary name, and fails if nothing does.
RenameTmp(r) ==
  /\ At(r, "rename")
  /\ \/ /\ tmpName # None
        /\ sideName' = tmpName /\ tmpName' = None
        /\ acked' = Memory
        /\ Move(r, IF calls[r].kind = "classification" /\ calls[r].todo # {}
                   THEN [calls[r] EXCEPT !.at = "classify"] ELSE Idle)
     \/ /\ tmpName = None
        /\ Move(r, AfterFailure(r, calls[r].todo))
        /\ UNCHANGED <<tmpName, sideName, acked>>
  /\ UNCHANGED <<transport, phase, memory, journal, files, budget>>

\* The directory cannot be made or the temporary file not opened, or the rename is refused:
\* the save fails and no name or content has changed.
SaveRefused(r) ==
  /\ At(r, "open") \/ At(r, "rename")
  /\ Move(r, AfterFailure(r, calls[r].todo)) /\ Fault
  /\ UNCHANGED <<transport, phase, memory, journal, disk, acked>>

(***************************************************************************)
(* The process stops anywhere, and starts from the sidecar.                *)
(***************************************************************************)
Crash ==
  /\ phase = "up" /\ budget.crashes < MaxCrashes
  /\ phase' = "down"
  /\ calls' = [r \in Requests |-> Idle]
  /\ seen' = {} /\ book' = NewBook /\ history' = NewHistory
  /\ budget' = [budget EXCEPT !.crashes = @ + 1]
  /\ UNCHANGED <<transport, journal, disk, acked>>

\* Mutant: the ingested ids are not taken from the sidecar.
RestartWithoutIds ==
  /\ phase = "down"
  /\ LET saved == IF sideName = None THEN Full(NewState) ELSE files[sideName] IN
     \/ /\ saved.kind = "whole"
        /\ phase' = "up"
        /\ seen' = {} /\ book' = saved.state.book /\ history' = saved.state.history
     \/ /\ saved.kind # "whole"
        /\ phase' = "refused"
        /\ UNCHANGED memory
  /\ UNCHANGED <<transport, journal, disk, calls, acked, budget>>

\* Mutant: the next sequence number is not saved.
RestartRenumbering ==
  /\ phase = "down"
  /\ LET saved == IF sideName = None THEN Full(NewState) ELSE files[sideName] IN
     \/ /\ saved.kind = "whole"
        /\ phase' = "up"
        /\ seen' = saved.state.seen /\ book' = saved.state.book /\ history' = [saved.state.history EXCEPT !.last = 0]
     \/ /\ saved.kind # "whole"
        /\ phase' = "refused"
        /\ UNCHANGED memory
  /\ UNCHANGED <<transport, journal, disk, calls, acked, budget>>

\* from_manifest_str: a sidecar that does not parse is an error, and nothing is served.
Restart ==
  /\ phase = "down"
  /\ LET saved == IF sideName = None THEN Full(NewState) ELSE files[sideName] IN
     \/ /\ saved.kind = "whole"
        /\ phase' = "up"
        /\ seen' = saved.state.seen /\ book' = saved.state.book /\ history' = saved.state.history
     \/ /\ saved.kind # "whole"
        /\ phase' = "refused"
        /\ UNCHANGED memory
  /\ UNCHANGED <<transport, journal, disk, calls, acked, budget>>

Request(r) ==
  \/ Start(r) \/ IngestRows(r) \/ IngestBook(r) \/ IngestEvent(r)
  \/ Classify(r) \/ ClassifyEvent(r) \/ ClassifyByRule(r) \/ Resolve(r)
  \/ CopySeen(r) \/ CopyBook(r) \/ CopyHistory(r)
  \/ OpenTmp(r) \/ WriteTmp(r) \/ RenameTmp(r) \/ SaveRefused(r)

Next == (\E r \in Requests : Request(r)) \/ Crash \/ Restart
Spec == Init /\ [][Next]_vars
==============================================================================
