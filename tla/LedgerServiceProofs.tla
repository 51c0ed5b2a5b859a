-------------------------- MODULE LedgerServiceProofs --------------------------
(***************************************************************************)
(* For any number of concurrent requests, of crashes and of I/O errors:    *)
(* the lifecycle events stay gapless in memory and in every saved file,    *)
(* the journal takes a transaction at most once in the life of a process,  *)
(* every variable keeps its type and the audit log of every book tells how *)
(* each label came to be.  While requests come one by one, the sidecar can *)
(* always be read and holds whatever a successful request left.            *)
(***************************************************************************)
EXTENDS LedgerServiceProperties, FiniteSetTheorems, TLAPS

\* What a history read back or copied must be: a sequence of events, numbered by position.
Sound(h) ==
  /\ h.events \in Seq(Event) /\ h.last \in Nat
  /\ Gapless(h)

\* One event more, numbered by what the store counted, keeps a history sound.
LEMMA AppendedSound ==
  ASSUME NEW h, Sound(h), NEW type \in EventTypes, NEW x \in Txs
  PROVE  Sound(Appended(h, type, x))
<1> DEFINE e == [sequence |-> h.last + 1, type |-> type, tx |-> x]
<1> DEFINE n == Append(h.events, e)
<1>1. e \in Event
  BY DEF Sound, Event
<1>2. Appended(h, type, x).events = n /\ Appended(h, type, x).last = h.last + 1
  BY DEF Appended
<1>3. n \in Seq(Event) /\ Len(n) = Len(h.events) + 1
  BY <1>1 DEF Sound
<1>4. \A i \in DOMAIN n : n[i].sequence = i
  <2> SUFFICES ASSUME NEW i \in 1..Len(n) PROVE n[i].sequence = i
    BY <1>3
  <2>1. CASE i \in 1..Len(h.events)
    BY <2>1, <1>1 DEF Sound, Gapless
  <2>2. CASE i = Len(h.events) + 1
    BY <2>2, <1>1 DEF Sound, Gapless
  <2> QED BY <2>1, <2>2, <1>3 DEF Sound
<1> QED BY <1>2, <1>3, <1>4 DEF Sound, Gapless

\* What a request carries.
Ready(c) ==
  /\ DOMAIN c = DOMAIN Idle
  /\ DOMAIN c.copy = {"seen", "book", "history"}
  /\ c.todo \subseteq Txs
  /\ c.at = "event" => c.tx \in Txs
  /\ Sound(c.copy.history)

CallsReady ==
  /\ calls = [r \in Requests |-> calls[r]]
  /\ \A r \in Requests : Ready(calls[r])

FilesSound ==
  /\ files = [f \in Files |-> files[f]]
  /\ \A f \in Files : Whole(files[f]) => Sound(files[f].state.history)

\* Every history there is: in memory, on its way to a file, and in the files.
HistoryInv ==
  /\ Sound(history) /\ CallsReady /\ FilesSound
  /\ tmpName \in Maybe(Files) /\ sideName \in Maybe(Files)

LEMMA NewHistorySound == Sound(NewHistory)
BY DEF NewHistory, Sound, Gapless

LEMMA IdleReady == Ready(Idle)
BY NewHistorySound DEF Idle, Ready, NewState

\* A step that moves one request leaves the others as they were.
LEMMA MoveReady ==
  ASSUME CallsReady, NEW r \in Requests, NEW c, Ready(c), Move(r, c)
  PROVE  CallsReady'
<1>1. calls' = [q \in Requests |-> IF q = r THEN c ELSE calls[q]]
  BY Zenon DEF CallsReady, Move
<1>2. \A q \in Requests : calls'[q] = IF q = r THEN c ELSE calls[q]
  BY <1>1, Zenon
<1>3. calls' = [q \in Requests |-> calls'[q]]
  BY <1>1, <1>2, Zenon
<1>4. \A q \in Requests : Ready(calls[q]) /\ (q = r => Ready(c))
  BY DEF CallsReady
<1>5. \A q \in Requests : Ready(calls'[q])
  BY <1>2, <1>4, Zenon
<1> QED BY <1>3, <1>5, Zenon DEF CallsReady, Ready

\* A request that goes elsewhere, takes fewer transactions or another file stays ready.
LEMMA FieldsReady ==
  ASSUME NEW c, Ready(c)
  PROVE  /\ \A p \in Points \ {"event"} : Ready([c EXCEPT !.at = p])
         /\ \A rest \in SUBSET Txs : Ready([c EXCEPT !.todo = rest])
         /\ \A f : Ready([c EXCEPT !.file = f])
         /\ \A i : Ready([c EXCEPT !.inserted = i])
         /\ \A x \in Txs : Ready([c EXCEPT !.tx = x])
         /\ \A kind : Ready([c EXCEPT !.kind = kind])
         /\ \A label : Ready([c EXCEPT !.label = label])
         /\ \A strict : Ready([c EXCEPT !.strict = strict])
         /\ \A rule : Ready([c EXCEPT !.rule = rule])
BY DEF Ready, Points, Idle

LEMMA AfterFailureReady ==
  ASSUME CallsReady, NEW r \in Requests, NEW rest \in SUBSET Txs
  PROVE  Ready(AfterFailure(r, rest))
<1>1. Ready(calls[r])
  BY DEF CallsReady
<1>2. Ready([calls[r] EXCEPT !.at = "classify", !.todo = rest, !.file = None])
  BY <1>1 DEF Ready, Idle
<1> QED BY <1>2, IdleReady DEF AfterFailure

\* Whatever a request starts with is a set of transactions.
LEMMA StartReady ==
  ASSUME CallsReady, NEW r \in Requests, Start(r)
  PROVE  CallsReady'
<1>1. ASSUME NEW kind, NEW rows \in SUBSET Txs, NEW label, NEW strict
      PROVE  Ready([Idle EXCEPT !.at = "classify", !.kind = kind, !.todo = rows,
                                !.label = label, !.strict = strict])
  <2>1. Ready([Idle EXCEPT !.at = "classify"])
    BY IdleReady, FieldsReady DEF Points
  <2>2. Ready([Idle EXCEPT !.at = "classify", !.kind = kind])
    BY <2>1, FieldsReady
  <2>3. Ready([Idle EXCEPT !.at = "classify", !.kind = kind, !.todo = rows])
    BY <2>2, FieldsReady
  <2>4. Ready([Idle EXCEPT !.at = "classify", !.kind = kind, !.todo = rows, !.label = label])
    BY <2>3, FieldsReady
  <2> QED BY <2>4, FieldsReady
<1>2. \A rows \in SUBSET Txs :
        /\ Ready([Idle EXCEPT !.at = "ingest", !.kind = "ingest", !.todo = rows])
        /\ Ready([Idle EXCEPT !.at = "resolve", !.kind = "resolve", !.todo = rows])
  BY IdleReady DEF Ready, Idle
<1>3. \A rule : Ready([Idle EXCEPT !.at = "rule", !.kind = "rule", !.rule = rule])
  BY IdleReady DEF Ready, Idle
<1>4. \E c : Ready(c) /\ Move(r, c)
  BY <1>1, <1>2, <1>3 DEF Start
<1> QED BY <1>4, MoveReady

\* A request that only moves on.
LEMMA GotoReady ==
  ASSUME CallsReady, NEW r \in Requests, NEW point \in Points \ {"event"}, Goto(r, point)
  PROVE  CallsReady'
<1>1. Ready([calls[r] EXCEPT !.at = point])
  BY FieldsReady DEF CallsReady
<1> QED BY <1>1, MoveReady DEF Goto

LEMMA InitHistory == Init => HistoryInv
<1> SUFFICES ASSUME Init PROVE HistoryInv
  OBVIOUS
<1>1. CallsReady
  BY IdleReady DEF Init, CallsReady
<1>2. FilesSound
  BY DEF Init, FilesSound, Whole, Blank
<1> QED BY <1>1, <1>2, NewHistorySound DEF Init, HistoryInv, Maybe

LEMMA StepHistory ==
  ASSUME HistoryInv, NEW r \in Requests, Request(r)
  PROVE  HistoryInv'
<1>0. /\ CallsReady /\ FilesSound /\ Sound(history) /\ Ready(calls[r])
      /\ tmpName \in Maybe(Files) /\ sideName \in Maybe(Files)
  BY DEF HistoryInv, CallsReady
<1>1. ASSUME CallsReady', UNCHANGED <<history, disk>>
      PROVE  HistoryInv'
  BY <1>0, <1>1 DEF HistoryInv, FilesSound, Sound, Gapless, disk
<1>2. CASE Start(r)
  <2>1. UNCHANGED <<history, disk>>
    BY <1>2 DEF Start, memory
  <2> QED BY <2>1, <1>0, <1>1, <1>2, StartReady
<1>3. CASE IngestRows(r)
  <2>1. UNCHANGED <<history, disk>>
    BY <1>3 DEF IngestRows
  <2>2. Ready([calls[r] EXCEPT !.at = "rows", !.inserted = calls[r].todo \ seen])
    BY <1>0, FieldsReady DEF Points
  <2>3. CallsReady'
    BY <1>0, <1>3, <2>2, IdleReady, MoveReady DEF IngestRows
  <2> QED BY <2>1, <2>3, <1>1
<1>4. CASE IngestBook(r)
  <2>1. UNCHANGED <<history, disk>>
    BY <1>4 DEF IngestBook
  <2>2. CallsReady'
    BY <1>0, <1>4, IdleReady, MoveReady, GotoReady DEF IngestBook, Points
  <2> QED BY <2>1, <2>2, <1>1
<1>5. CASE IngestEvent(r)
  <2>1. PICK x \in calls[r].todo :
          /\ history' = Appended(history, "ingest", x)
          /\ Move(r, [calls[r] EXCEPT !.todo = calls[r].todo \ {x},
                       !.at = IF calls[r].todo \ {x} = {} THEN "copySeen" ELSE "ingestEvents"])
    BY <1>5 DEF IngestEvent
  <2>2. Sound(history')
    BY <1>0, <2>1, AppendedSound DEF Ready, EventTypes
  <2>3. calls[r].todo \ {x} \in SUBSET Txs
    BY <1>0 DEF Ready
  <2>4. Ready([calls[r] EXCEPT !.todo = calls[r].todo \ {x},
                       !.at = IF calls[r].todo \ {x} = {} THEN "copySeen" ELSE "ingestEvents"])
    BY <1>0, <2>3, FieldsReady DEF Points
  <2>5. CallsReady' /\ UNCHANGED disk
    BY <1>0, <1>5, <2>1, <2>4, MoveReady DEF IngestEvent
  <2> QED BY <1>0, <2>2, <2>5 DEF HistoryInv, FilesSound, Sound, Gapless, disk
<1>6. CASE Classify(r)
  <2>1. UNCHANGED <<history, disk>>
    BY <1>6 DEF Classify
  <2>2. PICK x \in calls[r].todo :
          \/ Move(r, [calls[r] EXCEPT !.at = "event", !.tx = x, !.todo = calls[r].todo \ {x}])
          \/ Move(r, AfterFailure(r, calls[r].todo \ {x}))
    BY <1>6 DEF Classify
  <2>3. x \in Txs /\ calls[r].todo \ {x} \in SUBSET Txs
    BY <1>0 DEF Ready
  <2>4. Ready([calls[r] EXCEPT !.at = "event", !.tx = x, !.todo = calls[r].todo \ {x}])
    BY <1>0, <2>3 DEF Ready, Idle
  <2>5. CallsReady'
    BY <1>0, <2>2, <2>3, <2>4, AfterFailureReady, MoveReady
  <2> QED BY <2>1, <2>5, <1>1
<1>7. CASE ClassifyEvent(r)
  <2>1. calls[r].tx \in Txs /\ calls[r].todo \in SUBSET Txs /\ UNCHANGED disk
    BY <1>0, <1>7 DEF Ready, ClassifyEvent, At
  <2>2. CallsReady'
    BY <1>0, <1>7, <2>1, AfterFailureReady, MoveReady, GotoReady DEF ClassifyEvent, Points
  <2>3. Sound(history')
    BY <1>0, <1>7, <2>1, AppendedSound DEF ClassifyEvent
  <2> QED BY <1>0, <2>1, <2>2, <2>3 DEF HistoryInv, FilesSound, Sound, Gapless, disk
<1>8. CASE ClassifyByRule(r)
  <2>1. UNCHANGED <<history, disk>>
    BY <1>8 DEF ClassifyByRule
  <2>2. CallsReady'
    BY <1>0, <1>8, IdleReady, MoveReady, GotoReady DEF ClassifyByRule, Points
  <2> QED BY <2>1, <2>2, <1>1
<1>9. CASE Resolve(r)
  <2>1. CallsReady' /\ UNCHANGED <<history, disk>>
    BY <1>0, <1>9, IdleReady, MoveReady DEF Resolve
  <2> QED BY <2>1, <1>1
<1>10. CASE CopySeen(r)
  <2>1. Ready([calls[r] EXCEPT !.at = "copyBook", !.copy.seen = seen])
    BY <1>0 DEF Ready, Idle
  <2>2. CallsReady' /\ UNCHANGED <<history, disk>>
    BY <1>0, <1>10, <2>1, MoveReady DEF CopySeen, memory
  <2> QED BY <2>2, <1>1
<1>11. CASE CopyBook(r)
  <2>1. Ready([calls[r] EXCEPT !.at = "copyHistory", !.copy.book = book])
    BY <1>0 DEF Ready, Idle
  <2>2. CallsReady' /\ UNCHANGED <<history, disk>>
    BY <1>0, <1>11, <2>1, MoveReady DEF CopyBook, memory
  <2> QED BY <2>2, <1>1
<1>12. CASE CopyHistory(r)
  <2>1. Ready([calls[r] EXCEPT !.at = "open", !.copy.history = history])
    BY <1>0 DEF Ready, Idle
  <2>2. CallsReady' /\ UNCHANGED <<history, disk>>
    BY <1>0, <1>12, <2>1, MoveReady DEF CopyHistory, memory
  <2> QED BY <2>2, <1>1
<1>13. CASE OpenTmp(r)
  <2>1. PICK f \in Files : /\ tmpName' = f /\ files' = [files EXCEPT ![f] = Blank]
                           /\ Move(r, [calls[r] EXCEPT !.at = "write", !.file = f])
    BY <1>0, <1>13 DEF OpenTmp, Free, Maybe
  <2>2. Ready([calls[r] EXCEPT !.at = "write", !.file = f])
    BY <1>0, FieldsReady DEF Points
  <2>3. CallsReady' /\ UNCHANGED <<history, sideName>>
    BY <1>0, <1>13, <2>1, <2>2, MoveReady DEF OpenTmp, memory
  <2>4. FilesSound'
    BY <1>0, <2>1 DEF FilesSound, Whole, Blank, Sound, Gapless
  <2> QED BY <1>0, <2>1, <2>3, <2>4 DEF HistoryInv, Sound, Gapless, Maybe
<1>14. CASE WriteTmp(r)
  <2>1. PICK content \in {Full(calls[r].copy), Torn} :
          files' = [files EXCEPT ![calls[r].file] = content]
    BY <1>14 DEF WriteTmp
  <2>2. Whole(content) => Sound(content.state.history)
    BY <1>0, <2>1 DEF Ready, Whole, Full, Torn
  <2>3. FilesSound'
    BY <1>0, <2>1, <2>2 DEF FilesSound, Whole, Blank, Sound, Gapless
  <2>4. Ready([calls[r] EXCEPT !.at = "rename", !.file = None])
    BY <1>0, FieldsReady DEF Points
  <2>5. calls[r].todo \in SUBSET Txs
    BY <1>0 DEF Ready
  <2>6. CallsReady' /\ UNCHANGED <<history, tmpName, sideName>>
    BY <1>0, <1>14, <2>4, <2>5, AfterFailureReady, MoveReady DEF WriteTmp, memory
  <2> QED BY <1>0, <2>3, <2>6 DEF HistoryInv, Sound, Gapless
<1>15. CASE RenameTmp(r)
  <2>1. Ready([calls[r] EXCEPT !.at = "classify"]) /\ calls[r].todo \in SUBSET Txs
    BY <1>0, FieldsReady DEF Points, Ready
  <2>2. CallsReady' /\ UNCHANGED <<history, files>>
    BY <1>0, <1>15, <2>1, IdleReady, AfterFailureReady, MoveReady DEF RenameTmp, memory
  <2>3. tmpName' \in Maybe(Files) /\ sideName' \in Maybe(Files)
    BY <1>0, <1>15 DEF RenameTmp, Maybe
  <2> QED BY <1>0, <2>2, <2>3 DEF HistoryInv, FilesSound, Sound, Gapless
<1>16. CASE SaveRefused(r)
  <2>1. calls[r].todo \in SUBSET Txs
    BY <1>0 DEF Ready
  <2>2. CallsReady' /\ UNCHANGED <<history, disk>>
    BY <1>0, <1>16, <2>1, AfterFailureReady, MoveReady DEF SaveRefused, memory
  <2> QED BY <2>2, <1>1
<1> QED BY <1>2, <1>3, <1>4, <1>5, <1>6, <1>7, <1>8, <1>9, <1>10, <1>11, <1>12, <1>13, <1>14, <1>15,
           <1>16 DEF Request

LEMMA NextHistory == HistoryInv /\ [Next]_vars => HistoryInv'
<1> SUFFICES ASSUME HistoryInv, [Next]_vars PROVE HistoryInv'
  OBVIOUS
<1>1. ASSUME NEW r \in Requests, Request(r) PROVE HistoryInv'
  BY <1>1, StepHistory
<1>2. CASE Crash
  <2>1. calls' = [r \in Requests |-> Idle] /\ history' = NewHistory /\ UNCHANGED disk
    BY <1>2 DEF Crash
  <2>2. CallsReady'
    BY <2>1, IdleReady DEF CallsReady, Ready
  <2> QED BY <2>1, <2>2, NewHistorySound DEF HistoryInv, FilesSound, Sound, Gapless, disk
<1>3. CASE Restart
  <2>1. Sound(history')
    <3>1. CASE sideName = None
      BY <1>3, <3>1, NewHistorySound DEF Restart, NewState, Full, HistoryInv, memory
    <3>2. CASE sideName # None
      <4>1. sideName \in Files
        BY <3>2 DEF HistoryInv, Maybe
      <4>2. Whole(files[sideName]) => Sound(files[sideName].state.history)
        BY <4>1 DEF HistoryInv, FilesSound
      <4> QED BY <1>3, <3>2, <4>2 DEF Restart, HistoryInv, Whole, memory
    <3> QED BY <3>1, <3>2
  <2>2. UNCHANGED <<calls, disk>>
    BY <1>3 DEF Restart
  <2> QED BY <2>1, <2>2 DEF HistoryInv, CallsReady, Ready, FilesSound, Sound, Gapless, disk
<1>4. CASE UNCHANGED vars
  BY <1>4 DEF vars, memory, disk, HistoryInv, CallsReady, Ready, FilesSound, Sound, Gapless
<1> QED BY <1>1, <1>2, <1>3, <1>4 DEF Next

\* Lifecycle events carry their positions as sequence numbers, in memory and in every file
\* that a start may read (append_event, persist_state, from_manifest_str).
THEOREM HistoryGapless == Spec => []EventsGapless
<1>1. HistoryInv => EventsGapless
  BY DEF HistoryInv, EventsGapless, Histories, FilesSound, Sound
<1> QED BY <1>1, InitHistory, NextHistory, PTL DEF Spec
-----------------------------------------------------------------------------
\* A transaction that is not in memory was appended by earlier processes only.
JournalInv ==
  /\ journal \in [Txs -> Nat]
  /\ budget.crashes \in Nat /\ DOMAIN budget = {"calls", "crashes", "faults"}
  /\ \A x \in Txs : journal[x] <= budget.crashes + IF phase = "up" /\ x \in seen THEN 1 ELSE 0

\* Only a crash changes the number of crashes.
LEMMA FaultJournal ==
  ASSUME JournalInv, Fault
  PROVE  DOMAIN budget' = DOMAIN budget /\ budget'.crashes = budget.crashes
BY DEF JournalInv, Fault

LEMMA StepJournal ==
  ASSUME JournalInv, NEW r \in Requests, Request(r)
  PROVE  JournalInv'
<1>1. CASE IngestRows(r)
  <2>1. phase = "up" /\ phase' = "up"
    BY <1>1 DEF IngestRows, At
  <2>2. DOMAIN budget' = DOMAIN budget /\ budget'.crashes = budget.crashes
    BY <1>1, FaultJournal DEF IngestRows
  <2>3. PICK appended \in SUBSET (calls[r].todo \ seen) :
          journal' = [x \in Txs |-> journal[x] + IF x \in appended THEN 1 ELSE 0]
    BY <1>1 DEF IngestRows
  <2>4. seen' = seen \union (calls[r].todo \ seen)
    BY <1>1 DEF IngestRows
  <2>5. \A x \in Txs : x \in appended => x \notin seen /\ x \in seen'
    BY <2>3, <2>4
  <2>6. journal' \in [Txs -> Nat]
    BY <2>3 DEF JournalInv
  <2>7. \A x \in Txs : journal'[x] <= budget.crashes + IF x \in seen' THEN 1 ELSE 0
    BY <2>1, <2>3, <2>4, <2>5 DEF JournalInv
  <2> QED BY <2>1, <2>2, <2>6, <2>7 DEF JournalInv
<1>2. CASE Start(r)
  <2>1. UNCHANGED <<phase, seen, journal>> /\ budget' = [budget EXCEPT !.calls = @ + 1]
    BY <1>2 DEF Start, memory
  <2>2. DOMAIN budget' = DOMAIN budget /\ budget'.crashes = budget.crashes
    BY <2>1 DEF JournalInv
  <2> QED BY <2>1, <2>2 DEF JournalInv
<1>3. CASE ~IngestRows(r) /\ ~Start(r)
  <2>1. UNCHANGED <<phase, seen, journal>>
    BY <1>3 DEF Request, IngestBook, IngestEvent, Classify, ClassifyEvent, ClassifyByRule, Resolve,
                CopySeen, CopyBook, CopyHistory, OpenTmp, WriteTmp, RenameTmp,
                SaveRefused, memory
  <2>2. UNCHANGED budget \/ Fault
    BY <1>3 DEF Request, IngestBook, IngestEvent, Classify, ClassifyEvent, ClassifyByRule, Resolve,
                CopySeen, CopyBook, CopyHistory, OpenTmp, WriteTmp, RenameTmp, SaveRefused
  <2>3. DOMAIN budget' = DOMAIN budget /\ budget'.crashes = budget.crashes
    BY <2>2, FaultJournal
  <2> QED BY <2>1, <2>3 DEF JournalInv
<1> QED BY <1>1, <1>2, <1>3

\* The journal takes a transaction once in the life of a process (ingest_to_journal under the
\* ingest lock): more than one entry needs a crash between them.
THEOREM JournalOncePerRun == Spec => []AppendedOncePerRun
<1>1. Init => JournalInv
  BY DEF Init, JournalInv
<1>2. ASSUME JournalInv, [Next]_vars PROVE JournalInv'
  <2>1. ASSUME NEW r \in Requests, Request(r) PROVE JournalInv'
    BY <1>2, <2>1, StepJournal
  <2>2. CASE Crash
    <3>1. phase = "up" /\ phase' = "down" /\ UNCHANGED journal
      BY <2>2 DEF Crash
    <3>2. DOMAIN budget' = DOMAIN budget /\ budget'.crashes = budget.crashes + 1
      BY <1>2, <2>2 DEF Crash, JournalInv
    <3>3. \A x \in Txs : journal[x] <= budget.crashes + 1
      BY <1>2 DEF JournalInv
    <3> QED BY <1>2, <3>1, <3>2, <3>3 DEF JournalInv
  <2>3. CASE Restart
    <3>1. phase = "down" /\ UNCHANGED <<journal, budget>>
      BY <2>3 DEF Restart
    <3>2. \A x \in Txs : journal[x] <= budget.crashes
      BY <1>2, <3>1 DEF JournalInv
    <3> QED BY <1>2, <3>1, <3>2 DEF JournalInv
  <2>4. CASE UNCHANGED vars
    BY <1>2, <2>4 DEF vars, memory, JournalInv
  <2> QED BY <1>2, <2>1, <2>2, <2>3, <2>4 DEF Next
<1>3. JournalInv => AppendedOncePerRun
  BY DEF JournalInv, AppendedOncePerRun
<1> QED BY <1>1, <1>2, <1>3, PTL DEF Spec
-----------------------------------------------------------------------------
\* What holds while stdio answers one request after the other: the temporary file is never
\* the sidecar, and the one request that writes it finds it as it left it.
Serial ==
  /\ \A q, r \in Requests : calls[q].at # "idle" /\ calls[r].at # "idle" => q = r
  /\ phase # "refused"
  /\ sideName # None => files[sideName].kind = "whole"
  /\ tmpName # None => tmpName # sideName
  /\ \A r \in Requests :
       /\ calls[r].at = "write" =>
            calls[r].file = tmpName /\ tmpName # None /\ files[tmpName] = Blank
       /\ calls[r].at = "rename" => tmpName # None /\ files[tmpName].kind = "whole"

SerialInv == HistoryInv /\ (transport = "stdio" => Serial)

\* A step of the one busy request that touches no file, and does not lead into the writing.
LEMMA SerialMoved ==
  ASSUME HistoryInv, Serial, NEW r \in Requests, NEW c, Move(r, c), calls[r].at # "idle",
         c.at \notin {"write", "rename"}, UNCHANGED <<phase, disk>>
  PROVE  Serial'
<1>1. \A q \in Requests : calls'[q] = IF q = r THEN c ELSE calls[q]
  BY Zenon DEF HistoryInv, CallsReady, Move
<1>2. \A q \in Requests : q # r => calls[q].at = "idle"
  BY DEF Serial
<1>3. \A q \in Requests : q # r => calls'[q].at = "idle"
  BY <1>1, <1>2
<1>4. calls'[r].at \notin {"write", "rename"}
  BY <1>1
<1> QED BY <1>3, <1>4 DEF Serial, disk

LEMMA StepSerial ==
  ASSUME HistoryInv, Serial, transport = "stdio", NEW r \in Requests, Request(r)
  PROVE  Serial'
<1>0. /\ calls = [q \in Requests |-> calls[q]] /\ files = [f \in Files |-> files[f]]
      /\ \A q \in Requests : DOMAIN calls[q] = DOMAIN Idle
      /\ tmpName \in Maybe(Files) /\ sideName \in Maybe(Files) /\ None \notin Files
  BY LedgerAssumption DEF HistoryInv, CallsReady, FilesSound, Ready
<1>a. Idle.at = "idle" /\ \A rest : AfterFailure(r, rest).at \in {"idle", "classify"}
  BY <1>0 DEF AfterFailure, Idle
<1>1. CASE Start(r)
  <2>1. \A q \in Requests : calls[q].at = "idle"
    BY <1>1 DEF Start
  <2>2. PICK c : Move(r, c) /\ c.at \in {"ingest", "classify", "rule", "resolve"}
    <3>1. /\ \A rows : [Idle EXCEPT !.at = "ingest", !.kind = "ingest", !.todo = rows].at = "ingest"
          /\ \A rule : [Idle EXCEPT !.at = "rule", !.kind = "rule", !.rule = rule].at = "rule"
          /\ \A rows : [Idle EXCEPT !.at = "resolve", !.kind = "resolve",
                                    !.todo = rows].at = "resolve"
      BY DEF Idle
    <3>2. CASE \E rows \in SUBSET Txs, l \in Labels, strict \in BOOLEAN, kind \in Kinds :
                 Move(r, [Idle EXCEPT !.at = "classify", !.kind = kind, !.todo = rows,
                                      !.label = l, !.strict = strict])
      <4>1. PICK rows, l, strict, kind :
              Move(r, [Idle EXCEPT !.at = "classify", !.kind = kind, !.todo = rows,
                                   !.label = l, !.strict = strict])
        BY <3>2, Zenon
      <4> DEFINE c == [Idle EXCEPT !.at = "classify", !.kind = kind, !.todo = rows,
                                   !.label = l, !.strict = strict]
      <4>2. c.at = "classify"
        BY DEF Idle
      <4>3. Move(r, c)
        BY <4>1
      <4> HIDE DEF c
      <4> QED BY <4>2, <4>3
    <3>3. CASE \E rows \in SUBSET Txs, rule \in Rules \union {None} :
                 \/ Move(r, [Idle EXCEPT !.at = "ingest", !.kind = "ingest", !.todo = rows])
                 \/ Move(r, [Idle EXCEPT !.at = "resolve", !.kind = "resolve", !.todo = rows])
                 \/ Move(r, [Idle EXCEPT !.at = "rule", !.kind = "rule", !.rule = rule])
      BY <3>1, <3>3
    <3> QED BY <1>1, <3>2, <3>3 DEF Start, Kinds, EventTypes
  <2>3. \A q \in Requests : calls'[q] = IF q = r THEN c ELSE calls[q]
    BY <1>0, <2>2, Zenon DEF Move
  <2>4. UNCHANGED <<phase, disk>>
    BY <1>1 DEF Start
  <2> QED BY <2>1, <2>2, <2>3, <2>4 DEF Serial, disk
<1>2. CASE calls[r].at \notin {"idle", "open", "write", "rename"}
  <2>1. UNCHANGED <<phase, disk>>
    BY <1>2 DEF Request, Start, IngestRows, IngestBook, IngestEvent, Classify, ClassifyEvent,
                ClassifyByRule, Resolve, CopySeen, CopyBook, CopyHistory, OpenTmp, WriteTmp,
                RenameTmp, SaveRefused, At
  <2>2. \E c : Move(r, c) /\ c.at \notin {"write", "rename"}
    <3>1. CASE IngestRows(r)
      <4>1. [calls[r] EXCEPT !.at = "rows", !.inserted = calls[r].todo \ seen].at = "rows"
        BY <1>0 DEF Idle
      <4> QED BY <1>a, <3>1, <4>1 DEF IngestRows
    <3>2. CASE IngestBook(r)
      BY <1>0, <1>a, <3>2 DEF IngestBook, Goto, Idle
    <3>3. CASE IngestEvent(r)
      <4>1. \A x : [calls[r] EXCEPT !.todo = calls[r].todo \ {x},
                 !.at = IF calls[r].todo \ {x} = {} THEN "copySeen" ELSE "ingestEvents"].at
                   \in {"copySeen", "ingestEvents"}
        BY <1>0 DEF Idle
      <4> QED BY <3>3, <4>1 DEF IngestEvent
    <3>4. CASE Classify(r)
      <4>1. \A x : [calls[r] EXCEPT !.at = "event", !.tx = x,
                                    !.todo = calls[r].todo \ {x}].at = "event"
        BY <1>0 DEF Idle
      <4> QED BY <1>a, <3>4, <4>1 DEF Classify
    <3>5. CASE ClassifyEvent(r)
      BY <1>0, <1>a, <3>5 DEF ClassifyEvent, Goto, Idle
    <3>6. CASE ClassifyByRule(r)
      BY <1>0, <1>a, <3>6 DEF ClassifyByRule, Goto, Idle
    <3>7. CASE Resolve(r)
      BY <1>0, <1>a, <3>7 DEF Resolve
    <3>8. CASE CopySeen(r)
      <4>1. [calls[r] EXCEPT !.at = "copyBook", !.copy.seen = seen].at = "copyBook"
        BY <1>0 DEF Idle
      <4> QED BY <3>8, <4>1 DEF CopySeen
    <3>9. CASE CopyBook(r)
      <4>1. [calls[r] EXCEPT !.at = "copyHistory", !.copy.book = book].at = "copyHistory"
        BY <1>0 DEF Idle
      <4> QED BY <3>9, <4>1 DEF CopyBook
    <3>10. CASE CopyHistory(r)
      <4>1. [calls[r] EXCEPT !.at = "open", !.copy.history = history].at = "open"
        BY <1>0 DEF Idle
      <4> QED BY <3>10, <4>1 DEF CopyHistory
    <3> QED BY <1>2, <3>1, <3>2, <3>3, <3>4, <3>5, <3>6, <3>7, <3>8, <3>9, <3>10
            DEF Request, Start, OpenTmp, WriteTmp, RenameTmp, SaveRefused, At
  <2> QED BY <1>2, <2>1, <2>2, SerialMoved
<1>3. CASE OpenTmp(r)
  <2>1. calls[r].at = "open" /\ UNCHANGED <<phase, sideName>>
    BY <1>3 DEF OpenTmp, At
  <2>2. PICK f \in Files : /\ f # sideName
                           /\ tmpName' = f /\ files' = [files EXCEPT ![f] = Blank]
                           /\ Move(r, [calls[r] EXCEPT !.at = "write", !.file = f])
    <3>1. PICK f \in (IF tmpName = None THEN Free ELSE {tmpName}) :
            /\ tmpName' = f /\ files' = [files EXCEPT ![f] = Blank]
            /\ Move(r, [calls[r] EXCEPT !.at = "write", !.file = f])
      BY <1>3 DEF OpenTmp
    <3>2. f \in Files /\ f # sideName
      BY <1>0 DEF Free, Maybe, Serial
    <3> QED BY <3>1, <3>2
  <2>3. \A q \in Requests :
          calls'[q] = IF q = r THEN [calls[r] EXCEPT !.at = "write", !.file = f] ELSE calls[q]
    BY <1>0, <2>2, Zenon DEF Move
  <2>4. calls'[r].at = "write" /\ calls'[r].file = f
    BY <1>0, <2>3 DEF Idle
  <2>5. \A q \in Requests : q # r => calls'[q].at = "idle"
    BY <2>1, <2>3 DEF Serial
  <2>6. files'[f] = Blank /\ (sideName # None => files'[sideName] = files[sideName])
    BY <1>0, <2>2 DEF Maybe
  <2> QED BY <1>0, <2>1, <2>2, <2>4, <2>5, <2>6 DEF Serial
<1>4. CASE WriteTmp(r)
  <2>1. calls[r].at = "write" /\ UNCHANGED <<phase, tmpName, sideName>>
    BY <1>4 DEF WriteTmp, At
  <2>2. /\ calls[r].file = tmpName /\ tmpName \in Files /\ tmpName # sideName
        /\ files[tmpName] = Blank
    BY <1>0, <2>1 DEF Serial, Maybe
  <2>3. PICK c, content : /\ Move(r, c) /\ files' = [files EXCEPT ![tmpName] = content]
                          /\ \/ c.at = "rename" /\ content.kind = "whole"
                             \/ c.at \in {"idle", "classify"}
    <3>1. CASE /\ files' = [files EXCEPT ![tmpName] = Full(calls[r].copy)]
               /\ Move(r, [calls[r] EXCEPT !.at = "rename", !.file = None])
      <4>1. [calls[r] EXCEPT !.at = "rename", !.file = None].at = "rename"
        BY <1>0 DEF Idle
      <4>2. Full(calls[r].copy).kind = "whole"
        BY DEF Full
      <4> QED BY <3>1, <4>1, <4>2
    <3>2. CASE /\ files' = [files EXCEPT ![tmpName] = Torn]
               /\ Move(r, AfterFailure(r, calls[r].todo))
      BY <1>a, <3>2
    <3> QED BY <1>4, <2>2, <3>1, <3>2 DEF WriteTmp
  <2>4. \A q \in Requests : calls'[q] = IF q = r THEN c ELSE calls[q]
    BY <1>0, <2>3, Zenon DEF Move
  <2>5. \A q \in Requests : q # r => calls'[q].at = "idle"
    BY <2>1, <2>4 DEF Serial
  <2>6. files'[tmpName] = content /\ (sideName # None => files'[sideName] = files[sideName])
    BY <1>0, <2>2, <2>3 DEF Maybe
  <2>7. calls'[r] = c
    BY <2>4
  <2> QED BY <2>1, <2>2, <2>3, <2>5, <2>6, <2>7 DEF Serial
<1>5. CASE RenameTmp(r)
  <2>1. calls[r].at = "rename" /\ UNCHANGED <<phase, files>>
    BY <1>5 DEF RenameTmp, At
  <2>2. tmpName # None /\ files[tmpName].kind = "whole"
    BY <2>1 DEF Serial
  <2>3. PICK c : Move(r, c) /\ c.at \in {"idle", "classify"}
    BY <1>0, <1>5, <2>2 DEF RenameTmp, Idle
  <2>4. \A q \in Requests : calls'[q] = IF q = r THEN c ELSE calls[q]
    BY <1>0, <2>3, Zenon DEF Move
  <2>5. \A q \in Requests : q # r => calls'[q].at = "idle"
    BY <2>1, <2>4 DEF Serial
  <2>6. sideName' = tmpName /\ tmpName' = None
    BY <1>5, <2>2 DEF RenameTmp
  <2>7. calls'[r] = c
    BY <2>4
  <2> QED BY <2>1, <2>2, <2>3, <2>5, <2>6, <2>7 DEF Serial
<1>6. calls[r].at = "idle" => Start(r)
  BY DEF Request, IngestRows, IngestBook, IngestEvent, Classify, ClassifyEvent, ClassifyByRule,
         Resolve, CopySeen, CopyBook, CopyHistory, OpenTmp, WriteTmp, RenameTmp, SaveRefused, At
<1>7. calls[r].at = "open" => OpenTmp(r) \/ SaveRefused(r)
  BY DEF Request, Start, IngestRows, IngestBook, IngestEvent, Classify, ClassifyEvent,
         ClassifyByRule, Resolve, CopySeen, CopyBook, CopyHistory, WriteTmp, RenameTmp, At
<1>8. calls[r].at = "write" => WriteTmp(r)
  BY DEF Request, Start, IngestRows, IngestBook, IngestEvent, Classify, ClassifyEvent,
         ClassifyByRule, Resolve, CopySeen, CopyBook, CopyHistory, OpenTmp, RenameTmp,
         SaveRefused, At
<1>9. calls[r].at = "rename" => RenameTmp(r) \/ SaveRefused(r)
  BY DEF Request, Start, IngestRows, IngestBook, IngestEvent, Classify, ClassifyEvent,
         ClassifyByRule, Resolve, CopySeen, CopyBook, CopyHistory, OpenTmp, WriteTmp, At
<1>10. CASE SaveRefused(r)
  <2>1. UNCHANGED <<phase, disk>> /\ calls[r].at # "idle"
    BY <1>10 DEF SaveRefused, At
  <2>2. \E c : Move(r, c) /\ c.at \notin {"write", "rename"}
    BY <1>a, <1>10 DEF SaveRefused
  <2> QED BY <2>1, <2>2, SerialMoved
<1> QED BY <1>1, <1>2, <1>3, <1>4, <1>5, <1>6, <1>7, <1>8, <1>9, <1>10

LEMMA InitSerial == Init => SerialInv
BY InitHistory DEF Init, SerialInv, Serial, Idle

LEMMA NextSerial == SerialInv /\ [Next]_vars => SerialInv'
<1> SUFFICES ASSUME SerialInv, [Next]_vars PROVE SerialInv'
  OBVIOUS
<1>1. HistoryInv' /\ HistoryInv
  BY NextHistory DEF SerialInv
<1>2. ASSUME transport' = "stdio" PROVE Serial'
  <2>1. transport = "stdio"
    BY <1>2 DEF Next, Request, Start, IngestRows, IngestBook, IngestEvent, Classify,
          ClassifyEvent, ClassifyByRule, Resolve, CopySeen, CopyBook, CopyHistory, OpenTmp,
          WriteTmp, RenameTmp, SaveRefused, Crash, Restart, vars
  <2>2. Serial
    BY <2>1 DEF SerialInv
  <2>3. ASSUME NEW r \in Requests, Request(r) PROVE Serial'
    BY <1>1, <2>1, <2>2, <2>3, StepSerial
  <2>4. CASE Crash
    <3>1. \A r \in Requests : calls'[r].at = "idle"
      BY <2>4 DEF Crash, Idle
    <3>2. phase' = "down" /\ UNCHANGED disk
      BY <2>4 DEF Crash
    <3> QED BY <2>2, <3>1, <3>2 DEF Serial, disk
  <2>5. CASE Restart
    <3>1. phase' = "up" /\ UNCHANGED <<calls, disk>>
      BY <2>2, <2>5 DEF Restart, Serial, Full
    <3> QED BY <2>2, <3>1 DEF Serial, disk
  <2>6. CASE UNCHANGED vars
    BY <2>2, <2>6 DEF Serial, vars, disk
  <2> QED BY <2>3, <2>4, <2>5, <2>6 DEF Next
<1> QED BY <1>1, <1>2 DEF SerialInv

\* While requests come one by one, no crash and no I/O error leaves a sidecar that a start
\* cannot read (persist_state_to_path, load_persisted_state).
THEOREM SerialSidecarReadable == Spec => []SidecarReadable
<1>1. SerialInv => SidecarReadable
  BY DEF SerialInv, Serial, SidecarReadable, Saved, Whole, Full
<1> QED BY <1>1, InitSerial, NextSerial, PTL DEF Spec
-----------------------------------------------------------------------------
(* Types.                                                                  *)

\* What a request that labels, or may go on labelling, carries.
Carries(c) ==
  /\ c.at \in {"classify", "event"} => c.label \in Labels
  /\ c.at = "event" => c.tx \in Txs
  /\ c.at \in {"copySeen", "copyBook", "copyHistory", "open", "write", "rename"} =>
       c.label \in Labels \/ c.todo = {}
  /\ c.at = "rule" => c.rule \in Rules /\ c.todo = {}
  /\ c.at = "rename" /\ c.kind = "classification" => c.label \in Labels \/ c.todo = {}

TypedCalls == calls \in [Requests -> Call] /\ \A r \in Requests : Carries(calls[r])

TypeInv == LedgerTypeOK /\ TypedCalls

LEMMA NewStateTyped == NewState \in State /\ NewBook \in Book /\ NewHistory \in History
<1>1. NewHistory \in History
  BY DEF NewHistory, History
<1>2. NewBook \in Book
  BY DEF NewBook, Book, Maybe
<1> QED BY <1>1, <1>2 DEF NewState, State

LEMMA ContentsTyped ==
  /\ Blank \in Content /\ Torn \in Content
  /\ \A state \in State : Full(state) \in Content
BY NewStateTyped DEF Blank, Torn, Full, Content

LEMMA IdleTyped == Idle \in Call /\ Carries(Idle)
<1>1. Idle \in Call
  BY NewStateTyped DEF Idle, Call, Points, Kinds, EventTypes, Maybe
<1> QED BY <1>1 DEF Idle, Carries

\* The fields of a request change within their types.
LEMMA FieldsTyped ==
  ASSUME NEW c \in Call
  PROVE  /\ \A p \in Points : [c EXCEPT !.at = p] \in Call
         /\ \A rest \in SUBSET Txs : [c EXCEPT !.todo = rest] \in Call
         /\ \A rest \in SUBSET Txs, p \in Points : [c EXCEPT !.todo = rest, !.at = p] \in Call
         /\ \A x \in Txs, rest \in SUBSET Txs :
              [c EXCEPT !.at = "event", !.tx = x, !.todo = rest] \in Call
         /\ \A i \in SUBSET Txs : [c EXCEPT !.at = "rows", !.inserted = i] \in Call
         /\ \A p \in Points, f \in Maybe(Files) : [c EXCEPT !.at = p, !.file = f] \in Call
         /\ \A rest \in SUBSET Txs, f \in Maybe(Files) :
              [c EXCEPT !.at = "classify", !.todo = rest, !.file = f] \in Call
<1> USE DEF Call, Points
<1>1. \A p \in Points : [c EXCEPT !.at = p] \in Call
  OBVIOUS
<1>2. \A rest \in SUBSET Txs : [c EXCEPT !.todo = rest] \in Call
  OBVIOUS
<1>3. \A rest \in SUBSET Txs, p \in Points : [c EXCEPT !.todo = rest, !.at = p] \in Call
  OBVIOUS
<1>4. \A x \in Txs, rest \in SUBSET Txs : [c EXCEPT !.at = "event", !.tx = x, !.todo = rest] \in Call
  BY DEF Maybe
<1>5. \A i \in SUBSET Txs : [c EXCEPT !.at = "rows", !.inserted = i] \in Call
  OBVIOUS
<1>6. \A p \in Points, f \in Maybe(Files) : [c EXCEPT !.at = p, !.file = f] \in Call
  OBVIOUS
<1>7. \A rest \in SUBSET Txs, f \in Maybe(Files) :
        [c EXCEPT !.at = "classify", !.todo = rest, !.file = f] \in Call
  OBVIOUS
<1> QED BY <1>1, <1>2, <1>3, <1>4, <1>5, <1>6, <1>7

\* A request that goes elsewhere carries what it carried.
LEMMA FieldsKept ==
  ASSUME NEW c \in Call
  PROVE  /\ \A p \in Points :
              /\ [c EXCEPT !.at = p] \in Call
              /\ [c EXCEPT !.at = p].at = p
              /\ [c EXCEPT !.at = p].label = c.label
              /\ [c EXCEPT !.at = p].todo = c.todo
<1>1. \A p \in Points : [c EXCEPT !.at = p] \in Call
  BY FieldsTyped
<1> QED BY <1>1 DEF Call

LEMMA CopiesTyped ==
  ASSUME NEW c \in Call
  PROVE  /\ \A s \in SUBSET Txs : [c EXCEPT !.at = "copyBook", !.copy.seen = s] \in Call
         /\ \A b \in Book : [c EXCEPT !.at = "copyHistory", !.copy.book = b] \in Call
         /\ \A h \in History : [c EXCEPT !.at = "open", !.copy.history = h] \in Call
<1>1. c.copy \in State
  BY DEF Call
<1>2. /\ \A s \in SUBSET Txs : [c.copy EXCEPT !.seen = s] \in State
      /\ \A b \in Book : [c.copy EXCEPT !.book = b] \in State
      /\ \A h \in History : [c.copy EXCEPT !.history = h] \in State
  BY <1>1 DEF State
<1>3. \A state \in State, p \in Points : [c EXCEPT !.at = p, !.copy = state] \in Call
  BY DEF Call
<1>4. /\ \A s : [c EXCEPT !.at = "copyBook", !.copy.seen = s]
                 = [c EXCEPT !.at = "copyBook", !.copy = [c.copy EXCEPT !.seen = s]]
      /\ \A b : [c EXCEPT !.at = "copyHistory", !.copy.book = b]
                 = [c EXCEPT !.at = "copyHistory", !.copy = [c.copy EXCEPT !.book = b]]
      /\ \A h : [c EXCEPT !.at = "open", !.copy.history = h]
                 = [c EXCEPT !.at = "open", !.copy = [c.copy EXCEPT !.history = h]]
  BY DEF Call
<1> QED BY <1>2, <1>3, <1>4 DEF Points

LEMMA MoveTyped ==
  ASSUME TypedCalls, NEW r \in Requests, NEW c \in Call, Carries(c), Move(r, c)
  PROVE  TypedCalls'
<1>1. calls' \in [Requests -> Call]
  BY DEF TypedCalls, Move
<1>2. \A q \in Requests : calls'[q] = IF q = r THEN c ELSE calls[q]
  BY Zenon DEF TypedCalls, Move
<1>3. \A q \in Requests : Carries(calls'[q])
  BY <1>2 DEF TypedCalls
<1> QED BY <1>1, <1>3 DEF TypedCalls, Carries

LEMMA AfterFailureTyped ==
  ASSUME TypedCalls, NEW r \in Requests, NEW rest \in SUBSET Txs,
         calls[r].label \in Labels \/ rest = {}
  PROVE  AfterFailure(r, rest) \in Call /\ Carries(AfterFailure(r, rest))
<1> DEFINE c == [calls[r] EXCEPT !.at = "classify", !.todo = rest, !.file = None]
<1>1. calls[r] \in Call
  BY DEF TypedCalls
<1>2. c \in Call
  BY <1>1, FieldsTyped DEF Maybe
<1>3. c.at = "classify" /\ c.label = calls[r].label
  BY <1>1 DEF Call
<1>4. calls[r].label \in Labels => Carries(c)
  BY <1>3 DEF Carries
<1> HIDE DEF c
<1>5. AfterFailure(r, rest) = Idle \/ (AfterFailure(r, rest) = c /\ rest # {})
  BY DEF AfterFailure, c
<1> QED BY <1>2, <1>4, <1>5, IdleTyped

\* Labels.
LEMMA FieldTyped ==
  ASSUME NEW l \in Maybe(Labels), NEW field \in Fields
  PROVE  /\ FieldOf(l, field) \in Maybe(Values)
         /\ l \in Labels => FieldOf(l, field) = l[field] /\ l[field] \in Values
<1>1. l \in Labels => l # None /\ l[field] \in Values
  BY LedgerAssumption DEF Values
<1> QED BY <1>1 DEF FieldOf, Maybe

LEMMA AuditTyped ==
  ASSUME NEW x \in Txs, NEW field \in Fields, NEW old \in Maybe(Labels), NEW new \in Labels
  PROVE  AuditOf(x, field, old, new) \in Seq(AuditEntry)
<1>1. FieldOf(old, field) \in Maybe(Values) /\ new[field] \in Values
  BY FieldTyped DEF Maybe
<1>2. [tx |-> x, field |-> field, old |-> FieldOf(old, field), new |-> new[field]] \in AuditEntry
  BY <1>1 DEF AuditEntry
<1> QED BY <1>2 DEF AuditOf

LEMMA FlaggedTyped ==
  ASSUME NEW b \in Book, NEW x \in Txs
  PROVE  Flagged(b, x) \in Book
<1>1. [b.flags EXCEPT ![x].open = TRUE] \in [Txs -> [open: BOOLEAN, resolved: Nat]]
  BY DEF Book
<1>2. Flagged(b, x) = [b EXCEPT !.flags = [b.flags EXCEPT ![x].open = TRUE]]
  BY DEF Flagged, Book
<1> QED BY <1>1, <1>2 DEF Book

LEMMA RelabelledTyped ==
  ASSUME NEW b \in Book, NEW x \in Txs, NEW new \in Labels
  PROVE  Relabelled(b, x, new) \in Book
<1> DEFINE cat == AuditOf(x, "category", b.label[x], new)
           conf == AuditOf(x, "confidence", b.label[x], new)
<1>1. b.label[x] \in Maybe(Labels)
  BY DEF Book
<1>2. cat \in Seq(AuditEntry) /\ conf \in Seq(AuditEntry)
  BY <1>1, AuditTyped DEF Fields
<1> HIDE DEF cat, conf
<1>3. [b.label EXCEPT ![x] = new] \in [Txs -> Maybe(Labels)]
  BY DEF Book, Maybe
<1>4. b.audit \o cat \o conf \in Seq(AuditEntry)
  BY <1>2 DEF Book
<1>5. Relabelled(b, x, new) = [b EXCEPT !.label = [b.label EXCEPT ![x] = new],
                                        !.audit = b.audit \o cat \o conf]
  BY DEF Relabelled, cat, conf, Book
<1> QED BY <1>3, <1>4, <1>5 DEF Book

\* The changes of a rule are finitely many, so an order of them is a sequence.
LEMMA ChangesTyped ==
  ASSUME NEW b \in Book, NEW rule \in Rules
  PROVE  Changes(b, rule) \subseteq AuditEntry /\ IsFiniteSet(Changes(b, rule))
<1> DEFINE entry(x, field) == [tx |-> x, field |-> field, old |-> FieldOf(b.label[x], field),
                               new |-> rule.label[x][field]]
           all == {entry(x, field) : x \in b.rows, field \in Fields}
<1>1. b.rows \subseteq Txs /\ b.label \in [Txs -> Maybe(Labels)] /\ rule.label \in [Txs -> Labels]
  BY LedgerAssumption DEF Book
<1>2. \A x \in b.rows, field \in Fields : entry(x, field) \in AuditEntry
  <2> SUFFICES ASSUME NEW x \in b.rows, NEW field \in Fields PROVE entry(x, field) \in AuditEntry
    OBVIOUS
  <2>1. x \in Txs /\ b.label[x] \in Maybe(Labels) /\ rule.label[x] \in Labels
    BY <1>1
  <2>2. FieldOf(b.label[x], field) \in Maybe(Values) /\ rule.label[x][field] \in Values
    BY <2>1, FieldTyped DEF Maybe
  <2> QED BY <2>1, <2>2 DEF AuditEntry
<1>3. IsFiniteSet(all)
  <2> DEFINE f == [p \in b.rows \X Fields |-> entry(p[1], p[2])]
  <2>1. IsFiniteSet(b.rows) /\ IsFiniteSet(Fields)
    <3>1. IsFiniteSet({"category"}) /\ IsFiniteSet({"confidence"})
      BY FS_Singleton
    <3>2. IsFiniteSet({"category"} \cup {"confidence"})
      BY <3>1, FS_Union
    <3>3. Fields = {"category"} \cup {"confidence"}
      BY DEF Fields
    <3> QED BY <1>1, <3>2, <3>3, FS_Subset, LedgerAssumption
  <2>2. IsFiniteSet(b.rows \X Fields)
    BY <2>1, FS_Product
  <2>3. \A p \in b.rows \X Fields : f[p] \in all
    <3> SUFFICES ASSUME NEW p \in b.rows \X Fields PROVE f[p] \in all
      OBVIOUS
    <3>1. p[1] \in b.rows /\ p[2] \in Fields
      OBVIOUS
    <3> QED BY <3>1
  <2>4. ASSUME NEW e \in all PROVE \E p \in b.rows \X Fields : f[p] = e
    <3>1. PICK x \in b.rows, field \in Fields : e = entry(x, field)
      OBVIOUS
    <3>2. <<x, field>> \in b.rows \X Fields /\ <<x, field>>[1] = x /\ <<x, field>>[2] = field
      OBVIOUS
    <3>3. f[<<x, field>>] = e
      BY <3>1, <3>2
    <3> HIDE DEF f, all
    <3> QED BY <3>2, <3>3, Zenon
  <2> HIDE DEF all
  <2>5. f \in [b.rows \X Fields -> all]
    BY <2>3
  <2> HIDE DEF f
  <2>6. f \in Surjection(b.rows \X Fields, all)
    BY <2>4, <2>5 DEF Surjection
  <2> QED BY <2>2, <2>6, FS_Surjection
<1>4. Changes(b, rule) \subseteq all
  BY DEF Changes
<1> QED BY <1>2, <1>3, <1>4, FS_Subset

LEMMA OrdersTyped ==
  ASSUME NEW b \in Book, NEW rule \in Rules, NEW s \in Orders(Changes(b, rule))
  PROVE  /\ s \in Seq(AuditEntry)
         /\ {s[i] : i \in DOMAIN s} = Changes(b, rule)
         /\ \A i, j \in DOMAIN s : s[i] = s[j] => i = j
<1> DEFINE entries == Changes(b, rule)
           n == Cardinality(entries)
<1>1. entries \subseteq AuditEntry /\ IsFiniteSet(entries) /\ n \in Nat
  BY ChangesTyped, FS_CardinalityType
<1> HIDE DEF entries
<1>2. s \in [1 .. n -> entries] /\ {s[i] : i \in DOMAIN s} = entries
  BY DEF Orders, entries
<1>3. s \in Surjection(1 .. n, entries)
  BY <1>2 DEF Surjection
<1>4. IsFiniteSet(1 .. n) /\ Cardinality(1 .. n) = n
  BY <1>1, FS_Interval
<1>5. s \in Injection(1 .. n, entries)
  BY <1>3, <1>4, FS_SurjSameCardinalityImpliesInj
<1>6. s \in Seq(AuditEntry)
  BY <1>1, <1>2
<1>7. \A i, j \in DOMAIN s : s[i] = s[j] => i = j
  BY <1>2, <1>5 DEF Injection, IsInjective
<1> QED BY <1>2, <1>6, <1>7 DEF entries

LEMMA ByRuleTyped ==
  ASSUME NEW b \in Book, NEW rule \in Rules, NEW entries \in Seq(AuditEntry)
  PROVE  ByRule(b, rule, entries) \in Book
<1> DEFINE label == [x \in Txs |-> IF x \in b.rows THEN rule.label[x] ELSE b.label[x]]
           flags == [x \in Txs |-> IF x \in b.rows \intersect rule.flagged
                                   THEN [b.flags[x] EXCEPT !.open = TRUE] ELSE b.flags[x]]
<1>1. label \in [Txs -> Maybe(Labels)]
  BY LedgerAssumption DEF Book, Maybe
<1>2. flags \in [Txs -> [open: BOOLEAN, resolved: Nat]]
  BY DEF Book
<1>3. b.audit \o entries \in Seq(AuditEntry)
  BY DEF Book
<1> HIDE DEF label, flags
<1>4. ByRule(b, rule, entries) = [b EXCEPT !.label = label, !.audit = b.audit \o entries, !.flags = flags]
  BY DEF ByRule, label, flags, Book
<1> QED BY <1>1, <1>2, <1>3, <1>4 DEF Book

LEMMA AppendedTyped ==
  ASSUME NEW h \in History, NEW type \in EventTypes, NEW x \in Txs
  PROVE  Appended(h, type, x) \in History
<1>1. [sequence |-> h.last + 1, type |-> type, tx |-> x] \in Event
  BY DEF History, Event
<1> QED BY <1>1 DEF Appended, History

LEMMA FaultTyped ==
  ASSUME LedgerTypeOK, Fault
  PROVE  budget' \in [calls: Nat, crashes: Nat, faults: Nat]
BY DEF LedgerTypeOK, Fault

\* What a step does not touch keeps its type.
LEMMA FrameTyped ==
  ASSUME LedgerTypeOK
  PROVE  /\ UNCHANGED <<transport, phase>> => (transport \in Transports /\ phase \in {"up", "down", "refused"})'
         /\ UNCHANGED memory => (Memory \in State)'
         /\ UNCHANGED disk => (/\ files \in [Files -> Content]
                               /\ tmpName \in Maybe(Files) /\ sideName \in Maybe(Files))'
         /\ UNCHANGED journal => (journal \in [Txs -> Nat])'
         /\ UNCHANGED acked => (acked \in State)'
         /\ UNCHANGED budget => (budget \in [calls: Nat, crashes: Nat, faults: Nat])'
BY DEF LedgerTypeOK, memory, disk, Memory

LEMMA MemoryTyped ==
  /\ Memory \in State <=> seen \in SUBSET Txs /\ book \in Book /\ history \in History
  /\ (Memory \in State)' <=> seen' \in SUBSET Txs /\ book' \in Book /\ history' \in History
BY DEF Memory, State

LEMMA StartTyped ==
  ASSUME TypeInv, NEW r \in Requests, Start(r)
  PROVE  TypeInv'
<1>1. PICK c \in Call : Carries(c) /\ Move(r, c)
  <2>1. ASSUME NEW rows \in SUBSET Txs,
               Move(r, [Idle EXCEPT !.at = "ingest", !.kind = "ingest", !.todo = rows])
        PROVE  \E c \in Call : Carries(c) /\ Move(r, c)
    <3> DEFINE c == [Idle EXCEPT !.at = "ingest", !.kind = "ingest", !.todo = rows]
    <3>1. c \in Call /\ c.at = "ingest"
      BY IdleTyped DEF Call, Points, Kinds, EventTypes
    <3>2. Carries(c)
      BY <3>1 DEF Carries
    <3> HIDE DEF c
    <3> QED BY <2>1, <3>1, <3>2 DEF c
  <2>2. ASSUME NEW rows \in SUBSET Txs, NEW l \in Labels, NEW strict \in BOOLEAN,
               NEW kind \in Kinds,
               Move(r, [Idle EXCEPT !.at = "classify", !.kind = kind, !.todo = rows,
                                    !.label = l, !.strict = strict])
        PROVE  \E c \in Call : Carries(c) /\ Move(r, c)
    <3> DEFINE c == [Idle EXCEPT !.at = "classify", !.kind = kind, !.todo = rows,
                                 !.label = l, !.strict = strict]
    <3>1. c \in Call /\ c.at = "classify" /\ c.label = l
      BY IdleTyped DEF Call, Points, Maybe
    <3>2. Carries(c)
      BY <3>1 DEF Carries
    <3> HIDE DEF c
    <3> QED BY <2>2, <3>1, <3>2 DEF c
  <2>3. ASSUME NEW rule \in Rules,
               Move(r, [Idle EXCEPT !.at = "rule", !.kind = "rule", !.rule = rule])
        PROVE  \E c \in Call : Carries(c) /\ Move(r, c)
    <3> DEFINE c == [Idle EXCEPT !.at = "rule", !.kind = "rule", !.rule = rule]
    <3>1. c \in Call /\ c.at = "rule" /\ c.rule = rule
      BY IdleTyped DEF Call, Points, Kinds, Maybe
    <3>2. c.todo = {}
      BY DEF Idle
    <3>3. Carries(c)
      BY <3>1, <3>2 DEF Carries
    <3> HIDE DEF c
    <3> QED BY <2>3, <3>1, <3>3 DEF c
  <2>4. ASSUME NEW rows \in SUBSET Txs,
               Move(r, [Idle EXCEPT !.at = "resolve", !.kind = "resolve", !.todo = rows])
        PROVE  \E c \in Call : Carries(c) /\ Move(r, c)
    <3> DEFINE c == [Idle EXCEPT !.at = "resolve", !.kind = "resolve", !.todo = rows]
    <3>1. c \in Call /\ c.at = "resolve"
      BY IdleTyped DEF Call, Points, Kinds
    <3>2. Carries(c)
      BY <3>1 DEF Carries
    <3> HIDE DEF c
    <3> QED BY <2>4, <3>1, <3>2 DEF c
  <2>5. CASE \E rows \in SUBSET Txs \ {{}} :
               Move(r, [Idle EXCEPT !.at = "ingest", !.kind = "ingest", !.todo = rows])
    BY <2>1, <2>5
  <2>6. CASE \E rows \in SUBSET Txs, l \in Labels, strict \in BOOLEAN, kind \in Kinds :
               Move(r, [Idle EXCEPT !.at = "classify", !.kind = kind, !.todo = rows,
                                    !.label = l, !.strict = strict])
    BY <2>2, <2>6
  <2>7. CASE \E rule \in Rules : Move(r, [Idle EXCEPT !.at = "rule", !.kind = "rule", !.rule = rule])
    BY <2>3, <2>7
  <2>8. CASE \E rows \in SUBSET Txs \ {{}} :
               Move(r, [Idle EXCEPT !.at = "resolve", !.kind = "resolve", !.todo = rows])
    BY <2>4, <2>8
  <2> QED BY <2>5, <2>6, <2>7, <2>8 DEF Start, Kinds, EventTypes
<1>2. TypedCalls'
  BY <1>1, MoveTyped DEF TypeInv
<1>3. budget' \in [calls: Nat, crashes: Nat, faults: Nat]
  <2>1. budget' = [budget EXCEPT !.calls = @ + 1]
    BY DEF Start
  <2> QED BY <2>1 DEF TypeInv, LedgerTypeOK
<1>4. UNCHANGED <<transport, phase, memory, journal, disk, acked>>
  BY DEF Start
<1> QED BY <1>2, <1>3, <1>4, FrameTyped DEF TypeInv, LedgerTypeOK, TypedCalls

LEMMA IngestTyped ==
  ASSUME TypeInv, NEW r \in Requests, IngestRows(r) \/ IngestBook(r) \/ IngestEvent(r)
  PROVE  TypeInv'
<1>0. /\ LedgerTypeOK /\ calls[r] \in Call /\ Carries(calls[r])
      /\ calls[r].todo \in SUBSET Txs /\ calls[r].inserted \in SUBSET Txs
      /\ seen \in SUBSET Txs /\ book \in Book /\ history \in History /\ journal \in [Txs -> Nat]
  BY MemoryTyped DEF TypeInv, TypedCalls, LedgerTypeOK, Call
<1>1. CASE IngestRows(r)
  <2> DEFINE inserted == calls[r].todo \ seen
             c == [calls[r] EXCEPT !.at = "rows", !.inserted = inserted]
  <2>1. c \in Call /\ c.at = "rows"
    BY <1>0, FieldsTyped DEF Call
  <2>2. Carries(c)
    BY <2>1 DEF Carries
  <2>3. TypedCalls'
    BY <1>1, <2>1, <2>2, IdleTyped, MoveTyped DEF IngestRows, TypeInv
  <2>4. journal' \in [Txs -> Nat]
    BY <1>0, <1>1 DEF IngestRows
  <2>5. (Memory \in State)'
    BY <1>0, <1>1, MemoryTyped DEF IngestRows
  <2>6. budget' \in [calls: Nat, crashes: Nat, faults: Nat]
    BY <1>0, <1>1, FaultTyped, FrameTyped DEF IngestRows
  <2> QED BY <1>0, <1>1, <2>3, <2>4, <2>5, <2>6, FrameTyped
          DEF TypeInv, LedgerTypeOK, TypedCalls, IngestRows
<1>2. CASE IngestBook(r)
  <2> DEFINE c == [calls[r] EXCEPT !.at = "ingestEvents"]
  <2>1. c \in Call /\ c.at = "ingestEvents"
    <3>1. "ingestEvents" \in Points
      BY DEF Points, Maybe
    <3>2. calls[r] \in Call
      BY <1>0
    <3> QED BY <3>1, <3>2, FieldsKept, Zenon
  <2>2. Carries(c)
    BY <2>1 DEF Carries
  <2>3. TypedCalls'
    BY <1>2, <2>1, <2>2, IdleTyped, MoveTyped DEF IngestBook, TypeInv, Goto
  <2>4. book' \in Book
    BY <1>0, <1>2 DEF IngestBook, Book
  <2>5. (Memory \in State)'
    BY <1>0, <1>2, <2>4, MemoryTyped DEF IngestBook
  <2>6. budget' \in [calls: Nat, crashes: Nat, faults: Nat]
    BY <1>0, <1>2, FaultTyped, FrameTyped DEF IngestBook
  <2> QED BY <1>0, <1>2, <2>3, <2>5, <2>6, FrameTyped
          DEF TypeInv, LedgerTypeOK, TypedCalls, IngestBook
<1>3. CASE IngestEvent(r)
  <2>1. PICK x \in calls[r].todo :
          /\ history' = Appended(history, "ingest", x)
          /\ Move(r, [calls[r] EXCEPT !.todo = calls[r].todo \ {x},
                       !.at = IF calls[r].todo \ {x} = {} THEN "copySeen" ELSE "ingestEvents"])
    BY <1>3 DEF IngestEvent
  <2> DEFINE rest == calls[r].todo \ {x}
             c == [calls[r] EXCEPT !.todo = rest,
                                   !.at = IF rest = {} THEN "copySeen" ELSE "ingestEvents"]
  <2>2. rest \in SUBSET Txs /\ x \in Txs
    BY <1>0
  <2>3. c \in Call /\ c.at = (IF rest = {} THEN "copySeen" ELSE "ingestEvents") /\ c.todo = rest
    <3>1. c \in Call
      BY <1>0, <2>2, FieldsTyped DEF Points
    <3>2. calls[r] \in Call
      BY <1>0
    <3> QED BY <3>1, <3>2 DEF Call
  <2>4. Carries(c)
    BY <2>3 DEF Carries
  <2>5. TypedCalls'
    BY <2>1, <2>3, <2>4, MoveTyped DEF TypeInv
  <2>6. history' \in History
    BY <1>0, <2>1, <2>2, AppendedTyped DEF EventTypes
  <2>7. (Memory \in State)'
    BY <1>0, <1>3, <2>6, MemoryTyped DEF IngestEvent
  <2> QED BY <1>0, <1>3, <2>5, <2>7, FrameTyped DEF TypeInv, LedgerTypeOK, TypedCalls, IngestEvent
<1> QED BY <1>1, <1>2, <1>3

LEMMA ClassifyTyped ==
  ASSUME TypeInv, NEW r \in Requests, Classify(r) \/ ClassifyEvent(r)
  PROVE  TypeInv'
<1>0. /\ LedgerTypeOK /\ calls[r] \in Call /\ Carries(calls[r])
      /\ calls[r].todo \in SUBSET Txs
      /\ seen \in SUBSET Txs /\ book \in Book /\ history \in History
      /\ calls[r].label \in Labels
  BY MemoryTyped DEF TypeInv, TypedCalls, LedgerTypeOK, Call, Carries, Classify, ClassifyEvent, At
<1>1. CASE Classify(r)
  <2>1. PICK x \in calls[r].todo :
          \/ /\ book' = IF calls[r].label \in LowLabels
                        THEN Flagged(Relabelled(book, x, calls[r].label), x)
                        ELSE Relabelled(book, x, calls[r].label)
             /\ Move(r, [calls[r] EXCEPT !.at = "event", !.tx = x, !.todo = calls[r].todo \ {x}])
          \/ Move(r, AfterFailure(r, calls[r].todo \ {x})) /\ UNCHANGED book
    BY <1>1 DEF Classify
  <2> DEFINE rest == calls[r].todo \ {x}
             c == [calls[r] EXCEPT !.at = "event", !.tx = x, !.todo = rest]
  <2>2. rest \in SUBSET Txs /\ x \in Txs
    BY <1>0
  <2>3. c \in Call /\ c.at = "event" /\ c.tx = x /\ c.label = calls[r].label
    BY <1>0, <2>2, FieldsTyped DEF Call
  <2>4. Carries(c)
    BY <1>0, <2>2, <2>3 DEF Carries
  <2>5. AfterFailure(r, rest) \in Call /\ Carries(AfterFailure(r, rest))
    BY <1>0, <2>2, AfterFailureTyped DEF TypeInv
  <2>6. TypedCalls'
    <3> HIDE DEF c
    <3> QED BY <2>1, <2>3, <2>4, <2>5, MoveTyped DEF TypeInv, c
  <2>7. book' \in Book
    BY <1>0, <2>1, <2>2, RelabelledTyped, FlaggedTyped
  <2>8. (Memory \in State)'
    BY <1>0, <1>1, <2>7, MemoryTyped DEF Classify
  <2> QED BY <1>0, <1>1, <2>6, <2>8, FrameTyped DEF TypeInv, LedgerTypeOK, TypedCalls, Classify
<1>2. CASE ClassifyEvent(r)
  <2> DEFINE c == [calls[r] EXCEPT !.at = "copySeen"]
  <2>1. c \in Call /\ c.at = "copySeen" /\ c.label = calls[r].label
    <3>1. "copySeen" \in Points
      BY DEF Points, Maybe
    <3>2. calls[r] \in Call
      BY <1>0
    <3> QED BY <3>1, <3>2, FieldsKept, Zenon
  <2>2. Carries(c)
    BY <1>0, <2>1 DEF Carries
  <2>3. AfterFailure(r, calls[r].todo) \in Call /\ Carries(AfterFailure(r, calls[r].todo))
    BY <1>0, AfterFailureTyped DEF TypeInv
  <2>4. TypedCalls'
    BY <1>2, <2>1, <2>2, <2>3, MoveTyped DEF ClassifyEvent, TypeInv, Goto
  <2>5. calls[r].tx \in Txs
    BY <1>0, <1>2 DEF ClassifyEvent, At, Carries
  <2>6. history' \in History
    BY <1>0, <1>2, <2>5, AppendedTyped DEF ClassifyEvent
  <2>7. (Memory \in State)'
    BY <1>0, <1>2, <2>6, MemoryTyped DEF ClassifyEvent
  <2> QED BY <1>0, <1>2, <2>4, <2>7, FrameTyped DEF TypeInv, LedgerTypeOK, TypedCalls, ClassifyEvent
<1> QED BY <1>1, <1>2

LEMMA FlagsTyped ==
  ASSUME NEW b \in Book, NEW flags \in [Txs -> [open: BOOLEAN, resolved: Nat]]
  PROVE  [b EXCEPT !.flags = flags] \in Book
BY DEF Book

LEMMA RuleTyped ==
  ASSUME TypeInv, NEW r \in Requests, ClassifyByRule(r) \/ Resolve(r)
  PROVE  TypeInv'
<1>0. /\ LedgerTypeOK /\ calls[r] \in Call /\ Carries(calls[r])
      /\ seen \in SUBSET Txs /\ book \in Book /\ history \in History
      /\ book.flags \in [Txs -> [open: BOOLEAN, resolved: Nat]]
  BY MemoryTyped DEF TypeInv, TypedCalls, LedgerTypeOK, Call, Book
<1>1. CASE ClassifyByRule(r)
  <2> DEFINE c == [calls[r] EXCEPT !.at = "copySeen"]
  <2>1. calls[r].rule \in Rules /\ calls[r].todo = {}
    BY <1>0, <1>1 DEF Carries, ClassifyByRule, At
  <2>2. c \in Call /\ c.at = "copySeen" /\ c.todo = {}
    <3>1. "copySeen" \in Points
      BY DEF Points, Maybe
    <3>2. calls[r] \in Call
      BY <1>0
    <3> QED BY <2>1, <3>1, <3>2, FieldsKept, Zenon
  <2>3. Carries(c)
    BY <2>2 DEF Carries
  <2>4. TypedCalls'
    BY <1>1, <2>2, <2>3, IdleTyped, MoveTyped DEF ClassifyByRule, TypeInv, Goto
  <2>5. book' \in Book
    <3>1. CASE \E entries \in Orders(Changes(book, calls[r].rule)) :
                 book' = ByRule(book, calls[r].rule, entries)
      BY <1>0, <2>1, <3>1, OrdersTyped, ByRuleTyped
    <3>2. CASE \E before \in SUBSET (book.rows \intersect calls[r].rule.flagged) :
                 book' = [book EXCEPT !.flags = [x \in Txs |->
                            IF x \in before THEN [@[x] EXCEPT !.open = TRUE] ELSE @[x]]]
      <4>1. PICK before : book' = [book EXCEPT !.flags = [x \in Txs |->
                            IF x \in before THEN [@[x] EXCEPT !.open = TRUE] ELSE @[x]]]
        BY <3>2
      <4>2. [x \in Txs |-> IF x \in before THEN [book.flags[x] EXCEPT !.open = TRUE]
                           ELSE book.flags[x]] \in [Txs -> [open: BOOLEAN, resolved: Nat]]
        BY <1>0
      <4> QED BY <1>0, <4>1, <4>2, FlagsTyped
    <3> QED BY <1>1, <3>1, <3>2 DEF ClassifyByRule
  <2>6. (Memory \in State)'
    BY <1>0, <1>1, <2>5, MemoryTyped DEF ClassifyByRule
  <2> QED BY <1>0, <1>1, <2>4, <2>6, FrameTyped DEF TypeInv, LedgerTypeOK, TypedCalls, ClassifyByRule
<1>2. CASE Resolve(r)
  <2>1. TypedCalls'
    BY <1>2, IdleTyped, MoveTyped DEF Resolve, TypeInv
  <2>2. book' \in Book
    <3> DEFINE flags == [x \in Txs |-> IF x \in calls[r].todo /\ book.flags[x].open
                           THEN [open |-> FALSE, resolved |-> book.flags[x].resolved + 1]
                           ELSE book.flags[x]]
    <3>1. flags \in [Txs -> [open: BOOLEAN, resolved: Nat]]
      BY <1>0
    <3>2. book' = [book EXCEPT !.flags = flags]
      BY <1>2 DEF Resolve
    <3> HIDE DEF flags
    <3> QED BY <1>0, <3>1, <3>2, FlagsTyped
  <2>3. (Memory \in State)'
    BY <1>0, <1>2, <2>2, MemoryTyped DEF Resolve
  <2> QED BY <1>0, <1>2, <2>1, <2>3, FrameTyped DEF TypeInv, LedgerTypeOK, TypedCalls, Resolve
<1> QED BY <1>1, <1>2

LEMMA CopyTyped ==
  ASSUME TypeInv, NEW r \in Requests, CopySeen(r) \/ CopyBook(r) \/ CopyHistory(r)
  PROVE  TypeInv'
<1>0. /\ LedgerTypeOK /\ calls[r] \in Call /\ Carries(calls[r])
      /\ seen \in SUBSET Txs /\ book \in Book /\ history \in History
      /\ calls[r].label \in Labels \/ calls[r].todo = {}
  BY MemoryTyped DEF TypeInv, TypedCalls, LedgerTypeOK, Carries, CopySeen, CopyBook, CopyHistory, At
<1>1. PICK c \in Call : /\ c.at \in {"copyBook", "copyHistory", "open"}
                        /\ c.label = calls[r].label /\ c.todo = calls[r].todo
                        /\ Move(r, c)
  <2>1. /\ [calls[r] EXCEPT !.at = "copyBook", !.copy.seen = seen] \in Call
        /\ [calls[r] EXCEPT !.at = "copyHistory", !.copy.book = book] \in Call
        /\ [calls[r] EXCEPT !.at = "open", !.copy.history = history] \in Call
    BY <1>0, CopiesTyped
  <2>2. CASE CopySeen(r)
    BY <1>0, <2>1, <2>2 DEF CopySeen, Call
  <2>3. CASE CopyBook(r)
    BY <1>0, <2>1, <2>3 DEF CopyBook, Call
  <2>4. CASE CopyHistory(r)
    BY <1>0, <2>1, <2>4 DEF CopyHistory, Call
  <2> QED BY <2>2, <2>3, <2>4
<1>2. Carries(c)
  BY <1>0, <1>1 DEF Carries
<1>3. TypedCalls'
  BY <1>1, <1>2, MoveTyped DEF TypeInv
<1> QED BY <1>0, <1>3, FrameTyped
        DEF TypeInv, LedgerTypeOK, TypedCalls, CopySeen, CopyBook, CopyHistory

LEMMA SaveTyped ==
  ASSUME TypeInv, NEW r \in Requests,
         OpenTmp(r) \/ WriteTmp(r) \/ RenameTmp(r) \/ SaveRefused(r)
  PROVE  TypeInv'
<1>0. /\ LedgerTypeOK /\ calls[r] \in Call /\ Carries(calls[r])
      /\ calls[r].copy \in State /\ calls[r].todo \in SUBSET Txs
      /\ files \in [Files -> Content] /\ tmpName \in Maybe(Files) /\ sideName \in Maybe(Files)
      /\ Memory \in State
      /\ calls[r].label \in Labels \/ calls[r].todo = {}
  BY DEF TypeInv, TypedCalls, LedgerTypeOK, Call, Carries, OpenTmp, WriteTmp, RenameTmp,
         SaveRefused, At
<1>1. AfterFailure(r, calls[r].todo) \in Call /\ Carries(AfterFailure(r, calls[r].todo))
  BY <1>0, AfterFailureTyped DEF TypeInv
<1>2. CASE OpenTmp(r)
  <2>1. PICK f \in Files : /\ tmpName' = f /\ files' = [files EXCEPT ![f] = Blank]
                           /\ Move(r, [calls[r] EXCEPT !.at = "write", !.file = f])
    BY <1>0, <1>2 DEF OpenTmp, Free, Maybe
  <2> DEFINE c == [calls[r] EXCEPT !.at = "write", !.file = f]
  <2>2. c \in Call /\ c.at = "write" /\ c.label = calls[r].label /\ c.todo = calls[r].todo
    <3>1. "write" \in Points /\ f \in Maybe(Files)
      BY DEF Points, Maybe
    <3>2. calls[r] \in Call
      BY <1>0
    <3>3. [calls[r] EXCEPT !.at = "write", !.file = f] \in Call
      BY <3>1, <3>2 DEF Call
    <3> QED BY <3>2, <3>3 DEF Call
  <2>3. Carries(c)
    BY <1>0, <2>2 DEF Carries
  <2>4. TypedCalls'
    BY <2>1, <2>2, <2>3, MoveTyped DEF TypeInv
  <2>5. files' \in [Files -> Content] /\ tmpName' \in Maybe(Files)
    BY <1>0, <2>1, ContentsTyped DEF Maybe
  <2> QED BY <1>0, <1>2, <2>4, <2>5, FrameTyped DEF TypeInv, LedgerTypeOK, TypedCalls, OpenTmp
<1>3. CASE WriteTmp(r)
  <2> DEFINE c == [calls[r] EXCEPT !.at = "rename", !.file = None]
  <2>1. c \in Call /\ c.at = "rename" /\ c.label = calls[r].label /\ c.todo = calls[r].todo
    <3>1. "rename" \in Points /\ None \in Maybe(Files)
      BY DEF Points, Maybe
    <3>2. calls[r] \in Call
      BY <1>0
    <3>3. [calls[r] EXCEPT !.at = "rename", !.file = None] \in Call
      BY <3>1, <3>2 DEF Call
    <3> QED BY <3>2, <3>3 DEF Call
  <2>2. Carries(c)
    BY <1>0, <2>1 DEF Carries
  <2>3. TypedCalls'
    BY <1>1, <1>3, <2>1, <2>2, MoveTyped DEF WriteTmp, TypeInv
  <2>4. PICK content \in {Full(calls[r].copy), Torn} :
          files' = [files EXCEPT ![calls[r].file] = content]
    BY <1>3 DEF WriteTmp
  <2>5. files' \in [Files -> Content]
    BY <1>0, <2>4, ContentsTyped
  <2>6. budget' \in [calls: Nat, crashes: Nat, faults: Nat]
    BY <1>0, <1>3, FaultTyped, FrameTyped DEF WriteTmp
  <2> QED BY <1>0, <1>3, <2>3, <2>5, <2>6, FrameTyped DEF TypeInv, LedgerTypeOK, TypedCalls, WriteTmp
<1>4. CASE RenameTmp(r)
  <2> DEFINE c == [calls[r] EXCEPT !.at = "classify"]
  <2>1. c \in Call /\ c.at = "classify" /\ c.label = calls[r].label
    <3>1. "classify" \in Points
      BY DEF Points, Maybe
    <3>2. calls[r] \in Call
      BY <1>0
    <3> QED BY <3>1, <3>2, FieldsKept, Zenon
  <2>2. calls[r].todo # {} => Carries(c)
    BY <1>0, <2>1 DEF Carries
  <2>3. TypedCalls'
    <3> HIDE DEF c
    <3> QED BY <1>1, <1>4, <2>1, <2>2, IdleTyped, MoveTyped DEF RenameTmp, TypeInv, c
  <2>4. tmpName' \in Maybe(Files) /\ sideName' \in Maybe(Files) /\ acked' \in State
    BY <1>0, <1>4 DEF RenameTmp, Maybe, LedgerTypeOK
  <2> QED BY <1>0, <1>4, <2>3, <2>4, FrameTyped DEF TypeInv, LedgerTypeOK, TypedCalls, RenameTmp
<1>5. CASE SaveRefused(r)
  <2>1. TypedCalls'
    BY <1>1, <1>5, MoveTyped DEF SaveRefused, TypeInv
  <2>2. budget' \in [calls: Nat, crashes: Nat, faults: Nat]
    BY <1>0, <1>5, FaultTyped, FrameTyped DEF SaveRefused
  <2> QED BY <1>0, <1>5, <2>1, <2>2, FrameTyped
          DEF TypeInv, LedgerTypeOK, TypedCalls, SaveRefused
<1> QED BY <1>2, <1>3, <1>4, <1>5

LEMMA NextTyped == TypeInv /\ [Next]_vars => TypeInv'
<1> SUFFICES ASSUME TypeInv, [Next]_vars PROVE TypeInv'
  OBVIOUS
<1>1. ASSUME NEW r \in Requests, Request(r) PROVE TypeInv'
  BY <1>1, StartTyped, IngestTyped, ClassifyTyped, RuleTyped, CopyTyped, SaveTyped DEF Request
<1>2. CASE Crash
  <2>1. TypedCalls'
    BY <1>2, IdleTyped DEF Crash, TypedCalls
  <2>2. (Memory \in State)'
    BY <1>2, NewStateTyped, MemoryTyped DEF Crash
  <2>3. budget' \in [calls: Nat, crashes: Nat, faults: Nat]
    BY <1>2 DEF Crash, TypeInv, LedgerTypeOK
  <2> QED BY <1>2, <2>1, <2>2, <2>3, FrameTyped DEF TypeInv, LedgerTypeOK, TypedCalls, Crash
<1>3. CASE Restart
  <2> DEFINE saved == IF sideName = None THEN Full(NewState) ELSE files[sideName]
  <2>1. saved \in Content
    BY NewStateTyped, ContentsTyped DEF TypeInv, LedgerTypeOK, Maybe
  <2>2. saved.state \in State
    BY <2>1 DEF Content
  <2>3. (Memory \in State)'
    <3> HIDE DEF saved
    <3>1. \/ /\ seen' = saved.state.seen /\ book' = saved.state.book
             /\ history' = saved.state.history
          \/ UNCHANGED memory
      BY <1>3 DEF Restart, saved
    <3>2. saved.state.seen \in SUBSET Txs /\ saved.state.book \in Book /\ saved.state.history \in History
      BY <2>2 DEF State
    <3>3. (seen \in SUBSET Txs /\ book \in Book /\ history \in History)'
      BY <3>1, <3>2, MemoryTyped DEF TypeInv, LedgerTypeOK, memory
    <3> QED BY <3>3, MemoryTyped
  <2>4. phase' \in {"up", "down", "refused"} /\ UNCHANGED <<transport, journal, disk, calls, acked, budget>>
    BY <1>3 DEF Restart
  <2> QED BY <2>3, <2>4, FrameTyped DEF TypeInv, LedgerTypeOK, TypedCalls, Carries
<1>4. CASE UNCHANGED vars
  BY <1>4, FrameTyped DEF vars, TypeInv, LedgerTypeOK, TypedCalls, Carries
<1> QED BY <1>1, <1>2, <1>3, <1>4 DEF Next

LEMMA InitTyped == Init => TypeInv
<1> SUFFICES ASSUME Init PROVE TypeInv
  OBVIOUS
<1>1. TypedCalls
  BY IdleTyped DEF Init, TypedCalls
<1>2. Memory \in State /\ acked \in State
  BY NewStateTyped, MemoryTyped DEF Init
<1>3. files \in [Files -> Content] /\ journal \in [Txs -> Nat]
  BY ContentsTyped DEF Init
<1> QED BY <1>1, <1>2, <1>3 DEF Init, TypeInv, LedgerTypeOK, TypedCalls, Maybe

\* Every variable has its type in every run of the service.
THEOREM LedgerTypes == Spec => []LedgerTypeOK
<1>1. TypeInv => LedgerTypeOK
  BY DEF TypeInv
<1> QED BY <1>1, InitTyped, NextTyped, PTL DEF Spec

-----------------------------------------------------------------------------
(* The audit trail.                                                        *)

\* The entries of the longer log that were there before are where they were.
LEMMA JoinedLog ==
  ASSUME NEW s \in Seq(AuditEntry), NEW t \in Seq(AuditEntry)
  PROVE  /\ Len(s) \in Nat /\ Len(t) \in Nat
         /\ DOMAIN s = 1 .. Len(s) /\ DOMAIN t = 1 .. Len(t)
         /\ DOMAIN (s \o t) = 1 .. Len(s) + Len(t) /\ Len(s \o t) = Len(s) + Len(t)
         /\ \A i \in DOMAIN s : (s \o t)[i] = s[i]
         /\ \A k \in DOMAIN t : (s \o t)[Len(s) + k] = t[k]
OBVIOUS

LEMMA JoinedTwice ==
  ASSUME NEW s \in Seq(AuditEntry), NEW t \in Seq(AuditEntry), NEW u \in Seq(AuditEntry)
  PROVE  /\ (s \o t) \o u = s \o (t \o u)
         /\ t \o u \in Seq(AuditEntry)
OBVIOUS

LEMMA Pair ==
  ASSUME NEW d, NEW e
  PROVE  /\ LET s == <<d>> \o <<e>> IN DOMAIN s = {1, 2} /\ s[1] = d /\ s[2] = e
         /\ <<d>> \o <<>> = <<d>> /\ <<>> \o <<e>> = <<e>>
<1> DEFINE S == {d, e}
           s == <<d>> \o <<e>>
<1>1. d \in S /\ e \in S
  OBVIOUS
<1> HIDE DEF S
<1>2. <<d>> \in Seq(S) /\ <<e>> \in Seq(S) /\ <<>> \in Seq(S)
  BY <1>1
<1>3. <<d>> \o <<>> = <<d>> /\ <<>> \o <<e>> = <<e>>
  BY <1>2
<1>4. Len(s) = 2 /\ DOMAIN s = 1 .. 2 /\ s[1] = d /\ s[2] = e
  BY <1>2
<1>5. 1 .. 2 = {1, 2}
  OBVIOUS
<1> QED BY <1>3, <1>4, <1>5

\* New entries that tell each change of a label, once each, keep the log explaining.
LEMMA GrownExplains ==
  ASSUME NEW b \in Book, NEW c \in Book, Explains(b),
         NEW added \in Seq(AuditEntry), c.audit = b.audit \o added,
         \A k \in DOMAIN added :
           /\ added[k].old = FieldOf(b.label[added[k].tx], added[k].field)
           /\ added[k].new = FieldOf(c.label[added[k].tx], added[k].field)
           /\ added[k].old # added[k].new,
         \A j, k \in DOMAIN added :
           added[j].tx = added[k].tx /\ added[j].field = added[k].field => j = k,
         \A x \in Txs, field \in Fields :
           \/ FieldOf(c.label[x], field) = FieldOf(b.label[x], field)
           \/ \E k \in DOMAIN added : added[k].tx = x /\ added[k].field = field
  PROVE  Explains(c)
<1> DEFINE n == Len(b.audit)
           m == Len(added)
<1>0. b.audit \in Seq(AuditEntry)
  BY DEF Book
<1>1. /\ n \in Nat /\ m \in Nat /\ DOMAIN b.audit = 1 .. n /\ DOMAIN added = 1 .. m
      /\ DOMAIN c.audit = 1 .. n + m /\ Len(c.audit) = n + m
      /\ \A i \in 1 .. n : c.audit[i] = b.audit[i]
      /\ \A k \in 1 .. m : c.audit[n + k] = added[k]
  BY <1>0, JoinedLog
<1>once. \A j, k \in 1 .. m :
           added[j].tx = added[k].tx /\ added[j].field = added[k].field => j = k
  BY <1>1
<1>tells. \A k \in 1 .. m :
            /\ added[k].old = FieldOf(b.label[added[k].tx], added[k].field)
            /\ added[k].new = FieldOf(c.label[added[k].tx], added[k].field)
            /\ added[k].old # added[k].new
  BY <1>1
<1> HIDE DEF n, m
<1> SUFFICES ASSUME NEW x \in Txs, NEW field \in Fields
             PROVE  /\ \A i \in EntriesOf(c, x, field) :
                         /\ LeftBefore(c, x, field, i, c.audit[i].old)
                         /\ c.audit[i].old # c.audit[i].new
                    /\ LeftBefore(c, x, field, Len(c.audit) + 1, FieldOf(c.label[x], field))
  BY DEF Explains
<1> DEFINE old == EntriesOf(b, x, field)
           new == EntriesOf(c, x, field)
<1>2. /\ \A i \in old : i \in 1 .. n /\ i \in new
      /\ \A i \in new : i \in 1 .. n => i \in old
      /\ \A i \in new : i \in 1 .. n + m
      /\ \A k \in 1 .. m : n + k \in new <=> added[k].tx = x /\ added[k].field = field
  BY <1>1 DEF EntriesOf
<1>3. /\ \A i \in old : LeftBefore(b, x, field, i, b.audit[i].old) /\ b.audit[i].old # b.audit[i].new
      /\ LeftBefore(b, x, field, n + 1, FieldOf(b.label[x], field))
  BY DEF Explains, n
<1> HIDE DEF old, new
<1>4. ASSUME NEW i \in 1 .. n + m + 1, NEW k \in 1 .. n + 1, NEW value,
             {j \in new : j < i} = {j \in old : j < k}, LeftBefore(b, x, field, k, value)
      PROVE  LeftBefore(c, x, field, i, value)
  <2>1. \A j \in {h \in old : h < k} : c.audit[j] = b.audit[j]
    BY <1>1, <1>2
  <2> QED BY <1>4, <2>1 DEF LeftBefore, old, new
<1>5. ASSUME NEW i \in new
      PROVE  LeftBefore(c, x, field, i, c.audit[i].old) /\ c.audit[i].old # c.audit[i].new
  <2>1. CASE i \in 1 .. n
    <3>1. i \in old /\ c.audit[i] = b.audit[i]
      BY <1>1, <1>2, <2>1
    <3>2. {j \in new : j < i} = {j \in old : j < i}
      <4>1. ASSUME NEW j \in new, j < i PROVE j \in old
        BY <1>1, <1>2, <2>1, <4>1
      <4>2. \A j \in old : j \in new
        BY <1>2
      <4> QED BY <4>1, <4>2
    <3> QED BY <1>1, <1>3, <1>4, <2>1, <3>1, <3>2
  <2>2. CASE i \notin 1 .. n
    <3> DEFINE k == i - n
    <3>1. k \in 1 .. m /\ i = n + k
      BY <1>1, <1>2, <2>2
    <3> HIDE DEF k
    <3>2. c.audit[i] = added[k] /\ added[k].tx = x /\ added[k].field = field
      BY <1>1, <1>2, <3>1
    <3>3. {j \in new : j < i} = {j \in old : j < n + 1}
      <4>1. ASSUME NEW j \in new, j < i PROVE j \in old /\ j < n + 1
        <5>1. CASE j \in 1 .. n
          BY <1>1, <1>2, <5>1
        <5>2. CASE j \notin 1 .. n
          <6> DEFINE h == j - n
          <6>1. h \in 1 .. m /\ j = n + h
            BY <1>1, <1>2, <5>2
          <6> HIDE DEF h
          <6>2. added[h].tx = x /\ added[h].field = field
            BY <1>2, <6>1
          <6>3. h = k
            BY <1>once, <3>1, <3>2, <6>1, <6>2
          <6> QED BY <4>1, <3>1, <6>1, <6>3, <1>1
        <5> QED BY <5>1, <5>2
      <4>2. \A j \in old : j \in new /\ j < i /\ j < n + 1
        BY <1>1, <1>2, <3>1
      <4> QED BY <4>1, <4>2
    <3>4. i \in 1 .. n + m + 1 /\ n + 1 \in 1 .. n + 1
      BY <1>1, <3>1
    <3>5. LeftBefore(c, x, field, i, FieldOf(b.label[x], field))
      BY <1>3, <1>4, <3>3, <3>4
    <3>6. /\ added[k].old = FieldOf(b.label[x], field)
          /\ added[k].old # added[k].new
      BY <1>tells, <3>1, <3>2
    <3> QED BY <3>2, <3>5, <3>6
  <2> QED BY <2>1, <2>2
<1>6. LeftBefore(c, x, field, n + m + 1, FieldOf(c.label[x], field))
  <2>1. CASE \E k \in 1 .. m : n + k \in new
    <3>1. PICK k \in 1 .. m : n + k \in new
      BY <2>1
    <3>2. \A j \in new : j <= n + k
      <4> SUFFICES ASSUME NEW j \in new, ~(j <= n + k) PROVE FALSE
        BY <1>1, <1>2
      <4> DEFINE h == j - n
      <4>1. h \in 1 .. m /\ j = n + h
        BY <1>1, <1>2
      <4> HIDE DEF h
      <4>2. added[h].tx = x /\ added[h].field = field /\ added[k].tx = x /\ added[k].field = field
        BY <1>2, <3>1, <4>1
      <4>3. h = k
        BY <1>once, <4>1, <4>2
      <4> QED BY <1>1, <4>1, <4>3
    <3>3. c.audit[n + k] = added[k] /\ added[k].new = FieldOf(c.label[x], field)
      <4>1. added[k].tx = x /\ added[k].field = field
        BY <1>2, <3>1
      <4> QED BY <1>1, <1>tells, <4>1
    <3>4. n + k \in {j \in new : j < n + m + 1}
      BY <1>1, <3>1
    <3>5. ASSUME NEW i \in new, \A j \in new : j < n + m + 1 => j <= i
          PROVE  i = n + k
      <4>1. n + k <= i /\ i <= n + k /\ i \in 1 .. n + m
        BY <1>2, <3>2, <3>4, <3>5
      <4> QED BY <4>1, <1>1
    <3> QED BY <3>3, <3>4, <3>5 DEF LeftBefore, new
  <2>2. CASE ~(\E k \in 1 .. m : n + k \in new)
    <3>1. \A i \in new : i \in old
      <4> SUFFICES ASSUME NEW i \in new, i \notin 1 .. n PROVE FALSE
        BY <1>2
      <4>1. i - n \in 1 .. m /\ n + (i - n) = i
        BY <1>1, <1>2
      <4> QED BY <4>1, <2>2
    <3>2. {j \in new : j < n + m + 1} = {j \in old : j < n + 1}
      BY <1>1, <1>2, <3>1
    <3>3. FieldOf(c.label[x], field) = FieldOf(b.label[x], field)
      BY <1>1, <1>2, <2>2
    <3> QED BY <1>1, <1>3, <1>4, <3>2, <3>3
  <2> QED BY <2>1, <2>2
<1> QED BY <1>1, <1>5, <1>6 DEF new

LEMMA SameExplains ==
  ASSUME NEW b, NEW c, Explains(b), c.audit = b.audit, c.label = b.label
  PROVE  Explains(c)
BY DEF Explains, LeftBefore, EntriesOf

LEMMA NewBookExplains == Explains(NewBook)
<1>1. \A x, field : EntriesOf(NewBook, x, field) = {}
  BY DEF EntriesOf, NewBook
<1>2. \A x \in Txs : NewBook.label[x] = None
  BY DEF NewBook
<1> QED BY <1>1, <1>2 DEF Explains, LeftBefore, FieldOf

LEMMA RelabelledExplains ==
  ASSUME NEW b \in Book, Explains(b), NEW x \in Txs, NEW l \in Labels
  PROVE  Explains(Relabelled(b, x, l))
<1> DEFINE c == Relabelled(b, x, l)
           entry(field) == [tx |-> x, field |-> field, old |-> FieldOf(b.label[x], field),
                            new |-> l[field]]
           e1 == entry("category")
           e2 == entry("confidence")
           s1 == AuditOf(x, "category", b.label[x], l)
           s2 == AuditOf(x, "confidence", b.label[x], l)
<1>1. c \in Book
  BY RelabelledTyped
<1>2. b.label[x] \in Maybe(Labels) /\ b.audit \in Seq(AuditEntry)
  BY DEF Book
<1>3. s1 \in Seq(AuditEntry) /\ s2 \in Seq(AuditEntry)
  BY <1>2, AuditTyped DEF Fields
<1>4. c.label = [b.label EXCEPT ![x] = l] /\ c.audit = b.audit \o s1 \o s2
  BY DEF Relabelled, Book
<1>5. /\ \A y \in Txs : c.label[y] = IF y = x THEN l ELSE b.label[y]
      /\ \A field \in Fields : FieldOf(l, field) = l[field]
  BY <1>4, FieldTyped DEF Book, Maybe
<1>6. /\ e1.tx = x /\ e1.field = "category" /\ e1.old = FieldOf(b.label[x], "category")
      /\ e1.new = FieldOf(c.label[x], "category")
      /\ e2.tx = x /\ e2.field = "confidence" /\ e2.old = FieldOf(b.label[x], "confidence")
      /\ e2.new = FieldOf(c.label[x], "confidence")
  BY <1>5 DEF Fields
<1>7. /\ s1 = IF e1.old = e1.new THEN <<>> ELSE <<e1>>
      /\ s2 = IF e2.old = e2.new THEN <<>> ELSE <<e2>>
  BY DEF AuditOf
<1> DEFINE added == s1 \o s2
<1>8. c.audit = b.audit \o added /\ added \in Seq(AuditEntry)
  <2> HIDE DEF s1, s2, c
  <2> QED BY <1>2, <1>3, <1>4, JoinedTwice
<1> HIDE DEF c, e1, e2, s1, s2
<1>9. /\ \A k \in DOMAIN added : (added[k] = e1 /\ e1.old # e1.new) \/ (added[k] = e2 /\ e2.old # e2.new)
      /\ \A j, k \in DOMAIN added : added[j].field = added[k].field => j = k
      /\ e1.old # e1.new => \E k \in DOMAIN added : added[k] = e1
      /\ e2.old # e2.new => \E k \in DOMAIN added : added[k] = e2
  <2>1. CASE e1.old = e1.new /\ e2.old = e2.new
    <3>1. added = <<>>
      BY <2>1, <1>7
    <3> HIDE DEF added
    <3> QED BY <2>1, <3>1
  <2>2. CASE e1.old # e1.new /\ e2.old = e2.new
    <3>1. added = <<e1>>
      BY <2>2, <1>7, Pair
    <3> HIDE DEF added
    <3>2. DOMAIN added = {1} /\ added[1] = e1
      BY <3>1
    <3> QED BY <2>2, <3>2
  <2>3. CASE e1.old = e1.new /\ e2.old # e2.new
    <3>1. added = <<e2>>
      BY <2>3, <1>7, Pair
    <3> HIDE DEF added
    <3>2. DOMAIN added = {1} /\ added[1] = e2
      BY <3>1
    <3> QED BY <2>3, <3>2
  <2>4. CASE e1.old # e1.new /\ e2.old # e2.new
    <3>1. added = <<e1>> \o <<e2>>
      BY <2>4, <1>7
    <3> HIDE DEF added
    <3>2. DOMAIN added = {1, 2} /\ added[1] = e1 /\ added[2] = e2
      BY <3>1, Pair
    <3> QED BY <2>4, <3>2, <1>6
  <2> QED BY <2>1, <2>2, <2>3, <2>4
<1> HIDE DEF added
<1>10. \A k \in DOMAIN added :
         /\ added[k].old = FieldOf(b.label[added[k].tx], added[k].field)
         /\ added[k].new = FieldOf(c.label[added[k].tx], added[k].field)
         /\ added[k].old # added[k].new
  BY <1>6, <1>9
<1>11. \A y \in Txs, field \in Fields :
         \/ FieldOf(c.label[y], field) = FieldOf(b.label[y], field)
         \/ \E k \in DOMAIN added : added[k].tx = y /\ added[k].field = field
  <2> SUFFICES ASSUME NEW y \in Txs, NEW field \in Fields,
                      FieldOf(c.label[y], field) # FieldOf(b.label[y], field)
               PROVE  \E k \in DOMAIN added : added[k].tx = y /\ added[k].field = field
    OBVIOUS
  <2>1. y = x
    BY <1>5
  <2>2. CASE field = "category"
    BY <2>1, <2>2, <1>6, <1>9
  <2>3. CASE field = "confidence"
    BY <2>1, <2>3, <1>6, <1>9
  <2> QED BY <2>2, <2>3 DEF Fields
<1>12. Explains(c)
  BY <1>1, <1>8, <1>9, <1>10, <1>11, GrownExplains
<1> QED BY <1>12 DEF c

LEMMA RuleExplains ==
  ASSUME NEW b \in Book, Explains(b), NEW rule \in Rules, NEW entries \in Orders(Changes(b, rule))
  PROVE  Explains(ByRule(b, rule, entries))
<1> DEFINE c == ByRule(b, rule, entries)
<1>1. /\ entries \in Seq(AuditEntry) /\ {entries[i] : i \in DOMAIN entries} = Changes(b, rule)
      /\ \A i, j \in DOMAIN entries : entries[i] = entries[j] => i = j
  BY OrdersTyped
<1>2. c \in Book
  BY <1>1, ByRuleTyped
<1>3. /\ c.audit = b.audit \o entries
      /\ \A x \in Txs : c.label[x] = IF x \in b.rows THEN rule.label[x] ELSE b.label[x]
  BY DEF ByRule, Book
<1>4. /\ b.rows \subseteq Txs
      /\ \A x \in Txs, field \in Fields : FieldOf(rule.label[x], field) = rule.label[x][field]
  <2>1. rule.label \in [Txs -> Labels] /\ None \notin Labels
    BY LedgerAssumption
  <2> QED BY <2>1, FieldTyped DEF Book, Maybe
<1> HIDE DEF c
<1>5. \A e : e \in Changes(b, rule) <=>
        \E x \in b.rows, field \in Fields :
          /\ e = [tx |-> x, field |-> field, old |-> FieldOf(b.label[x], field),
                  new |-> rule.label[x][field]]
          /\ e.old # e.new
  BY DEF Changes
<1>6. \A e \in Changes(b, rule) :
        /\ e.tx \in b.rows /\ e.field \in Fields
        /\ e = [tx |-> e.tx, field |-> e.field, old |-> FieldOf(b.label[e.tx], e.field),
                new |-> rule.label[e.tx][e.field]]
        /\ e.old = FieldOf(b.label[e.tx], e.field)
        /\ e.new = FieldOf(c.label[e.tx], e.field)
        /\ e.old # e.new
  BY <1>3, <1>4, <1>5
<1>7. \A k \in DOMAIN entries : entries[k] \in Changes(b, rule)
  BY <1>1
<1>8. \A j, k \in DOMAIN entries :
        entries[j].tx = entries[k].tx /\ entries[j].field = entries[k].field => j = k
  <2> SUFFICES ASSUME NEW j \in DOMAIN entries, NEW k \in DOMAIN entries,
                      entries[j].tx = entries[k].tx, entries[j].field = entries[k].field
               PROVE  j = k
    OBVIOUS
  <2>1. entries[j] = entries[k]
    BY <1>6, <1>7, Zenon
  <2> QED BY <1>1, <2>1
<1>9. \A x \in Txs, field \in Fields :
        \/ FieldOf(c.label[x], field) = FieldOf(b.label[x], field)
        \/ \E k \in DOMAIN entries : entries[k].tx = x /\ entries[k].field = field
  <2> SUFFICES ASSUME NEW x \in Txs, NEW field \in Fields,
                      FieldOf(c.label[x], field) # FieldOf(b.label[x], field)
               PROVE  \E k \in DOMAIN entries : entries[k].tx = x /\ entries[k].field = field
    OBVIOUS
  <2> DEFINE e == [tx |-> x, field |-> field, old |-> FieldOf(b.label[x], field),
                   new |-> rule.label[x][field]]
  <2>1. x \in b.rows /\ e.old # e.new
    BY <1>3, <1>4
  <2>2. e \in Changes(b, rule) /\ e.tx = x /\ e.field = field
    BY <1>5, <2>1
  <2> HIDE DEF e
  <2>3. PICK k \in DOMAIN entries : entries[k] = e
    BY <1>1, <2>2
  <2> QED BY <2>2, <2>3
<1>10. Explains(c)
  BY <1>1, <1>2, <1>3, <1>6, <1>7, <1>8, <1>9, GrownExplains
<1> QED BY <1>10 DEF c

(* How the requests move.                                                  *)

\* Where a request is that has nothing of memory in its copy yet.
Early == {"idle", "ingest", "rows", "ingestEvents", "classify", "event", "rule", "resolve",
          "copySeen"}

LEMMA FieldsCopied ==
  ASSUME NEW c \in Call
  PROVE  /\ \A p : [c EXCEPT !.at = p].at = p /\ [c EXCEPT !.at = p].copy = c.copy
         /\ \A p, rest : /\ [c EXCEPT !.todo = rest, !.at = p].at = p
                         /\ [c EXCEPT !.todo = rest, !.at = p].copy = c.copy
         /\ \A x, rest : /\ [c EXCEPT !.at = "event", !.tx = x, !.todo = rest].at = "event"
                         /\ [c EXCEPT !.at = "event", !.tx = x, !.todo = rest].copy = c.copy
         /\ \A i : /\ [c EXCEPT !.at = "rows", !.inserted = i].at = "rows"
                   /\ [c EXCEPT !.at = "rows", !.inserted = i].copy = c.copy
         /\ \A p, f : /\ [c EXCEPT !.at = p, !.file = f].at = p
                      /\ [c EXCEPT !.at = p, !.file = f].copy = c.copy
         /\ \A rest, f : /\ [c EXCEPT !.at = "classify", !.todo = rest, !.file = f].at = "classify"
                         /\ [c EXCEPT !.at = "classify", !.todo = rest, !.file = f].copy = c.copy
BY DEF Call

LEMMA CopiesCopied ==
  ASSUME NEW c \in Call
  PROVE  /\ \A s : /\ [c EXCEPT !.at = "copyBook", !.copy.seen = s].at = "copyBook"
                   /\ [c EXCEPT !.at = "copyBook", !.copy.seen = s].copy = [c.copy EXCEPT !.seen = s]
         /\ \A b : /\ [c EXCEPT !.at = "copyHistory", !.copy.book = b].at = "copyHistory"
                   /\ [c EXCEPT !.at = "copyHistory", !.copy.book = b].copy
                        = [c.copy EXCEPT !.book = b]
         /\ \A h : /\ [c EXCEPT !.at = "open", !.copy.history = h].at = "open"
                   /\ [c EXCEPT !.at = "open", !.copy.history = h].copy
                        = [c.copy EXCEPT !.history = h]
BY DEF Call

LEMMA MovedOne ==
  ASSUME TypedCalls, NEW r \in Requests, NEW c, Move(r, c)
  PROVE  calls'[r] = c /\ \A q \in Requests : q # r => calls'[q] = calls[q]
BY DEF TypedCalls, Move

LEMMA AfterFailureCopied ==
  ASSUME NEW r \in Requests, calls[r] \in Call, NEW rest
  PROVE  /\ AfterFailure(r, rest).at \in {"idle", "classify"}
         /\ AfterFailure(r, rest).copy \in {calls[r].copy, NewState}
<1>1. Idle.at = "idle" /\ Idle.copy = NewState
  BY DEF Idle
<1> QED BY <1>1, FieldsCopied DEF AfterFailure

LEMMA StartMoves ==
  ASSUME NEW r \in Requests, Start(r)
  PROVE  \E c : Move(r, c) /\ c.at \in Early /\ c.copy = NewState
<1>1. ASSUME NEW rows,
            Move(r, [Idle EXCEPT !.at = "ingest", !.kind = "ingest", !.todo = rows])
      PROVE  \E c : Move(r, c) /\ c.at \in Early /\ c.copy = NewState
  <2> DEFINE c == [Idle EXCEPT !.at = "ingest", !.kind = "ingest", !.todo = rows]
  <2>1. c.at = "ingest" /\ c.copy = NewState
    BY DEF Idle
  <2>2. Move(r, c)
    BY <1>1
  <2> HIDE DEF c
  <2> QED BY <2>1, <2>2 DEF Early
<1>2. ASSUME NEW rule,
            Move(r, [Idle EXCEPT !.at = "rule", !.kind = "rule", !.rule = rule])
      PROVE  \E c : Move(r, c) /\ c.at \in Early /\ c.copy = NewState
  <2> DEFINE c == [Idle EXCEPT !.at = "rule", !.kind = "rule", !.rule = rule]
  <2>1. c.at = "rule" /\ c.copy = NewState
    BY DEF Idle
  <2>2. Move(r, c)
    BY <1>2
  <2> HIDE DEF c
  <2> QED BY <2>1, <2>2 DEF Early
<1>3. ASSUME NEW rows,
            Move(r, [Idle EXCEPT !.at = "resolve", !.kind = "resolve", !.todo = rows])
      PROVE  \E c : Move(r, c) /\ c.at \in Early /\ c.copy = NewState
  <2> DEFINE c == [Idle EXCEPT !.at = "resolve", !.kind = "resolve", !.todo = rows]
  <2>1. c.at = "resolve" /\ c.copy = NewState
    BY DEF Idle
  <2>2. Move(r, c)
    BY <1>3
  <2> HIDE DEF c
  <2> QED BY <2>1, <2>2 DEF Early
<1>4. ASSUME NEW rows, NEW l, NEW strict, NEW kind,
            Move(r, [Idle EXCEPT !.at = "classify", !.kind = kind, !.todo = rows,
                             !.label = l, !.strict = strict])
      PROVE  \E c : Move(r, c) /\ c.at \in Early /\ c.copy = NewState
  <2> DEFINE c == [Idle EXCEPT !.at = "classify", !.kind = kind, !.todo = rows,
                             !.label = l, !.strict = strict]
  <2>1. c.at = "classify" /\ c.copy = NewState
    BY DEF Idle
  <2>2. Move(r, c)
    BY <1>4
  <2> HIDE DEF c
  <2> QED BY <2>1, <2>2 DEF Early
<1> QED BY <1>1, <1>2, <1>3, <1>4 DEF Start

\* What every step of a request does to where it is and to its copy.
LEMMA RequestMoves ==
  ASSUME TypedCalls, NEW r \in Requests, Request(r)
  PROVE  /\ \A q \in Requests : q # r => calls'[q] = calls[q]
         /\ \/ calls'[r].at \in Early /\ calls'[r].copy \in {calls[r].copy, NewState}
            \/ /\ CopySeen(r) /\ calls'[r].at = "copyBook"
               /\ calls'[r].copy = [calls[r].copy EXCEPT !.seen = seen]
            \/ /\ CopyBook(r) /\ calls'[r].at = "copyHistory"
               /\ calls'[r].copy = [calls[r].copy EXCEPT !.book = book]
            \/ /\ CopyHistory(r) /\ calls'[r].at = "open"
               /\ calls'[r].copy = [calls[r].copy EXCEPT !.history = history]
            \/ OpenTmp(r) /\ calls'[r].at = "write" /\ calls'[r].copy = calls[r].copy
            \/ WriteTmp(r) /\ calls'[r].at = "rename" /\ calls'[r].copy = calls[r].copy
<1>0. calls[r] \in Call
  BY DEF TypedCalls
<1>a. /\ Idle.at \in Early /\ Idle.copy = NewState
      /\ \A rest : /\ AfterFailure(r, rest).at \in Early
                   /\ AfterFailure(r, rest).copy \in {calls[r].copy, NewState}
  BY <1>0, AfterFailureCopied DEF Idle, Early
<1>b. /\ Early \subseteq Points /\ "rows" \in Early /\ "ingestEvents" \in Early /\ "copySeen" \in Early
      /\ "event" \in Early /\ "classify" \in Early
  BY DEF Early, Points
<1>1. CASE \E c : Move(r, c) /\ c.at \in Early /\ c.copy \in {calls[r].copy, NewState}
  BY <1>1, MovedOne
<1>2. CASE CopySeen(r)
  <2> DEFINE c == [calls[r] EXCEPT !.at = "copyBook", !.copy.seen = seen]
  <2>1. c.at = "copyBook" /\ c.copy = [calls[r].copy EXCEPT !.seen = seen]
    BY <1>0 DEF Call
  <2>2. Move(r, c)
    BY <1>2 DEF CopySeen
  <2> HIDE DEF c
  <2> QED BY <2>1, <2>2, <1>2, MovedOne
<1>3. CASE CopyBook(r)
  <2> DEFINE c == [calls[r] EXCEPT !.at = "copyHistory", !.copy.book = book]
  <2>1. c.at = "copyHistory" /\ c.copy = [calls[r].copy EXCEPT !.book = book]
    BY <1>0 DEF Call
  <2>2. Move(r, c)
    BY <1>3 DEF CopyBook
  <2> HIDE DEF c
  <2> QED BY <2>1, <2>2, <1>3, MovedOne
<1>4. CASE CopyHistory(r)
  <2> DEFINE c == [calls[r] EXCEPT !.at = "open", !.copy.history = history]
  <2>1. c.at = "open" /\ c.copy = [calls[r].copy EXCEPT !.history = history]
    BY <1>0 DEF Call
  <2>2. Move(r, c)
    BY <1>4 DEF CopyHistory
  <2> HIDE DEF c
  <2> QED BY <2>1, <2>2, <1>4, MovedOne
<1>5. CASE OpenTmp(r)
  <2>0. PICK f : Move(r, [calls[r] EXCEPT !.at = "write", !.file = f])
    BY <1>5 DEF OpenTmp
  <2> DEFINE c == [calls[r] EXCEPT !.at = "write", !.file = f]
  <2>1. c.at = "write" /\ c.copy = calls[r].copy
    BY <1>0 DEF Call
  <2>2. Move(r, c)
    BY <2>0
  <2> HIDE DEF c
  <2> QED BY <2>1, <2>2, <1>5, MovedOne
<1>6. CASE WriteTmp(r)
  <2>1. CASE Move(r, [calls[r] EXCEPT !.at = "rename", !.file = None])
    <3> DEFINE c == [calls[r] EXCEPT !.at = "rename", !.file = None]
    <3>1. c.at = "rename" /\ c.copy = calls[r].copy
      BY <1>0 DEF Call
    <3>2. Move(r, c)
      BY <2>1
    <3> HIDE DEF c
    <3> QED BY <3>1, <3>2, <1>6, MovedOne
  <2>2. CASE Move(r, AfterFailure(r, calls[r].todo))
    BY <1>1, <1>a, <2>2
  <2> QED BY <1>6, <2>1, <2>2 DEF WriteTmp
<1>7. CASE Start(r)
  BY <1>1, <1>7, StartMoves
<1>8. CASE IngestRows(r)
  <2>1. ASSUME Move(r, [calls[r] EXCEPT !.at = "rows", !.inserted = calls[r].todo \ seen])
        PROVE  \E c : Move(r, c) /\ c.at \in Early /\ c.copy \in {calls[r].copy, NewState}
    <3> DEFINE c == [calls[r] EXCEPT !.at = "rows", !.inserted = calls[r].todo \ seen]
    <3>1. c.at = "rows" /\ c.copy = calls[r].copy
      BY <1>0 DEF Call
    <3>2. Move(r, c)
      BY <2>1
    <3> HIDE DEF c
    <3> QED BY <3>1, <3>2, <1>b
  <2> QED BY <1>1, <1>8, <2>1, <1>a DEF IngestRows
<1>9. CASE IngestBook(r)
  <2>1. ASSUME Move(r, [calls[r] EXCEPT !.at = "ingestEvents"])
        PROVE  \E c : Move(r, c) /\ c.at \in Early /\ c.copy \in {calls[r].copy, NewState}
    <3> DEFINE c == [calls[r] EXCEPT !.at = "ingestEvents"]
    <3>1. c.at = "ingestEvents" /\ c.copy = calls[r].copy
      BY <1>0 DEF Call
    <3>2. Move(r, c)
      BY <2>1
    <3> HIDE DEF c
    <3> QED BY <3>1, <3>2, <1>b
  <2> QED BY <1>1, <1>9, <2>1, <1>a DEF IngestBook, Goto
<1>10. CASE IngestEvent(r)
  <2>1. PICK x, p : /\ p \in {"copySeen", "ingestEvents"}
                    /\ Move(r, [calls[r] EXCEPT !.todo = calls[r].todo \ {x}, !.at = p])
    BY <1>10 DEF IngestEvent
  <2> DEFINE c == [calls[r] EXCEPT !.todo = calls[r].todo \ {x}, !.at = p]
  <2>2. c.at = p /\ c.copy = calls[r].copy
    BY <1>0 DEF Call
  <2>3. Move(r, c)
    BY <2>1
  <2> HIDE DEF c
  <2> QED BY <1>b, <1>1, <2>1, <2>2, <2>3
<1>11. CASE Classify(r)
  <2>1. ASSUME NEW x, Move(r, [calls[r] EXCEPT !.at = "event", !.tx = x, !.todo = calls[r].todo \ {x}])
        PROVE  \E c : Move(r, c) /\ c.at \in Early /\ c.copy \in {calls[r].copy, NewState}
    <3> DEFINE c == [calls[r] EXCEPT !.at = "event", !.tx = x, !.todo = calls[r].todo \ {x}]
    <3>1. c.at = "event" /\ c.copy = calls[r].copy
      BY <1>0 DEF Call
    <3>2. Move(r, c)
      BY <2>1
    <3> HIDE DEF c
    <3> QED BY <3>1, <3>2, <1>b
  <2> QED BY <1>1, <1>11, <2>1, <1>a DEF Classify
<1>12. CASE ClassifyEvent(r)
  <2>1. ASSUME Move(r, [calls[r] EXCEPT !.at = "copySeen"])
        PROVE  \E c : Move(r, c) /\ c.at \in Early /\ c.copy \in {calls[r].copy, NewState}
    <3> DEFINE c == [calls[r] EXCEPT !.at = "copySeen"]
    <3>1. c.at = "copySeen" /\ c.copy = calls[r].copy
      BY <1>0 DEF Call
    <3>2. Move(r, c)
      BY <2>1
    <3> HIDE DEF c
    <3> QED BY <3>1, <3>2, <1>b
  <2> QED BY <1>1, <1>12, <2>1, <1>a DEF ClassifyEvent, Goto
<1>13. CASE ClassifyByRule(r)
  <2>1. ASSUME Move(r, [calls[r] EXCEPT !.at = "copySeen"])
        PROVE  \E c : Move(r, c) /\ c.at \in Early /\ c.copy \in {calls[r].copy, NewState}
    <3> DEFINE c == [calls[r] EXCEPT !.at = "copySeen"]
    <3>1. c.at = "copySeen" /\ c.copy = calls[r].copy
      BY <1>0 DEF Call
    <3>2. Move(r, c)
      BY <2>1
    <3> HIDE DEF c
    <3> QED BY <3>1, <3>2, <1>b
  <2> QED BY <1>1, <1>13, <2>1, <1>a DEF ClassifyByRule, Goto
<1>14. CASE Resolve(r)
  BY <1>a, <1>1, <1>14 DEF Resolve
<1>15. CASE RenameTmp(r)
  <2>1. ASSUME Move(r, [calls[r] EXCEPT !.at = "classify"])
        PROVE  \E c : Move(r, c) /\ c.at \in Early /\ c.copy \in {calls[r].copy, NewState}
    <3> DEFINE c == [calls[r] EXCEPT !.at = "classify"]
    <3>1. c.at = "classify" /\ c.copy = calls[r].copy
      BY <1>0 DEF Call
    <3>2. Move(r, c)
      BY <2>1
    <3> HIDE DEF c
    <3> QED BY <3>1, <3>2, <1>b
  <2> QED BY <1>1, <1>15, <2>1, <1>a DEF RenameTmp
<1>16. CASE SaveRefused(r)
  BY <1>1, <1>16, <1>a DEF SaveRefused
<1> QED BY <1>2, <1>3, <1>4, <1>5, <1>6, <1>7, <1>8, <1>9, <1>10, <1>11, <1>12, <1>13, <1>14, <1>15,
           <1>16 DEF Request

-----------------------------------------------------------------------------
(* The audit trail of every book there is: in memory, on its way to a file, *)
(* and in the files.                                                       *)
BooksExplain ==
  /\ Explains(book)
  /\ \A r \in Requests : Explains(calls[r].copy.book)
  /\ \A f \in Files : Whole(files[f]) => Explains(files[f].state.book)

AuditInv == TypeInv /\ BooksExplain

\* Rows and flags are not what the audit tells.
LEMMA RestExplains ==
  ASSUME NEW b \in Book, Explains(b)
  PROVE  /\ \A rows : Explains([b EXCEPT !.rows = rows])
         /\ \A flags : Explains([b EXCEPT !.flags = flags])
         /\ \A x : Explains(Flagged(b, x))
<1>1. ASSUME NEW rows PROVE Explains([b EXCEPT !.rows = rows])
  <2> DEFINE c == [b EXCEPT !.rows = rows]
  <2>1. c.audit = b.audit /\ c.label = b.label
    BY DEF Book
  <2> HIDE DEF c
  <2>2. Explains(c)
    BY <2>1, SameExplains
  <2> QED BY <2>2 DEF c
<1>2. ASSUME NEW flags PROVE Explains([b EXCEPT !.flags = flags])
  <2> DEFINE c == [b EXCEPT !.flags = flags]
  <2>1. c.audit = b.audit /\ c.label = b.label
    BY DEF Book
  <2> HIDE DEF c
  <2>2. Explains(c)
    BY <2>1, SameExplains
  <2> QED BY <2>2 DEF c
<1>3. ASSUME NEW x PROVE Explains(Flagged(b, x))
  <2>1. Flagged(b, x).audit = b.audit /\ Flagged(b, x).label = b.label
    BY DEF Flagged, Book
  <2> QED BY <2>1, SameExplains
<1> QED BY <1>1, <1>2, <1>3

LEMMA BookExplains ==
  ASSUME TypeInv, Explains(book), NEW r \in Requests, Request(r)
  PROVE  Explains(book')
<1>0. book \in Book /\ calls[r] \in Call /\ Carries(calls[r])
  BY MemoryTyped DEF TypeInv, TypedCalls, LedgerTypeOK
<1>1. CASE IngestBook(r)
  <2>1. book' = [book EXCEPT !.rows = book.rows \union calls[r].inserted]
    BY <1>1 DEF IngestBook
  <2> QED BY <1>0, <2>1, RestExplains
<1>2. CASE Classify(r)
  <2>1. calls[r].label \in Labels /\ calls[r].todo \subseteq Txs
    BY <1>0, <1>2 DEF Classify, At, Carries, Call
  <2>2. PICK x \in calls[r].todo :
          \/ book' = Flagged(Relabelled(book, x, calls[r].label), x)
          \/ book' = Relabelled(book, x, calls[r].label)
          \/ book' = book
    BY <1>2 DEF Classify
  <2>3. /\ Relabelled(book, x, calls[r].label) \in Book
        /\ Explains(Relabelled(book, x, calls[r].label))
    BY <1>0, <2>1, <2>2, RelabelledTyped, RelabelledExplains
  <2> QED BY <2>2, <2>3, RestExplains
<1>3. CASE ClassifyByRule(r)
  <2>1. calls[r].rule \in Rules
    BY <1>0, <1>3 DEF ClassifyByRule, At, Carries
  <2>2. CASE \E entries \in Orders(Changes(book, calls[r].rule)) :
               book' = ByRule(book, calls[r].rule, entries)
    BY <1>0, <2>1, <2>2, RuleExplains
  <2>3. CASE \E flags : book' = [book EXCEPT !.flags = flags]
    BY <1>0, <2>3, RestExplains
  <2> QED BY <1>3, <2>2, <2>3 DEF ClassifyByRule
<1>4. CASE Resolve(r)
  <2>1. PICK flags : book' = [book EXCEPT !.flags = flags]
    BY <1>4 DEF Resolve
  <2> QED BY <1>0, <2>1, RestExplains
<1>5. CASE UNCHANGED book
  BY <1>5
<1> QED BY <1>1, <1>2, <1>3, <1>4, <1>5
        DEF Request, Start, IngestRows, IngestEvent, ClassifyEvent, CopySeen, CopyBook, CopyHistory,
            OpenTmp, WriteTmp, RenameTmp, SaveRefused, memory

\* The files of a step are those before it, but for one that is emptied, torn or given a copy.
LEMMA FilesMove ==
  ASSUME TypeInv, NEW r \in Requests, Request(r)
  PROVE  \A f \in Files :
           \/ files'[f] = files[f]
           \/ ~Whole(files'[f])
           \/ files'[f] = Full(calls[r].copy)
<1>0. files \in [Files -> Content]
  BY DEF TypeInv, LedgerTypeOK
<1>1. ~Whole(Blank) /\ ~Whole(Torn)
  BY DEF Whole, Blank, Torn
<1>2. CASE OpenTmp(r)
  <2>1. PICK g : files' = [files EXCEPT ![g] = Blank]
    BY <1>2 DEF OpenTmp
  <2> QED BY <1>0, <1>1, <2>1
<1>3. CASE WriteTmp(r)
  <2>1. PICK g, content : /\ files' = [files EXCEPT ![g] = content]
                          /\ content \in {Full(calls[r].copy), Torn}
    BY <1>3 DEF WriteTmp
  <2> QED BY <1>0, <1>1, <2>1
<1>4. CASE UNCHANGED files
  BY <1>4
<1> QED BY <1>2, <1>3, <1>4
        DEF Request, Start, IngestRows, IngestBook, IngestEvent, Classify, ClassifyEvent,
            ClassifyByRule, Resolve, CopySeen, CopyBook, CopyHistory, RenameTmp,
            SaveRefused, disk

LEMMA StepExplains ==
  ASSUME AuditInv, NEW r \in Requests, Request(r)
  PROVE  BooksExplain'
<1>0. TypeInv /\ TypedCalls /\ calls[r].copy \in State
  BY DEF AuditInv, TypeInv, TypedCalls, Call
<1>1. Explains(book')
  BY <1>0, BookExplains DEF AuditInv, BooksExplain
<1>2. \A q \in Requests : Explains(calls'[q].copy.book)
  <2>1. \A q \in Requests : q # r => calls'[q] = calls[q]
    BY <1>0, RequestMoves
  <2>2. \/ calls'[r].copy \in {calls[r].copy, NewState}
        \/ calls'[r].copy = [calls[r].copy EXCEPT !.seen = seen]
        \/ calls'[r].copy = [calls[r].copy EXCEPT !.book = book]
        \/ calls'[r].copy = [calls[r].copy EXCEPT !.history = history]
    BY <1>0, RequestMoves
  <2>3. calls'[r].copy.book \in {calls[r].copy.book, NewBook, book}
    BY <1>0, <2>2 DEF State, NewState
  <2>4. Explains(calls'[r].copy.book)
    BY <2>3, NewBookExplains DEF AuditInv, BooksExplain
  <2> QED BY <2>1, <2>4 DEF AuditInv, BooksExplain
<1>3. \A f \in Files : Whole(files'[f]) => Explains(files'[f].state.book)
  <2>1. Full(calls[r].copy).state = calls[r].copy
    BY DEF Full
  <2> QED BY <1>0, <2>1, FilesMove DEF AuditInv, BooksExplain
<1> QED BY <1>1, <1>2, <1>3 DEF BooksExplain, Whole

\* In every run, whatever the requests, crashes and I/O errors, the audit log of every book,
\* saved ones included, tells how each label came to be (apply_classification_action,
\* classify_ingested, snapshot_persisted_state, from_manifest_str).
THEOREM AuditTells == Spec => []AuditExplains
<1>1. Init => BooksExplain
  <2>1. ~Whole(Blank) /\ Idle.copy.book = NewBook
    BY DEF Whole, Blank, Idle, NewState
  <2> QED BY <2>1, NewBookExplains DEF Init, BooksExplain
<1>2. TypeInv /\ BooksExplain /\ [Next]_vars => BooksExplain'
  <2> SUFFICES ASSUME AuditInv, [Next]_vars PROVE BooksExplain'
    BY DEF AuditInv
  <2>1. ASSUME NEW r \in Requests, Request(r) PROVE BooksExplain'
    BY <2>1, StepExplains
  <2>2. CASE Crash
    <3>1. Idle.copy.book = NewBook
      BY DEF Idle, NewState
    <3>2. UNCHANGED files /\ book' = NewBook /\ calls' = [r \in Requests |-> Idle]
      BY <2>2 DEF Crash, disk
    <3> QED BY <3>1, <3>2, NewBookExplains DEF BooksExplain, AuditInv
  <2>3. CASE Restart
    <3>1. UNCHANGED <<files, calls>>
      BY <2>3 DEF Restart, disk
    <3>2. Explains(book')
      <4>1. Full(NewState).state.book = NewBook
        BY DEF Full, NewState
      <4>2. \/ book' = NewBook
            \/ sideName \in Files /\ Whole(files[sideName]) /\ book' = files[sideName].state.book
            \/ book' = book
        BY <2>3, <4>1 DEF Restart, memory, AuditInv, TypeInv, LedgerTypeOK, Maybe, Whole
      <4> QED BY <4>2, NewBookExplains DEF AuditInv, BooksExplain
    <3> QED BY <3>1, <3>2 DEF BooksExplain, AuditInv
  <2>4. CASE UNCHANGED vars
    BY <2>4 DEF vars, memory, disk, AuditInv, BooksExplain
  <2> QED BY <2>1, <2>2, <2>3, <2>4 DEF Next
<1>3. BooksExplain => AuditExplains
  BY DEF BooksExplain, AuditExplains, Books
<1>4. Spec => []TypeInv
  BY InitTyped, NextTyped, PTL DEF Spec
<1> QED BY <1>1, <1>2, <1>3, <1>4, PTL DEF Spec

-----------------------------------------------------------------------------
(* What a request that succeeded left behind stays in the sidecar.         *)

LEMMA PrefixMeans ==
  ASSUME NEW S, NEW s \in Seq(S), NEW t \in Seq(S)
  PROVE  IsPrefix(s, t) <=> Len(s) <= Len(t) /\ \A i \in 1 .. Len(s) : s[i] = t[i]
<1>1. SubSeq(s, 1, Len(s)) = [i \in 1 .. Len(s) |-> s[i]]
  OBVIOUS
<1>2. Len(s) <= Len(t) => SubSeq(t, 1, Len(s)) = [i \in 1 .. Len(s) |-> t[i]]
  OBVIOUS
<1> QED BY <1>1, <1>2 DEF IsPrefix

LEMMA PrefixGoesOn ==
  ASSUME NEW S, NEW s \in Seq(S), NEW t \in Seq(S), NEW u \in Seq(S),
         IsPrefix(s, t), IsPrefix(t, u)
  PROVE  IsPrefix(s, u)
<1>1. Len(s) \in Nat /\ Len(t) \in Nat /\ Len(u) \in Nat
  OBVIOUS
<1>2. Len(s) <= Len(t) /\ \A i \in 1 .. Len(s) : s[i] = t[i]
  BY PrefixMeans
<1>3. Len(t) <= Len(u) /\ \A i \in 1 .. Len(t) : t[i] = u[i]
  BY PrefixMeans
<1>4. Len(s) <= Len(u) /\ \A i \in 1 .. Len(s) : s[i] = u[i]
  BY <1>1, <1>2, <1>3
<1> QED BY <1>4, PrefixMeans

LEMMA PrefixGrows ==
  ASSUME NEW S, NEW s \in Seq(S)
  PROVE  /\ IsPrefix(s, s)
         /\ \A t \in Seq(S) : IsPrefix(s, s \o t)
         /\ \A e \in S : IsPrefix(s, Append(s, e))
<1>1. IsPrefix(s, s)
  BY PrefixMeans
<1>2. ASSUME NEW t \in Seq(S) PROVE IsPrefix(s, s \o t)
  <2>1. s \o t \in Seq(S) /\ Len(s) <= Len(s \o t) /\ \A i \in 1 .. Len(s) : s[i] = (s \o t)[i]
    OBVIOUS
  <2> QED BY <2>1, PrefixMeans
<1>3. ASSUME NEW e \in S PROVE IsPrefix(s, Append(s, e))
  <2>1. /\ Append(s, e) \in Seq(S) /\ Len(s) <= Len(Append(s, e))
        /\ \A i \in 1 .. Len(s) : s[i] = Append(s, e)[i]
    OBVIOUS
  <2> QED BY <2>1, PrefixMeans
<1> QED BY <1>1, <1>2, <1>3

\* Nothing of the older state is lost or reordered in the newer one.
KeptIn(s, t) ==
  /\ s.seen \subseteq t.seen
  /\ s.book.rows \subseteq t.book.rows
  /\ IsPrefix(s.book.audit, t.book.audit)
  /\ IsPrefix(s.history.events, t.history.events)
  /\ \A x \in Txs : FlagKept(s.book.flags[x], t.book.flags[x])

LEMMA KeptTransitive ==
  /\ \A s \in State : KeptIn(s, s)
  /\ \A s, t, u \in State : KeptIn(s, t) /\ KeptIn(t, u) => KeptIn(s, u)
<1>1. \A s \in State : s.book.audit \in Seq(AuditEntry) /\ s.history.events \in Seq(Event)
  BY DEF State, Book, History
<1>2. ASSUME NEW s \in State PROVE KeptIn(s, s)
  <2>1. \A x \in Txs : FlagKept(s.book.flags[x], s.book.flags[x])
    BY DEF State, Book, FlagKept
  <2> QED BY <1>1, <2>1, PrefixGrows DEF KeptIn
<1>3. ASSUME NEW s \in State, NEW t \in State, NEW u \in State, KeptIn(s, t), KeptIn(t, u)
      PROVE  KeptIn(s, u)
  <2>1. IsPrefix(s.book.audit, u.book.audit)
    BY <1>1, <1>3, PrefixGoesOn DEF KeptIn
  <2>2. IsPrefix(s.history.events, u.history.events)
    BY <1>1, <1>3, PrefixGoesOn DEF KeptIn
  <2>3. ASSUME NEW x \in Txs PROVE FlagKept(s.book.flags[x], u.book.flags[x])
    <3>1. FlagKept(s.book.flags[x], t.book.flags[x]) /\ FlagKept(t.book.flags[x], u.book.flags[x])
      BY <1>3 DEF KeptIn
    <3>2. /\ s.book.flags[x].resolved \in Nat /\ t.book.flags[x].resolved \in Nat
          /\ u.book.flags[x].resolved \in Nat
      BY DEF State, Book
    <3> QED BY <3>1, <3>2 DEF FlagKept
  <2> QED BY <1>3, <2>1, <2>2, <2>3 DEF KeptIn
<1> QED BY <1>2, <1>3

\* A copy is what memory holds as far as it was taken, and the file then is the copy.
Faithful ==
  \A r \in Requests :
    /\ calls[r].at \in {"copyBook", "copyHistory", "open", "write"} => calls[r].copy.seen = seen
    /\ calls[r].at \in {"copyHistory", "open", "write"} => calls[r].copy.book = book
    /\ calls[r].at \in {"open", "write"} => calls[r].copy.history = history
    /\ calls[r].at = "rename" => files[tmpName] = Full(Memory)

Durable ==
  /\ KeptIn(acked, Saved.state)
  /\ phase = "up" => KeptIn(Saved.state, Memory)
  /\ phase # "up" => \A r \in Requests : calls[r].at = "idle"
  /\ Faithful

DurableInv == SerialInv /\ TypeInv /\ (transport = "stdio" => Durable)

LEMMA SavedTyped ==
  /\ TypeInv => /\ Saved \in Content /\ Saved.state \in State
                /\ Memory \in State /\ acked \in State
  /\ TypeInv' => Saved'.state \in State /\ (Memory \in State)' /\ acked' \in State
BY NewStateTyped, ContentsTyped DEF TypeInv, LedgerTypeOK, Saved, Content, Maybe

\* A request opens review flags, or resolves those that are open and counts it.
LEMMA FlagsGrow ==
  ASSUME TypeInv, NEW r \in Requests, Request(r), NEW x \in Txs
  PROVE  FlagKept(book.flags[x], book'.flags[x])
<1>0. /\ book \in Book /\ calls[r] \in Call
      /\ book.flags[x] \in [open: BOOLEAN, resolved: Nat]
  BY MemoryTyped DEF TypeInv, TypedCalls, LedgerTypeOK, Book
<1>1. CASE book'.flags = book.flags
  BY <1>0, <1>1 DEF FlagKept
<1>2. CASE book'.flags[x] = [book.flags[x] EXCEPT !.open = TRUE]
  BY <1>0, <1>2 DEF FlagKept
<1>3. CASE /\ book.flags[x].open
           /\ book'.flags[x] = [open |-> FALSE, resolved |-> book.flags[x].resolved + 1]
  BY <1>0, <1>3 DEF FlagKept
<1>4. CASE IngestBook(r)
  BY <1>0, <1>1, <1>4 DEF IngestBook, Book
<1>5. CASE Classify(r)
  <2>1. PICK y \in Txs :
          \/ book' = Flagged(Relabelled(book, y, calls[r].label), y)
          \/ book' = Relabelled(book, y, calls[r].label)
          \/ book' = book
    BY <1>0, <1>5 DEF Classify, Call
  <2> DEFINE l == Relabelled(book, y, calls[r].label)
  <2>2. l.flags = book.flags /\ l.flags \in [Txs -> [open: BOOLEAN, resolved: Nat]]
    BY <1>0 DEF Relabelled, Book
  <2>3. DOMAIN l = DOMAIN book
    BY <1>0 DEF Relabelled, Book
  <2> HIDE DEF l
  <2>4. Flagged(l, y).flags = [l.flags EXCEPT ![y] = [l.flags[y] EXCEPT !.open = TRUE]]
    BY <1>0, <2>2, <2>3 DEF Flagged, Book
  <2>5. \/ Flagged(l, y).flags[x] = book.flags[x]
        \/ Flagged(l, y).flags[x] = [book.flags[x] EXCEPT !.open = TRUE]
    BY <2>2, <2>4
  <2> USE DEF l
  <2>6. \/ book'.flags[x] = book.flags[x]
        \/ book'.flags[x] = [book.flags[x] EXCEPT !.open = TRUE]
    BY <2>1, <2>2, <2>5
  <2> QED BY <1>0, <1>2, <2>6 DEF FlagKept
<1>6. CASE ClassifyByRule(r)
  <2>1. \/ \E entries : book' = ByRule(book, calls[r].rule, entries)
        \/ \E before : book' = [book EXCEPT !.flags = [y \in Txs |->
                         IF y \in before THEN [book.flags[y] EXCEPT !.open = TRUE]
                                         ELSE book.flags[y]]]
    BY <1>6 DEF ClassifyByRule
  <2>2. \/ book'.flags[x] = book.flags[x]
        \/ book'.flags[x] = [book.flags[x] EXCEPT !.open = TRUE]
    <3>1. ASSUME NEW S, book'.flags = [y \in Txs |->
                   IF y \in S THEN [book.flags[y] EXCEPT !.open = TRUE] ELSE book.flags[y]]
          PROVE  \/ book'.flags[x] = book.flags[x]
                 \/ book'.flags[x] = [book.flags[x] EXCEPT !.open = TRUE]
      BY <3>1
    <3>2. ASSUME NEW entries, book' = ByRule(book, calls[r].rule, entries)
          PROVE  book'.flags = [y \in Txs |->
                   IF y \in book.rows \intersect calls[r].rule.flagged
                   THEN [book.flags[y] EXCEPT !.open = TRUE] ELSE book.flags[y]]
      BY <1>0, <3>2 DEF ByRule, Book
    <3>3. ASSUME NEW before, book' = [book EXCEPT !.flags = [y \in Txs |->
                   IF y \in before THEN [book.flags[y] EXCEPT !.open = TRUE]
                                   ELSE book.flags[y]]]
          PROVE  book'.flags = [y \in Txs |->
                   IF y \in before THEN [book.flags[y] EXCEPT !.open = TRUE] ELSE book.flags[y]]
      BY <1>0, <3>3 DEF Book
    <3> QED BY <2>1, <3>1, <3>2, <3>3
  <2> QED BY <1>0, <1>2, <2>2 DEF FlagKept
<1>7. CASE Resolve(r)
  <2>1. book'.flags[x] = IF x \in calls[r].todo /\ book.flags[x].open
                         THEN [open |-> FALSE, resolved |-> book.flags[x].resolved + 1]
                         ELSE book.flags[x]
    BY <1>0, <1>7 DEF Resolve, Book
  <2> QED BY <1>0, <1>3, <2>1 DEF FlagKept
<1>8. CASE UNCHANGED book
  BY <1>1, <1>8
<1> QED BY <1>4, <1>5, <1>6, <1>7, <1>8
        DEF Request, Start, IngestRows, IngestEvent, ClassifyEvent, CopySeen, CopyBook, CopyHistory,
            OpenTmp, WriteTmp, RenameTmp, SaveRefused, memory

\* A request only adds to memory.
LEMMA MemoryGrows ==
  ASSUME TypeInv, TypeInv', NEW r \in Requests, Request(r)
  PROVE  KeptIn(Memory, Memory')
<1>0. /\ book \in Book /\ book' \in Book /\ history \in History /\ Memory \in State
      /\ calls[r] \in Call /\ Carries(calls[r])
  BY MemoryTyped DEF TypeInv, TypedCalls, LedgerTypeOK
<1>a. /\ book.audit \in Seq(AuditEntry) /\ history.events \in Seq(Event)
      /\ IsPrefix(book.audit, book.audit) /\ IsPrefix(history.events, history.events)
  BY <1>0, PrefixGrows DEF Book, History
<1>b. KeptIn(Memory, Memory') <=>
        /\ seen \subseteq seen' /\ book.rows \subseteq book'.rows
        /\ IsPrefix(book.audit, book'.audit) /\ IsPrefix(history.events, history'.events)
        /\ \A x \in Txs : FlagKept(book.flags[x], book'.flags[x])
  BY DEF KeptIn, Memory
<1>1. seen \subseteq seen'
  BY DEF Request, Start, IngestRows, IngestBook, IngestEvent, Classify, ClassifyEvent,
         ClassifyByRule, Resolve, CopySeen, CopyBook, CopyHistory, OpenTmp, WriteTmp, RenameTmp,
         SaveRefused,
         memory
<1>2. IsPrefix(history.events, history'.events)
  <2>1. ASSUME NEW type \in EventTypes, NEW x \in Txs
        PROVE  IsPrefix(history.events, Appended(history, type, x).events)
    <3>1. [sequence |-> history.last + 1, type |-> type, tx |-> x] \in Event
      BY <1>0 DEF History, Event
    <3>2. Appended(history, type, x).events
            = Append(history.events, [sequence |-> history.last + 1, type |-> type, tx |-> x])
      BY DEF Appended
    <3> QED BY <1>a, <3>1, <3>2, PrefixGrows
  <2>2. CASE IngestEvent(r)
    <3>1. \E x \in Txs : history' = Appended(history, "ingest", x)
      BY <1>0, <2>2 DEF IngestEvent, Call
    <3> QED BY <2>1, <3>1 DEF EventTypes
  <2>3. CASE ClassifyEvent(r)
    <3>1. calls[r].tx \in Txs
      BY <1>0, <2>3 DEF ClassifyEvent, At, Carries
    <3> QED BY <1>a, <2>1, <2>3, <3>1 DEF ClassifyEvent
  <2>4. CASE UNCHANGED history
    BY <1>a, <2>4
  <2> QED BY <2>2, <2>3, <2>4
          DEF Request, Start, IngestRows, IngestBook, Classify, ClassifyByRule, Resolve,
              CopySeen, CopyBook, CopyHistory, OpenTmp, WriteTmp, RenameTmp, SaveRefused, memory
<1>3. book.rows \subseteq book'.rows /\ IsPrefix(book.audit, book'.audit)
  <2>1. CASE IngestBook(r)
    <3>1. book' = [book EXCEPT !.rows = book.rows \union calls[r].inserted]
      BY <2>1 DEF IngestBook
    <3> QED BY <1>0, <1>a, <3>1 DEF Book
  <2>2. CASE Classify(r)
    <3>1. PICK x \in Txs :
            \/ book' = Flagged(Relabelled(book, x, calls[r].label), x)
            \/ book' = Relabelled(book, x, calls[r].label)
            \/ book' = book
      BY <1>0, <2>2 DEF Classify, Call
    <3> DEFINE l == Relabelled(book, x, calls[r].label)
               s1 == AuditOf(x, "category", book.label[x], calls[r].label)
               s2 == AuditOf(x, "confidence", book.label[x], calls[r].label)
    <3>2. calls[r].label \in Labels /\ book.label[x] \in Maybe(Labels)
      BY <1>0, <2>2 DEF Classify, At, Carries, Book
    <3>3. l \in Book /\ s1 \in Seq(AuditEntry) /\ s2 \in Seq(AuditEntry)
      BY <1>0, <3>2, RelabelledTyped, AuditTyped DEF Fields
    <3>4. l.rows = book.rows /\ l.audit = book.audit \o s1 \o s2
      BY <1>0 DEF Relabelled, Book
    <3>5. Flagged(l, x).rows = l.rows /\ Flagged(l, x).audit = l.audit
      <4> HIDE DEF l
      <4> QED BY <3>3 DEF Flagged, Book
    <3>6. IsPrefix(book.audit, l.audit)
      <4> HIDE DEF l, s1, s2
      <4> DEFINE added == s1 \o s2
      <4>1. added \in Seq(AuditEntry) /\ l.audit = book.audit \o added
        BY <1>a, <3>3, <3>4, JoinedTwice
      <4> HIDE DEF added
      <4> QED BY <1>a, <4>1, PrefixGrows
    <3> HIDE DEF l, s1, s2
    <3>7. book' \in {Flagged(l, x), l, book}
      BY <3>1 DEF l
    <3> QED BY <1>a, <3>4, <3>5, <3>6, <3>7
  <2>3. CASE ClassifyByRule(r)
    <3>1. calls[r].rule \in Rules
      BY <1>0, <2>3 DEF ClassifyByRule, At, Carries
    <3>2. CASE \E entries \in Orders(Changes(book, calls[r].rule)) :
                 book' = ByRule(book, calls[r].rule, entries)
      <4>1. PICK entries \in Orders(Changes(book, calls[r].rule)) :
                 book' = ByRule(book, calls[r].rule, entries)
        BY <3>2
      <4>2. entries \in Seq(AuditEntry)
        BY <1>0, <3>1, OrdersTyped
      <4>3. book'.rows = book.rows /\ book'.audit = book.audit \o entries
        BY <1>0, <4>1 DEF ByRule, Book
      <4> QED BY <1>a, <4>2, <4>3, PrefixGrows
    <3>3. CASE \E flags : book' = [book EXCEPT !.flags = flags]
      BY <1>0, <1>a, <3>3 DEF Book
    <3> QED BY <2>3, <3>2, <3>3 DEF ClassifyByRule
  <2>4. CASE Resolve(r)
    <3>1. PICK flags : book' = [book EXCEPT !.flags = flags]
      BY <2>4 DEF Resolve
    <3> QED BY <1>0, <1>a, <3>1 DEF Book
  <2>5. CASE UNCHANGED book
    BY <1>a, <2>5
  <2> QED BY <2>1, <2>2, <2>3, <2>4, <2>5
          DEF Request, Start, IngestRows, IngestEvent, ClassifyEvent, CopySeen, CopyBook,
              CopyHistory, OpenTmp, WriteTmp, RenameTmp, SaveRefused, memory
<1>4. \A x \in Txs : FlagKept(book.flags[x], book'.flags[x])
  BY FlagsGrow
<1> QED BY <1>b, <1>1, <1>2, <1>3, <1>4

\* A step of the one request there is keeps what the sidecar holds, and its copy faithful.
LEMMA StepDurable ==
  ASSUME transport = "stdio", HistoryInv, Serial, Serial', TypeInv, TypeInv', Durable,
         NEW r \in Requests, Request(r)
  PROVE  Durable'
<1>0. /\ calls[r] \in Call /\ calls[r].copy \in State /\ TypedCalls
      /\ files \in [Files -> Content] /\ tmpName \in Maybe(Files) /\ sideName \in Maybe(Files)
      /\ None \notin Files
  BY LedgerAssumption DEF TypeInv, LedgerTypeOK, TypedCalls, Call
<1>1. phase = "up" /\ phase' = "up"
  BY DEF Request, Start, IngestRows, IngestBook, IngestEvent, Classify, ClassifyEvent,
         ClassifyByRule, Resolve, CopySeen, CopyBook, CopyHistory, OpenTmp, WriteTmp, RenameTmp,
         SaveRefused, At
<1>2. /\ Saved.state \in State /\ Saved'.state \in State /\ Memory \in State /\ Memory' \in State
      /\ acked \in State /\ acked' \in State
  BY SavedTyped
<1>3. KeptIn(acked, Saved.state) /\ KeptIn(Saved.state, Memory) /\ Faithful
  BY <1>1 DEF Durable
<1>4. KeptIn(Saved.state, Memory')
  BY <1>2, <1>3, MemoryGrows, KeptTransitive
\* What the sidecar holds.
<1>5. KeptIn(acked', Saved'.state) /\ KeptIn(Saved'.state, Memory')
  <2>1. CASE RenameTmp(r)
    <3>1. tmpName # None /\ calls[r].at = "rename" /\ UNCHANGED <<memory, files>>
      BY <2>1 DEF RenameTmp, At, Serial
    <3>2. files[tmpName] = Full(Memory)
      BY <1>3, <3>1 DEF Faithful
    <3>3. acked' = Memory /\ Saved' = Full(Memory) /\ Memory' = Memory
      BY <2>1, <3>1, <3>2 DEF RenameTmp, Saved, Memory, memory
    <3>4. Full(Memory).state = Memory
      BY DEF Full
    <3> QED BY <1>2, <3>3, <3>4, KeptTransitive
  <2>2. CASE ~RenameTmp(r)
    <3>1. UNCHANGED <<acked, sideName>>
      BY <2>2 DEF Request, Start, IngestRows, IngestBook, IngestEvent, Classify, ClassifyEvent,
            ClassifyByRule, Resolve, CopySeen, CopyBook, CopyHistory, OpenTmp, WriteTmp,
            SaveRefused, disk
    <3>2. sideName # None => files'[sideName] = files[sideName]
      <4>1. CASE OpenTmp(r)
        <5>1. PICK f : tmpName' = f /\ f # None /\ files' = [files EXCEPT ![f] = Blank]
          BY <1>0, <4>1 DEF OpenTmp, Free, Maybe
        <5> QED BY <1>0, <3>1, <5>1 DEF Serial
      <4>2. CASE WriteTmp(r)
        <5>1. calls[r].file = tmpName /\ tmpName # None /\ tmpName # sideName
          BY <4>2 DEF WriteTmp, At, Serial
        <5>2. PICK content : files' = [files EXCEPT ![tmpName] = content]
          BY <4>2, <5>1 DEF WriteTmp
        <5> QED BY <1>0, <5>1, <5>2
      <4>3. CASE UNCHANGED files
        BY <4>3
      <4> QED BY <2>2, <4>1, <4>2, <4>3
              DEF Request, Start, IngestRows, IngestBook, IngestEvent, Classify, ClassifyEvent,
                  ClassifyByRule, Resolve, CopySeen, CopyBook, CopyHistory, SaveRefused, disk
    <3>3. Saved' = Saved
      BY <3>1, <3>2 DEF Saved
    <3> QED BY <1>3, <1>4, <3>1, <3>3
  <2> QED BY <2>1, <2>2
\* What the request holds.
<1>6. \A q \in Requests : q # r => calls'[q].at = "idle"
  <2>1. calls[r].at # "idle" \/ \A q \in Requests : calls[q].at = "idle"
    BY DEF Request, Start, IngestRows, IngestBook, IngestEvent, Classify, ClassifyEvent,
           ClassifyByRule, Resolve, CopySeen, CopyBook, CopyHistory, OpenTmp, WriteTmp, RenameTmp,
           SaveRefused, At
  <2>2. \A q \in Requests : q # r => calls'[q] = calls[q]
    BY <1>0, RequestMoves
  <2>3. \A q \in Requests : q # r => calls[q].at = "idle"
    BY <2>1 DEF Serial
  <2> QED BY <2>2, <2>3
<1>7. /\ calls'[r].at \in {"copyBook", "copyHistory", "open", "write"} => calls'[r].copy.seen = seen'
      /\ calls'[r].at \in {"copyHistory", "open", "write"} => calls'[r].copy.book = book'
      /\ calls'[r].at \in {"open", "write"} => calls'[r].copy.history = history'
      /\ calls'[r].at = "rename" => files'[tmpName'] = Full(Memory')
  <2>1. CASE calls'[r].at \in Early
    BY <2>1 DEF Early
  <2>2. CASE /\ CopySeen(r) /\ calls'[r].at = "copyBook"
             /\ calls'[r].copy = [calls[r].copy EXCEPT !.seen = seen]
    <3>1. UNCHANGED memory
      BY <2>2 DEF CopySeen
    <3> QED BY <1>0, <2>2, <3>1 DEF State, memory
  <2>3. CASE /\ CopyBook(r) /\ calls'[r].at = "copyHistory"
             /\ calls'[r].copy = [calls[r].copy EXCEPT !.book = book]
    <3>1. UNCHANGED memory
      BY <2>3 DEF CopyBook
    <3>2. calls[r].at = "copyBook"
      BY <2>3 DEF CopyBook, At
    <3>3. calls[r].copy.seen = seen
      BY <1>3, <3>2 DEF Faithful
    <3>4. calls'[r].copy.seen = seen /\ calls'[r].copy.book = book
      BY <1>0, <2>3, <3>3 DEF State
    <3> QED BY <2>3, <3>1, <3>4 DEF memory
  <2>4. CASE /\ CopyHistory(r) /\ calls'[r].at = "open"
             /\ calls'[r].copy = [calls[r].copy EXCEPT !.history = history]
    <3>1. UNCHANGED memory /\ calls[r].copy.seen = seen /\ calls[r].copy.book = book
      BY <1>3, <2>4 DEF CopyHistory, At, Faithful
    <3> QED BY <1>0, <2>4, <3>1 DEF State, memory
  <2>5. CASE OpenTmp(r) /\ calls'[r].at = "write" /\ calls'[r].copy = calls[r].copy
    <3>1. /\ UNCHANGED memory /\ calls[r].copy.seen = seen /\ calls[r].copy.book = book
          /\ calls[r].copy.history = history
      BY <1>3, <2>5 DEF OpenTmp, At, Faithful
    <3> QED BY <2>5, <3>1 DEF memory
  <2>6. CASE WriteTmp(r) /\ calls'[r].at = "rename" /\ calls'[r].copy = calls[r].copy
    <3>1. /\ UNCHANGED <<memory, tmpName>> /\ calls[r].copy.seen = seen /\ calls[r].copy.book = book
          /\ calls[r].copy.history = history
      BY <1>3, <2>6 DEF WriteTmp, At, Faithful
    <3>2. calls[r].copy = Memory /\ Memory' = Memory
      BY <1>0, <3>1 DEF State, Memory, memory
    <3>3. calls[r].file = tmpName /\ tmpName \in Files /\ files[tmpName] = Blank
      BY <1>0, <2>6 DEF WriteTmp, At, Serial, Maybe
    <3>4. files' = [files EXCEPT ![tmpName] = Full(calls[r].copy)]
      <4>1. CASE Move(r, AfterFailure(r, calls[r].todo))
        <5>1. calls'[r] = AfterFailure(r, calls[r].todo)
          BY <1>0, <4>1, MovedOne
        <5>2. calls'[r].at # "rename"
          BY <1>0, <5>1, AfterFailureCopied
        <5> QED BY <2>6, <5>2
      <4> QED BY <2>6, <3>3, <4>1 DEF WriteTmp
    <3> QED BY <1>0, <2>6, <3>1, <3>2, <3>3, <3>4
  <2> QED BY <1>0, <2>1, <2>2, <2>3, <2>4, <2>5, <2>6, RequestMoves
<1>8. Faithful'
  BY <1>6, <1>7 DEF Faithful
<1> QED BY <1>1, <1>5, <1>8 DEF Durable

LEMMA NextDurable == DurableInv /\ [Next]_vars => DurableInv'
<1> SUFFICES ASSUME DurableInv, [Next]_vars PROVE DurableInv'
  OBVIOUS
<1>1. SerialInv /\ SerialInv' /\ TypeInv /\ TypeInv'
  BY NextSerial, NextTyped DEF DurableInv
<1>2. ASSUME transport' = "stdio" PROVE Durable'
  <2>1. transport = "stdio"
    BY <1>2 DEF Next, Request, Start, IngestRows, IngestBook, IngestEvent, Classify, ClassifyEvent,
          ClassifyByRule, Resolve, CopySeen, CopyBook, CopyHistory, OpenTmp, WriteTmp, RenameTmp,
          SaveRefused,
          Crash, Restart, vars
  <2>2. HistoryInv /\ Serial /\ Serial' /\ Durable
    BY <1>1, <1>2, <2>1 DEF SerialInv, DurableInv
  <2>3. ASSUME NEW r \in Requests, Request(r) PROVE Durable'
    BY <1>1, <2>1, <2>2, <2>3, StepDurable
  <2>4. CASE Crash
    <3>1. \A r \in Requests : calls'[r].at = "idle"
      BY <2>4 DEF Crash, Idle
    <3>2. phase' = "down" /\ UNCHANGED <<disk, acked>>
      BY <2>4 DEF Crash
    <3>3. Faithful'
      BY <3>1 DEF Faithful
    <3> QED BY <2>2, <3>1, <3>2, <3>3 DEF Durable, disk, Saved
  <2>5. CASE Restart
    <3>1. UNCHANGED <<calls, disk, acked>> /\ phase # "up"
      BY <2>5 DEF Restart
    <3>2. \A r \in Requests : calls'[r].at = "idle"
      BY <2>2, <3>1 DEF Durable
    <3>3. Faithful'
      BY <3>2 DEF Faithful
    <3>4. /\ phase' = "up" /\ seen' = Saved.state.seen /\ book' = Saved.state.book
          /\ history' = Saved.state.history
      BY <2>2, <2>5 DEF Restart, Saved, Serial, Full
    <3>5. Memory' = Saved.state /\ Saved' = Saved
      BY <1>1, <3>1, <3>4, SavedTyped DEF Memory, State, Saved, disk
    <3>6. KeptIn(Saved'.state, Memory')
      BY <1>1, <3>5, SavedTyped, KeptTransitive
    <3> QED BY <2>2, <3>1, <3>2, <3>3, <3>5, <3>6 DEF Durable
  <2>6. CASE UNCHANGED vars
    <3>1. UNCHANGED <<phase, calls, seen, book, history, files, tmpName, sideName, acked>>
      BY <2>6 DEF vars, memory, disk
    <3>2. Memory' = Memory /\ Saved' = Saved
      BY <3>1 DEF Memory, Saved
    <3> QED BY <2>2, <3>1, <3>2 DEF Durable, Faithful
  <2> QED BY <2>3, <2>4, <2>5, <2>6 DEF Next
<1> QED BY <1>1, <1>2 DEF DurableInv

LEMMA InitDurable == Init => DurableInv
<1> SUFFICES ASSUME Init PROVE DurableInv
  OBVIOUS
<1>1. SerialInv /\ TypeInv
  BY InitSerial, InitTyped
<1>2. /\ Saved.state = NewState /\ Memory = NewState /\ acked = NewState /\ phase = "up"
      /\ \A r \in Requests : calls[r].at = "idle"
  BY DEF Init, Saved, Memory, NewState, Full, Idle
<1>3. KeptIn(NewState, NewState)
  BY NewStateTyped, KeptTransitive
<1> QED BY <1>1, <1>2, <1>3 DEF DurableInv, Durable, Faithful

LEMMA AlwaysDurable == Spec => []DurableInv
BY InitDurable, NextDurable, PTL DEF Spec

\* What was in memory when a request succeeded is in the sidecar ever after, in the same
\* order, as long as requests come one by one, whatever crashes and fails to be written
\* (persist_state, load_persisted_state).
THEOREM AckedStays == Spec => []DurableWhenSerial
<1>1. DurableInv => DurableWhenSerial
  BY DEF DurableInv, SerialInv, Serial, Durable, DurableWhenSerial, KeptIn, Saved, Whole, Full
<1> QED BY <1>1, AlwaysDurable, PTL

\* A transaction that a successful request had ingested is never appended to the journal again,
\* as long as requests come one by one (IngestedLedger::ingest, load_persisted_state).
THEOREM AckedNotAppended == Spec => AckedNotJournalledAgain
<1>1. ASSUME DurableInv, DurableInv', [Next]_vars
      PROVE  [transport = "stdio" => \A x \in acked.seen : journal'[x] = journal[x]]_vars
  <2> SUFFICES ASSUME transport = "stdio", NEW x \in acked.seen PROVE journal'[x] = journal[x]
    OBVIOUS
  <2>1. Durable /\ x \in Txs
    BY <1>1, SavedTyped DEF DurableInv, State
  <2>2. ASSUME NEW r \in Requests, IngestRows(r) PROVE journal'[x] = journal[x]
    <3>1. phase = "up"
      BY <2>2 DEF IngestRows, At
    <3>2. x \in seen
      BY <2>1, <3>1 DEF Durable, KeptIn, Memory
    <3>3. PICK written \in SUBSET (calls[r].todo \ seen) :
            journal' = [y \in Txs |-> journal[y] + IF y \in written THEN 1 ELSE 0]
      BY <2>2 DEF IngestRows
    <3>4. journal[x] \in Nat
      BY <1>1, <2>1 DEF DurableInv, TypeInv, LedgerTypeOK
    <3> QED BY <2>1, <3>2, <3>3, <3>4
  <2>3. CASE UNCHANGED journal
    BY <2>3
  <2> QED BY <1>1, <2>2, <2>3
          DEF Next, Request, Start, IngestBook, IngestEvent, Classify, ClassifyEvent, ClassifyByRule,
              Resolve, CopySeen, CopyBook, CopyHistory, OpenTmp, WriteTmp, RenameTmp,
              SaveRefused, Crash, Restart,
              vars
<1> QED BY <1>1, AlwaysDurable, PTL DEF Spec, AckedNotJournalledAgain
=============================================================================
