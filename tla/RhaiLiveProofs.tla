--------------------------- MODULE RhaiLiveProofs ---------------------------
(***************************************************************************)
(* Theorems of RhaiLive, for any number of editors, any blocks and drafts, *)
(* whatever the reader does and in whatever order Mermaid answers: the     *)
(* bookkeeping of the shared script and of main's progress, and that a     *)
(* preview follows the latest update of its editor.                        *)
(***************************************************************************)
EXTENDS RhaiLive, TLAPS

\* What an update of this block in this mode may end up showing.
Follows(shown, update) ==
  LET edges == Parse(update.text) IN
  \/ edges = {} /\ shown = Shown("empty", {})
  \/ edges # {} /\ update.mode = "isometric-3d" /\ shown = Shown("isometric", edges)
  \/ /\ edges # {} /\ update.mode = "mermaid-2d"
     /\ shown \in {Shown("mermaid", edges), Shown("failure", {})}

(***************************************************************************)
(* An editor whose updates did not overlap, and which awaits nothing,      *)
(* shows the graph of its latest block in the mode of that update: no      *)
(* answer of Mermaid, to this editor or another, undoes it.                *)
(***************************************************************************)
PreviewCurrent ==
  \A e \in Editors \ overtaken :
    Attached(e) /\ PendingOf(e) = {} => Follows(preview[e], latest[e])

-----------------------------------------------------------------------------
(* The inductive invariant.                                                *)

Kinds == {"nothing", "empty", "isometric", "mermaid", "failure"}

\* The script is added with the promise and never again, and initialized before a render.
ScriptInv ==
  /\ mermaid \in {"absent", "loading", "ready", "failed"}
  /\ scripts \in 0 .. 1 /\ setups \in 0 .. 1
  /\ mermaid = "absent" => scripts = 0
  /\ \A k \in DOMAIN jobs : /\ jobs[k].stage \in {"loading", "rendering"}
                            /\ jobs[k].stage = "loading" => mermaid = "loading"
                            /\ jobs[k].stage = "rendering" => setups = 1

\* main awaits one first update, of the editor it attaches next.
MainInv ==
  /\ next \in 1 .. EditorCount + 1 /\ awaiting \in BOOLEAN
  /\ awaiting => next <= EditorCount
  /\ \A k \in DOMAIN jobs : jobs[k].first \in BOOLEAN /\ (jobs[k].first => awaiting)
  /\ \A k, m \in DOMAIN jobs : jobs[k].first /\ jobs[m].first => k = m

ReaderInv ==
  /\ stored \in Modes \cup {"blocked"}
  /\ text = [e \in Editors |-> text[e]]
  /\ mode \in [Editors -> Modes]
  /\ actions \in 0 .. MaxActions

ShownInv ==
  /\ preview = [e \in Editors |-> preview[e]]
  /\ \A e \in Editors : preview[e].kind \in Kinds
  /\ latest = [e \in Editors |-> latest[e]]
  /\ overtaken \subseteq Editors

\* A sequence, whatever its elements are.
IsList(s) == Len(s) \in Nat /\ s = [k \in 1 .. Len(s) |-> s[k]]

JobAsRecord(j) == [editor |-> j.editor, edges |-> j.edges, first |-> j.first, stage |-> j.stage]

\* The one update an editor awaits is its latest, unless it was overtaken.
JobsInv ==
  /\ IsList(jobs)
  /\ \A k \in DOMAIN jobs :
       /\ jobs[k] = JobAsRecord(jobs[k])
       /\ jobs[k].editor \in Editors
       /\ jobs[k].editor \notin overtaken =>
            /\ jobs[k].edges = Parse(latest[jobs[k].editor].text) /\ jobs[k].edges # {}
            /\ latest[jobs[k].editor].mode = "mermaid-2d"
            /\ \A m \in DOMAIN jobs : jobs[m].editor = jobs[k].editor => m = k

PageInv == ScriptInv /\ MainInv /\ ShownInv /\ JobsInv /\ PreviewCurrent
RhaiInv == PageInv /\ ReaderInv

-----------------------------------------------------------------------------
(* Sequences.                                                              *)

LEMMA ListHasSet ==
  ASSUME NEW s, IsList(s)
  PROVE  \E S : s \in Seq(S)
<1>1. s \in [1 .. Len(s) -> {s[k] : k \in 1 .. Len(s)}]
  BY DEF IsList
<1>2. s \in Seq({s[k] : k \in 1 .. Len(s)})
  BY <1>1 DEF IsList
<1> QED
  BY <1>2

LEMMA ListDomain ==
  ASSUME NEW s, IsList(s)
  PROVE  DOMAIN s = 1 .. Len(s)
BY DEF IsList

LEMMA SequenceIsList ==
  ASSUME NEW S, NEW s \in Seq(S)
  PROVE  IsList(s) /\ DOMAIN s = 1 .. Len(s)
BY DEF IsList

LEMMA EmptyIsList == IsList(<<>>) /\ DOMAIN <<>> = {}
<1>1. <<>> \in Seq(BOOLEAN) /\ Len(<<>>) = 0
  OBVIOUS
<1>2. IsList(<<>>) /\ DOMAIN <<>> = 1 .. Len(<<>>)
  BY <1>1, SequenceIsList
<1> QED
  BY <1>1, <1>2

LEMMA Joined ==
  ASSUME NEW S, NEW a \in Seq(S), NEW b \in Seq(S)
  PROVE  /\ a \o b \in Seq(S)
         /\ Len(a \o b) = Len(a) + Len(b)
         /\ \A i \in 1 .. Len(a) : (a \o b)[i] = a[i]
         /\ \A i \in 1 .. Len(b) : (a \o b)[Len(a) + i] = b[i]
OBVIOUS

\* Append keeps the elements where they are and adds one.
LEMMA Appended ==
  ASSUME NEW s, IsList(s), NEW x
  PROVE  /\ IsList(Append(s, x))
         /\ DOMAIN Append(s, x) = 1 .. Len(s) + 1
         /\ \A k \in 1 .. Len(s) : Append(s, x)[k] = s[k]
         /\ Append(s, x)[Len(s) + 1] = x
<1>1. PICK S : s \in Seq(S)
  BY ListHasSet
<1>2. s \in Seq(S \cup {x}) /\ Len(s) \in Nat
  BY <1>1
<1>3. Append(s, x) \in Seq(S \cup {x}) /\ Len(Append(s, x)) = Len(s) + 1
  BY <1>2
<1>4. \A k \in 1 .. Len(s) : Append(s, x)[k] = s[k]
  BY <1>2
<1>5. Append(s, x)[Len(s) + 1] = x
  BY <1>2
<1>6. IsList(Append(s, x)) /\ DOMAIN Append(s, x) = 1 .. Len(s) + 1
  BY <1>3, SequenceIsList
<1> QED
  BY <1>4, <1>5, <1>6

\* Where an element of the shortened list was before.
Before(k, i) == IF i < k THEN i ELSE i + 1

\* RemoveAt leaves out one element and keeps the order of the others.
LEMMA Removed ==
  ASSUME NEW s, IsList(s), NEW k \in DOMAIN s
  PROVE  /\ IsList(RemoveAt(s, k))
         /\ \A i \in DOMAIN RemoveAt(s, k) :
              Before(k, i) \in DOMAIN s \ {k} /\ RemoveAt(s, k)[i] = s[Before(k, i)]
         /\ \A i, j \in DOMAIN RemoveAt(s, k) : Before(k, i) = Before(k, j) => i = j
         /\ \A m \in DOMAIN s \ {k} : \E i \in DOMAIN RemoveAt(s, k) : Before(k, i) = m
<1>1. PICK S : s \in Seq(S)
  BY ListHasSet
<1> DEFINE head == SubSeq(s, 1, k - 1)
           tail == SubSeq(s, k + 1, Len(s))
           r == RemoveAt(s, k)
<1>2. DOMAIN s = 1 .. Len(s) /\ Len(s) \in Nat /\ k \in 1 .. Len(s)
  BY ListDomain DEF IsList
<1>3. head \in Seq(S) /\ Len(head) = k - 1 /\ \A i \in 1 .. k - 1 : head[i] = s[i]
  BY <1>1, <1>2
<1>4. tail \in Seq(S) /\ Len(tail) = Len(s) - k /\ \A i \in 1 .. Len(s) - k : tail[i] = s[k + i]
  BY <1>1, <1>2
<1>5. r = head \o tail
  BY DEF RemoveAt
<1> HIDE DEF head, tail, r
<1>6. /\ r \in Seq(S)
      /\ Len(r) = Len(head) + Len(tail)
      /\ \A i \in 1 .. Len(head) : r[i] = head[i]
      /\ \A i \in 1 .. Len(tail) : r[Len(head) + i] = tail[i]
  <2>1. head \in Seq(S) /\ tail \in Seq(S)
    BY <1>3, <1>4
  <2>2. /\ head \o tail \in Seq(S)
        /\ Len(head \o tail) = Len(head) + Len(tail)
        /\ \A i \in 1 .. Len(head) : (head \o tail)[i] = head[i]
        /\ \A i \in 1 .. Len(tail) : (head \o tail)[Len(head) + i] = tail[i]
    BY <2>1, Joined
  <2> QED
    BY <2>2, <1>5, Zenon
<1>7. IsList(r) /\ DOMAIN r = 1 .. Len(s) - 1
  <2>1. IsList(r) /\ DOMAIN r = 1 .. Len(r)
    BY <1>6, SequenceIsList
  <2> QED
    BY <2>1, <1>2, <1>3, <1>4, <1>6
<1>8. \A i \in 1 .. Len(s) - 1 : r[i] = IF i < k THEN s[i] ELSE s[i + 1]
  <2> SUFFICES ASSUME NEW i \in 1 .. Len(s) - 1
               PROVE  r[i] = IF i < k THEN s[i] ELSE s[i + 1]
    OBVIOUS
  <2>1. CASE i < k
    <3>1. i \in 1 .. Len(head)
      BY <1>2, <1>3, <2>1
    <3> QED
      BY <2>1, <3>1, <1>3, <1>6
  <2>2. CASE ~(i < k)
    <3> DEFINE n == i - (k - 1)
    <3>1. n \in 1 .. Len(tail) /\ Len(head) + n = i /\ k + n = i + 1
      BY <1>2, <1>3, <1>4, <2>2
    <3> HIDE DEF n
    <3>2. r[Len(head) + n] = tail[n] /\ tail[n] = s[k + n]
      BY <3>1, <1>4, <1>6
    <3> QED
      BY <2>2, <3>1, <3>2
  <2> QED
    BY <2>1, <2>2
<1>9. \A m \in DOMAIN s \ {k} : \E i \in DOMAIN r : Before(k, i) = m
  <2> SUFFICES ASSUME NEW m \in DOMAIN s \ {k}
               PROVE  \E i \in DOMAIN r : Before(k, i) = m
    OBVIOUS
  <2>1. CASE m < k
    <3>1. m \in DOMAIN r /\ Before(k, m) = m
      BY <2>1, <1>2, <1>7 DEF Before
    <3> QED
      BY <3>1
  <2>2. CASE m > k
    <3>1. m - 1 \in DOMAIN r /\ Before(k, m - 1) = m
      BY <2>2, <1>2, <1>7 DEF Before
    <3> QED
      BY <3>1
  <2> QED
    BY <2>1, <2>2, <1>2
<1>10. \A i, j \in DOMAIN r : Before(k, i) = Before(k, j) => i = j
  BY <1>2, <1>7 DEF Before
<1>11. \A i \in DOMAIN r : Before(k, i) \in DOMAIN s \ {k} /\ r[i] = s[Before(k, i)]
  BY <1>2, <1>7, <1>8 DEF Before
<1> QED
  BY <1>7, <1>9, <1>10, <1>11 DEF r

-----------------------------------------------------------------------------
(* update.                                                                 *)

\* What update records before it draws.
Recorded(e, block, view) ==
  /\ latest' = [latest EXCEPT ![e] = [text |-> block, mode |-> view]]
  /\ overtaken' = IF PendingOf(e) # {} THEN overtaken \cup {e} ELSE overtaken \ {e}

\* An editor other than the updated one keeps its record.
LEMMA RecordedKeeps ==
  ASSUME PageInv, NEW e \in Editors, NEW block, NEW view, Recorded(e, block, view)
  PROVE  /\ latest' = [f \in Editors |-> latest'[f]]
         /\ latest'[e] = [text |-> block, mode |-> view]
         /\ \A f \in Editors \ {e} : latest'[f] = latest[f] /\ (f \in overtaken' <=> f \in overtaken)
         /\ overtaken' \subseteq Editors
         /\ e \in overtaken' <=> PendingOf(e) # {}
BY DEF PageInv, ShownInv, Recorded

LEMMA ShowNowKeeps ==
  ASSUME PageInv,
         NEW e \in Editors, NEW block, NEW view, NEW first \in BOOLEAN, NEW shown,
         first => e = next /\ ~awaiting /\ next <= EditorCount,
         shown.kind \in Kinds, Follows(shown, [text |-> block, mode |-> view]),
         Recorded(e, block, view), ShowNow(e, shown, first)
  PROVE  PageInv'
<1> USE CountAssumption
<1>1. /\ jobs' = jobs /\ UNCHANGED pageVars
      /\ preview' = [preview EXCEPT ![e] = shown]
      /\ IF first THEN MainGoesOn ELSE UNCHANGED mainVars
  BY DEF ShowNow
<1>2. /\ latest' = [f \in Editors |-> latest'[f]]
      /\ latest'[e] = [text |-> block, mode |-> view]
      /\ \A f \in Editors \ {e} : latest'[f] = latest[f] /\ (f \in overtaken' <=> f \in overtaken)
      /\ overtaken' \subseteq Editors
      /\ e \in overtaken' <=> PendingOf(e) # {}
  BY RecordedKeeps
<1>3. ScriptInv'
  BY <1>1 DEF PageInv, ScriptInv, pageVars
<1>4. MainInv'
  <2>1. CASE first
    <3>1. next' = next + 1 /\ awaiting' = FALSE /\ ~awaiting /\ next <= EditorCount
      BY <2>1, <1>1 DEF MainGoesOn
    <3>2. \A k \in DOMAIN jobs : ~jobs[k].first
      BY <3>1 DEF PageInv, MainInv
    <3>3. next' \in 1 .. EditorCount + 1
      BY <3>1 DEF PageInv, MainInv
    <3> QED
      BY <3>1, <3>2, <3>3, <1>1 DEF PageInv, MainInv
  <2>2. CASE ~first
    BY <2>2, <1>1 DEF PageInv, MainInv, mainVars
  <2> QED
    BY <2>1, <2>2
<1>5. ShownInv'
  BY <1>1, <1>2 DEF PageInv, ShownInv
<1>6. JobsInv'
  <2>1. \A k \in DOMAIN jobs : jobs[k].editor = e => e \in overtaken'
    BY <1>2 DEF PendingOf
  <2> QED
    BY <1>1, <1>2, <2>1 DEF PageInv, JobsInv
<1>7. PreviewCurrent'
  <2> SUFFICES ASSUME NEW f \in Editors, f \notin overtaken', Attached(f)', PendingOf(f)' = {}
               PROVE  Follows(preview'[f], latest'[f])
    BY DEF PreviewCurrent, Follows
  <2>1. CASE f = e
    <3>1. preview'[f] = shown
      BY <2>1, <1>1 DEF PageInv, ShownInv
    <3> QED
      BY <2>1, <3>1, <1>2
  <2>2. CASE f # e
    <3>1. preview'[f] = preview[f] /\ latest'[f] = latest[f] /\ f \notin overtaken
      BY <2>2, <1>1, <1>2 DEF PageInv, ShownInv
    <3>2. PendingOf(f) = {}
      BY <1>1 DEF PendingOf
    <3>3. Attached(f)
      BY <2>2, <1>1 DEF Attached, MainGoesOn, mainVars, PageInv, MainInv, Editors
    <3> QED
      BY <3>1, <3>2, <3>3 DEF PageInv, PreviewCurrent
  <2> QED
    BY <2>1, <2>2
<1> QED
  BY <1>3, <1>4, <1>5, <1>6, <1>7 DEF PageInv

LEMMA AwaitMermaidKeeps ==
  ASSUME PageInv,
         NEW e \in Editors, NEW block, NEW first \in BOOLEAN,
         first => e = next /\ ~awaiting /\ next <= EditorCount,
         Parse(block) # {}, mermaid # "failed",
         Recorded(e, block, "mermaid-2d"), AwaitMermaid(e, Parse(block), first)
  PROVE  PageInv'
<1> USE CountAssumption
<1> DEFINE job == [editor |-> e, edges |-> Parse(block), first |-> first,
                   stage |-> IF mermaid = "ready" THEN "rendering" ELSE "loading"]
           last == Len(jobs) + 1
<1>1. jobs' = Append(jobs, job) /\ next' = next /\ preview' = preview /\ awaiting' = (awaiting \/ first)
  BY DEF AwaitMermaid
<1>2. /\ latest' = [f \in Editors |-> latest'[f]]
      /\ latest'[e] = [text |-> block, mode |-> "mermaid-2d"]
      /\ \A f \in Editors \ {e} : latest'[f] = latest[f] /\ (f \in overtaken' <=> f \in overtaken)
      /\ overtaken' \subseteq Editors
      /\ e \in overtaken' <=> PendingOf(e) # {}
  BY RecordedKeeps
<1>3. /\ job.editor = e /\ job.edges = Parse(block) /\ job.first = first
      /\ job.stage = IF mermaid = "ready" THEN "rendering" ELSE "loading"
      /\ job = JobAsRecord(job)
  BY DEF JobAsRecord
<1> HIDE DEF job
<1>4. /\ IsList(jobs) /\ DOMAIN jobs = 1 .. Len(jobs) /\ Len(jobs) \in Nat
      /\ IsList(jobs') /\ DOMAIN jobs' = 1 .. last /\ jobs'[last] = job
      /\ \A k \in 1 .. Len(jobs) : jobs'[k] = jobs[k]
  BY <1>1, Appended, ListDomain DEF PageInv, JobsInv, IsList
<1>5. /\ \A k \in DOMAIN jobs' : k \in DOMAIN jobs \/ k = last
      /\ \A k \in DOMAIN jobs : k \in DOMAIN jobs' /\ jobs'[k] = jobs[k]
      /\ last \in DOMAIN jobs' /\ last \notin DOMAIN jobs
  BY <1>4
<1> HIDE DEF last
<1>6. ScriptInv'
  <2>1. /\ mermaid' \in {"absent", "loading", "ready", "failed"}
        /\ scripts' \in 0 .. 1 /\ setups' \in 0 .. 1
        /\ mermaid' # "absent"
        /\ mermaid = "loading" => mermaid' = "loading"
        /\ setups = 1 => setups' = 1
        /\ mermaid = "ready" => setups' = 1
        /\ mermaid # "ready" => mermaid' = "loading"
    BY DEF PageInv, ScriptInv, AwaitMermaid, AddsScript
  <2>2. \A k \in DOMAIN jobs' : /\ jobs'[k].stage \in {"loading", "rendering"}
                                /\ jobs'[k].stage = "loading" => mermaid' = "loading"
                                /\ jobs'[k].stage = "rendering" => setups' = 1
    BY <2>1, <1>3, <1>4, <1>5 DEF PageInv, ScriptInv
  <2> QED
    BY <2>1, <2>2 DEF ScriptInv
<1>7. MainInv'
  <2>1. /\ next' \in 1 .. EditorCount + 1 /\ awaiting' \in BOOLEAN
        /\ awaiting' => next' <= EditorCount
    BY <1>1 DEF PageInv, MainInv
  <2>2. \A k \in DOMAIN jobs' : jobs'[k].first \in BOOLEAN /\ (jobs'[k].first => awaiting')
    BY <1>1, <1>3, <1>4, <1>5 DEF PageInv, MainInv
  <2>3. \A k, m \in DOMAIN jobs' : jobs'[k].first /\ jobs'[m].first => k = m
    BY <1>3, <1>4, <1>5 DEF PageInv, MainInv
  <2> QED
    BY <2>1, <2>2, <2>3 DEF MainInv
<1>8. ShownInv'
  BY <1>1, <1>2 DEF PageInv, ShownInv
<1>9. JobsInv'
  <2> SUFFICES ASSUME NEW k \in DOMAIN jobs'
               PROVE  /\ jobs'[k] = JobAsRecord(jobs'[k])
                      /\ jobs'[k].editor \in Editors
                      /\ jobs'[k].editor \notin overtaken' =>
                           /\ jobs'[k].edges = Parse(latest'[jobs'[k].editor].text)
                           /\ jobs'[k].edges # {}
                           /\ latest'[jobs'[k].editor].mode = "mermaid-2d"
                           /\ \A m \in DOMAIN jobs' : jobs'[m].editor = jobs'[k].editor => m = k
    BY <1>4 DEF JobsInv, JobAsRecord
  <2>1. \A m \in DOMAIN jobs : jobs[m].editor = e => e \in overtaken'
    BY <1>2 DEF PendingOf
  <2>2. CASE k = last
    BY <2>1, <2>2, <1>2, <1>3, <1>4, <1>5
  <2>3. CASE k \in DOMAIN jobs /\ jobs[k].editor = e
    BY <2>1, <2>3, <1>5 DEF PageInv, JobsInv
  <2>4. CASE k \in DOMAIN jobs /\ jobs[k].editor # e
    BY <2>4, <1>2, <1>3, <1>4, <1>5 DEF PageInv, JobsInv
  <2> QED
    BY <2>2, <2>3, <2>4, <1>5
<1>10. PreviewCurrent'
  <2> SUFFICES ASSUME NEW f \in Editors, f \notin overtaken', Attached(f)', PendingOf(f)' = {}
               PROVE  Follows(preview'[f], latest'[f])
    BY DEF PreviewCurrent, Follows
  <2>1. f # e
    BY <1>3, <1>4, <1>5 DEF PendingOf
  <2>2. PendingOf(f) = {}
    BY <1>5 DEF PendingOf
  <2>3. Attached(f)
    BY <2>1, <1>1 DEF Attached
  <2> QED
    BY <2>1, <2>2, <2>3, <1>1, <1>2 DEF PageInv, PreviewCurrent
<1> QED
  BY <1>6, <1>7, <1>8, <1>9, <1>10 DEF PageInv

LEMMA UpdateKeeps ==
  ASSUME PageInv,
         NEW e \in Editors, NEW block, NEW view \in Modes, NEW first \in BOOLEAN,
         first => e = next /\ ~awaiting /\ next <= EditorCount,
         Update(e, block, view, first)
  PROVE  PageInv'
<1>1. Recorded(e, block, view)
  BY DEF Update, Recorded
<1>2. CASE Parse(block) = {} /\ ShowNow(e, Shown("empty", {}), first)
  BY <1>1, <1>2, ShowNowKeeps DEF Follows, Shown, Kinds
<1>3. CASE /\ Parse(block) # {} /\ view = "isometric-3d"
           /\ ShowNow(e, Shown("isometric", Parse(block)), first)
  BY <1>1, <1>3, ShowNowKeeps DEF Follows, Shown, Kinds
<1>4. CASE /\ Parse(block) # {} /\ view = "mermaid-2d"
           /\ ShowNow(e, Shown("failure", {}), first)
  BY <1>1, <1>4, ShowNowKeeps DEF Follows, Shown, Kinds
<1>5. CASE /\ Parse(block) # {} /\ view = "mermaid-2d" /\ mermaid # "failed"
           /\ AwaitMermaid(e, Parse(block), first)
  BY <1>1, <1>5, AwaitMermaidKeeps
<1> QED
  BY <1>2, <1>3, <1>4, <1>5 DEF Update

-----------------------------------------------------------------------------
(* The actions.                                                            *)

LEMMA InitRhai ==
  ASSUME Init
  PROVE  RhaiInv
<1> USE CountAssumption DEF Init
<1>1. ScriptInv /\ JobsInv
  BY EmptyIsList DEF ScriptInv, JobsInv
<1>2. MainInv
  <2>1. next = 1 /\ awaiting = FALSE /\ DOMAIN jobs = {}
    BY EmptyIsList
  <2> HIDE DEF Init
  <2>2. next \in 1 .. EditorCount + 1
    BY <2>1
  <2> QED
    BY <2>1, <2>2, Zenon DEF MainInv
<1>3. ShownInv
  BY DEF ShownInv, Nothing, Kinds
<1>4. PreviewCurrent
  BY DEF PreviewCurrent, Attached, Editors
<1>5. ReaderInv
  BY OriginalAssumption DEF ReaderInv, Modes
<1> QED
  BY <1>1, <1>2, <1>3, <1>4, <1>5 DEF RhaiInv, PageInv

LEMMA StoredModeIsMode == StoredMode \in Modes /\ \A view : OtherMode(view) \in Modes
BY DEF StoredMode, OtherMode, Modes

LEMMA AttachKeeps ==
  ASSUME RhaiInv, Attach
  PROVE  RhaiInv'
<1>1. next \in Editors /\ next <= EditorCount /\ ~awaiting
  BY CountAssumption DEF Attach, RhaiInv, PageInv, MainInv, Editors
<1>2. Update(next, text[next], StoredMode, TRUE)
  BY DEF Attach
<1>3. PageInv'
  BY <1>1, <1>2, UpdateKeeps, StoredModeIsMode DEF RhaiInv
<1>4. ReaderInv'
  BY <1>1, StoredModeIsMode DEF Attach, RhaiInv, ReaderInv
<1> QED
  BY <1>3, <1>4 DEF RhaiInv

LEMMA ToggleKeeps ==
  ASSUME RhaiInv, NEW e \in Editors, Toggle(e)
  PROVE  RhaiInv'
<1>1. Update(e, text[e], OtherMode(mode[e]), FALSE)
  BY DEF Toggle
<1>2. PageInv'
  BY <1>1, UpdateKeeps, StoredModeIsMode DEF RhaiInv
<1>3. ReaderInv'
  BY StoredModeIsMode, CountAssumption DEF Toggle, Acts, RhaiInv, ReaderInv
<1> QED
  BY <1>2, <1>3 DEF RhaiInv

LEMMA TypeKeeps ==
  ASSUME RhaiInv, NEW e \in Editors, NEW block, Type(e, block)
  PROVE  RhaiInv'
<1>1. /\ mermaid' = mermaid /\ scripts' = scripts /\ setups' = setups
      /\ next' = next /\ awaiting' = awaiting
      /\ preview' = preview /\ jobs' = jobs /\ latest' = latest /\ overtaken' = overtaken
  BY DEF Type, pageVars, mainVars, updateVars
<1>2. ScriptInv' /\ MainInv' /\ ShownInv' /\ JobsInv'
  BY <1>1 DEF RhaiInv, PageInv, ScriptInv, MainInv, ShownInv, JobsInv, JobAsRecord
<1>3. PreviewCurrent'
  BY <1>1 DEF RhaiInv, PageInv, PreviewCurrent, Attached, PendingOf
<1>4. ReaderInv'
  BY CountAssumption DEF Type, Acts, RhaiInv, ReaderInv
<1> QED
  BY <1>2, <1>3, <1>4 DEF RhaiInv, PageInv

LEMMA UpdateWithKeeps ==
  ASSUME RhaiInv, NEW e \in Editors, NEW block, UpdateWith(e, block)
  PROVE  RhaiInv'
<1>1. Update(e, block, mode[e], FALSE) /\ mode[e] \in Modes
  BY DEF UpdateWith, RhaiInv, ReaderInv
<1>2. PageInv'
  BY <1>1, UpdateKeeps DEF RhaiInv
<1>3. ReaderInv'
  BY CountAssumption DEF UpdateWith, Acts, RhaiInv, ReaderInv
<1> QED
  BY <1>2, <1>3 DEF RhaiInv

LEMMA ScriptLoadsKeeps ==
  ASSUME RhaiInv, ScriptLoads
  PROVE  RhaiInv'
<1>1. /\ mermaid' = "ready" /\ scripts' = scripts /\ next' = next /\ awaiting' = awaiting
      /\ preview' = preview /\ latest' = latest /\ overtaken' = overtaken
      /\ setups' = IF setups = 0 /\ jobs # <<>> THEN 1 ELSE setups
      /\ jobs' = [k \in DOMAIN jobs |-> [jobs[k] EXCEPT !.stage = "rendering"]]
      /\ UNCHANGED <<text, mode, stored, actions>>
  BY DEF ScriptLoads, mainVars, editorVars
<1>2. /\ DOMAIN jobs = 1 .. Len(jobs) /\ Len(jobs) \in Nat
      /\ \A k \in DOMAIN jobs : jobs[k] = JobAsRecord(jobs[k])
  BY ListDomain DEF RhaiInv, PageInv, JobsInv, IsList
<1>3. /\ DOMAIN jobs' = DOMAIN jobs /\ IsList(jobs')
      /\ \A k \in DOMAIN jobs : /\ jobs'[k].editor = jobs[k].editor /\ jobs'[k].edges = jobs[k].edges
                                /\ jobs'[k].first = jobs[k].first /\ jobs'[k].stage = "rendering"
                                /\ jobs'[k] = JobAsRecord(jobs'[k])
  <2>1. DOMAIN jobs' = 1 .. Len(jobs)
    BY <1>1, <1>2
  <2>2. Len(jobs') = Len(jobs)
    BY <1>2, <2>1
  <2>3. IsList(jobs')
    BY <1>1, <1>2, <2>1, <2>2 DEF IsList
  <2>4. \A k \in DOMAIN jobs :
          jobs'[k] = [editor |-> jobs[k].editor, edges |-> jobs[k].edges,
                      first |-> jobs[k].first, stage |-> "rendering"]
    BY <1>1, <1>2 DEF JobAsRecord
  <2> QED
    BY <1>2, <2>1, <2>3, <2>4 DEF JobAsRecord
<1>4. ScriptInv'
  <2>1. setups' \in 0 .. 1 /\ (DOMAIN jobs # {} => setups' = 1)
    BY <1>1 DEF RhaiInv, PageInv, ScriptInv
  <2> QED
    BY <2>1, <1>1, <1>3 DEF RhaiInv, PageInv, ScriptInv
<1>5. MainInv'
  BY <1>1, <1>3 DEF RhaiInv, PageInv, MainInv
<1>6. ShownInv' /\ ReaderInv'
  BY <1>1 DEF RhaiInv, PageInv, ShownInv, ReaderInv
<1>7. JobsInv'
  BY <1>1, <1>3 DEF RhaiInv, PageInv, JobsInv
<1>8. PreviewCurrent'
  <2>1. \A e \in Editors : (PendingOf(e)' = {}) => PendingOf(e) = {}
    BY <1>3 DEF PendingOf
  <2>2. \A e \in Editors : Attached(e)' => Attached(e)
    BY <1>1 DEF Attached
  <2> QED
    BY <2>1, <2>2, <1>1 DEF RhaiInv, PageInv, PreviewCurrent
<1> QED
  BY <1>4, <1>5, <1>6, <1>7, <1>8 DEF RhaiInv, PageInv

\* main going on attaches nobody who was not attached already.
LEMMA GoingOnAttachesNobody ==
  ASSUME RhaiInv, awaiting, MainGoesOn
  PROVE  /\ next' \in 1 .. EditorCount + 1 /\ awaiting' = FALSE
         /\ \A e \in Editors : Attached(e)' => Attached(e)
BY CountAssumption DEF RhaiInv, PageInv, MainInv, MainGoesOn, Attached, Editors

LEMMA ScriptFailsKeeps ==
  ASSUME RhaiInv, ScriptFails
  PROVE  RhaiInv'
<1>1. /\ mermaid' = "failed" /\ scripts' = scripts /\ setups' = setups /\ jobs' = <<>>
      /\ preview' = [e \in Editors |-> IF PendingOf(e) # {} THEN Shown("failure", {}) ELSE preview[e]]
      /\ latest' = latest /\ overtaken' = overtaken
      /\ UNCHANGED <<text, mode, stored, actions>>
  BY DEF ScriptFails, editorVars
<1>2. /\ next' \in 1 .. EditorCount + 1 /\ awaiting' = FALSE
      /\ \A e \in Editors : Attached(e)' => Attached(e)
  <2>1. CASE awaiting
    BY <2>1, GoingOnAttachesNobody DEF ScriptFails
  <2>2. CASE ~awaiting
    BY <2>2 DEF ScriptFails, mainVars, RhaiInv, PageInv, MainInv, Attached
  <2> QED
    BY <2>1, <2>2
<1>3. ScriptInv' /\ MainInv' /\ JobsInv' /\ ReaderInv'
  <2>1. ScriptInv' /\ JobsInv'
    BY <1>1, EmptyIsList DEF RhaiInv, PageInv, ScriptInv, JobsInv
  <2>2. MainInv'
    BY <1>1, <1>2, EmptyIsList DEF MainInv
  <2> QED
    BY <2>1, <2>2, <1>1 DEF RhaiInv, ReaderInv
<1>4. ShownInv'
  BY <1>1 DEF RhaiInv, PageInv, ShownInv, Shown, Kinds
<1>5. PreviewCurrent'
  <2> SUFFICES ASSUME NEW e \in Editors, e \notin overtaken', Attached(e)', PendingOf(e)' = {}
               PROVE  Follows(preview'[e], latest'[e])
    BY DEF PreviewCurrent, Follows
  <2>1. CASE PendingOf(e) = {}
    BY <2>1, <1>1, <1>2 DEF RhaiInv, PageInv, PreviewCurrent
  <2>2. CASE PendingOf(e) # {}
    <3>1. PICK k \in DOMAIN jobs : jobs[k].editor = e
      BY <2>2 DEF PendingOf
    <3>2. Parse(latest[e].text) # {} /\ latest[e].mode = "mermaid-2d"
      BY <3>1, <1>1 DEF RhaiInv, PageInv, JobsInv
    <3> QED
      BY <3>2, <2>2, <1>1 DEF Follows
  <2> QED
    BY <2>1, <2>2
<1> QED
  BY <1>3, <1>4, <1>5 DEF RhaiInv, PageInv

LEMMA RenderAnswersKeeps ==
  ASSUME RhaiInv, NEW k \in DOMAIN jobs, NEW drawn \in BOOLEAN, RenderAnswers(k, drawn)
  PROVE  RhaiInv'
<1> DEFINE e == jobs[k].editor
           answer == IF drawn THEN Shown("mermaid", jobs[k].edges) ELSE Shown("failure", {})
<1>1. /\ UNCHANGED <<mermaid, scripts, setups, text, mode, stored, actions>>
      /\ latest' = latest /\ overtaken' = overtaken
      /\ preview' = [preview EXCEPT ![e] = answer]
      /\ jobs' = RemoveAt(jobs, k)
      /\ IF jobs[k].first THEN MainGoesOn ELSE UNCHANGED mainVars
  BY DEF RenderAnswers, pageVars, editorVars
<1>2. /\ IsList(jobs')
      /\ \A i \in DOMAIN jobs' : Before(k, i) \in DOMAIN jobs \ {k} /\ jobs'[i] = jobs[Before(k, i)]
      /\ \A i, j \in DOMAIN jobs' : Before(k, i) = Before(k, j) => i = j
      /\ \A m \in DOMAIN jobs \ {k} : \E i \in DOMAIN jobs' : Before(k, i) = m
  BY <1>1, Removed DEF RhaiInv, PageInv, JobsInv
<1>3. /\ next' \in 1 .. EditorCount + 1 /\ awaiting' \in BOOLEAN
      /\ awaiting' => next' <= EditorCount
      /\ \A f \in Editors : Attached(f)' => Attached(f)
      /\ ~jobs[k].first => awaiting' = awaiting
  <2>1. CASE jobs[k].first
    <3>1. awaiting
      BY <2>1 DEF RhaiInv, PageInv, MainInv
    <3> QED
      BY <2>1, <3>1, <1>1, GoingOnAttachesNobody
  <2>2. CASE ~jobs[k].first
    BY <2>2, <1>1 DEF mainVars, RhaiInv, PageInv, MainInv, Attached
  <2> QED
    BY <2>1, <2>2
<1>4. ScriptInv'
  BY <1>1, <1>2 DEF RhaiInv, PageInv, ScriptInv
<1>5. MainInv'
  <2>1. \A i \in DOMAIN jobs' : jobs'[i].first \in BOOLEAN /\ (jobs'[i].first => awaiting')
    BY <1>2, <1>3 DEF RhaiInv, PageInv, MainInv
  <2>2. \A i, j \in DOMAIN jobs' : jobs'[i].first /\ jobs'[j].first => i = j
    BY <1>2 DEF RhaiInv, PageInv, MainInv
  <2> QED
    BY <2>1, <2>2, <1>3 DEF MainInv
<1>6. ShownInv' /\ ReaderInv'
  BY <1>1 DEF RhaiInv, PageInv, ShownInv, ReaderInv, Shown, Kinds
<1>7. JobsInv'
  BY <1>1, <1>2 DEF RhaiInv, PageInv, JobsInv
<1>8. PreviewCurrent'
  <2> SUFFICES ASSUME NEW f \in Editors, f \notin overtaken', Attached(f)', PendingOf(f)' = {}
               PROVE  Follows(preview'[f], latest'[f])
    BY DEF PreviewCurrent, Follows
  <2>1. CASE f = e
    <3>1. Parse(latest[f].text) = jobs[k].edges /\ jobs[k].edges # {} /\ latest[f].mode = "mermaid-2d"
      BY <2>1, <1>1 DEF RhaiInv, PageInv, JobsInv
    <3>2. preview'[f] = answer
      BY <2>1, <1>1 DEF RhaiInv, PageInv, ShownInv
    <3> QED
      BY <3>1, <3>2, <1>1 DEF Follows
  <2>2. CASE f # e
    <3>1. PendingOf(f) = {}
      BY <2>2, <1>2 DEF PendingOf
    <3> QED
      BY <2>2, <3>1, <1>1, <1>3 DEF RhaiInv, PageInv, PreviewCurrent, ShownInv
  <2> QED
    BY <2>1, <2>2
<1> QED
  BY <1>4, <1>5, <1>6, <1>7, <1>8 DEF RhaiInv, PageInv

LEMMA StepKeepsRhai ==
  ASSUME RhaiInv, [Next]_vars
  PROVE  RhaiInv'
<1>1. CASE Attach
  BY <1>1, AttachKeeps
<1>2. CASE Reader
  <2>1. PICK e \in Editors :
          \/ Toggle(e)
          \/ \E block \in Edits : Type(e, block)
          \/ Regenerate(e)
          \/ Reset(e)
          \/ \E draft \in Drafts : ApplyDraft(e, draft)
    BY <1>2 DEF Reader
  <2>2. CASE Toggle(e)
    BY <2>2, ToggleKeeps
  <2>3. CASE \E block \in Edits : Type(e, block)
    BY <2>3, TypeKeeps
  <2>4. CASE Regenerate(e)
    BY <2>4, UpdateWithKeeps DEF Regenerate
  <2>5. CASE Reset(e)
    BY <2>5, UpdateWithKeeps DEF Reset
  <2>6. CASE \E draft \in Drafts : ApplyDraft(e, draft)
    BY <2>6, UpdateWithKeeps DEF ApplyDraft
  <2> QED
    BY <2>1, <2>2, <2>3, <2>4, <2>5, <2>6
<1>3. CASE ScriptLoads
  BY <1>3, ScriptLoadsKeeps
<1>4. CASE ScriptFails
  BY <1>4, ScriptFailsKeeps
<1>5. CASE Render
  BY <1>5, RenderAnswersKeeps DEF Render
<1>6. CASE UNCHANGED vars
  <2>1. /\ UNCHANGED <<mermaid, scripts, setups, next, awaiting, text, mode, stored>>
        /\ UNCHANGED <<preview, jobs, latest, overtaken, actions>>
    BY <1>6 DEF vars, pageVars, mainVars, editorVars, updateVars
  <2>2. ScriptInv' /\ MainInv' /\ ShownInv' /\ JobsInv' /\ ReaderInv'
    BY <2>1 DEF RhaiInv, PageInv, ScriptInv, MainInv, ShownInv, JobsInv, ReaderInv, JobAsRecord
  <2>3. PreviewCurrent'
    BY <2>1 DEF RhaiInv, PageInv, PreviewCurrent, Attached, PendingOf
  <2> QED
    BY <2>2, <2>3 DEF RhaiInv, PageInv
<1> QED
  BY <1>1, <1>2, <1>3, <1>4, <1>5, <1>6 DEF Next

\* The page's state is consistent at all times: an editor's jobs carry its latest block, and a
\* view without one shows it (update and renderMermaid of rhai-live.js).
THEOREM RhaiIsInvariant == Spec => []RhaiInv
<1>1. Init => RhaiInv
  BY InitRhai
<1>2. RhaiInv /\ [Next]_vars => RhaiInv'
  BY StepKeepsRhai
<1> QED
  BY <1>1, <1>2, PTL DEF Spec

-----------------------------------------------------------------------------
(* The theorems.                                                           *)

(***************************************************************************)
(* Every variable has its type; Mermaid's script is added and initialized  *)
(* at most once however many editors wait for it, and nothing is rendered  *)
(* before Mermaid is initialized (ensureMermaid).                          *)
(***************************************************************************)
THEOREM RhaiTypes == Spec => []RhaiTypeOK
<1>1. RhaiInv => RhaiTypeOK
  BY DEF RhaiInv, PageInv, ScriptInv, MainInv, ReaderInv, ShownInv, JobsInv, RhaiTypeOK, Kinds
<1> QED
  BY <1>1, RhaiIsInvariant, PTL

(***************************************************************************)
(* The preview of an editor whose updates did not overlap is that of its   *)
(* latest block and mode: the answers of Mermaid to other editors, in any  *)
(* order, the failure of its script and main's progress leave it so.       *)
(***************************************************************************)
THEOREM PreviewsCurrent == Spec => []PreviewCurrent
<1>1. RhaiInv => PreviewCurrent
  BY DEF RhaiInv, PageInv
<1> QED
  BY <1>1, RhaiIsInvariant, PTL

-----------------------------------------------------------------------------
(* What a preview decides, from what the parser does with single blocks.   *)

\* The graph of a block decides as its lines say, and only a block without
\* diagram lines has none.
ParsesWell(block) ==
  /\ Parse(block) = {} => \A l \in Range(block) : l.kind = "ignored"
  /\ DecidesAs(Parse(block), block)

\* The blocks a page can come to hold.
HoldsBlocks(blocks) ==
  /\ Edits \subseteq blocks
  /\ \A block \in blocks, draft \in Drafts : Drafted(block, draft) \in blocks

BlocksInv(blocks) == \A e \in Editors : text[e] \in blocks /\ latest[e].text \in blocks

LEMMA UpdateKeepsBlocks ==
  ASSUME NEW blocks, RhaiInv, BlocksInv(blocks),
         NEW e \in Editors, NEW block \in blocks, NEW view, NEW first,
         Update(e, block, view, first), \A f \in Editors : text'[f] \in blocks
  PROVE  BlocksInv(blocks)'
<1>1. latest' = [latest EXCEPT ![e] = [text |-> block, mode |-> view]]
  BY DEF Update
<1> QED
  BY <1>1 DEF BlocksInv, RhaiInv, PageInv, ShownInv

LEMMA StepKeepsBlocks ==
  ASSUME NEW blocks, HoldsBlocks(blocks), RhaiInv, BlocksInv(blocks), [Next]_vars
  PROVE  BlocksInv(blocks)'
<1>1. ASSUME NEW e \in Editors, NEW block \in blocks, UpdateWith(e, block)
      PROVE  BlocksInv(blocks)'
  <2>1. \A f \in Editors : text'[f] \in blocks
    BY <1>1 DEF UpdateWith, BlocksInv, RhaiInv, ReaderInv
  <2> QED
    BY <1>1, <2>1, UpdateKeepsBlocks DEF UpdateWith
<1>2. CASE Attach
  <2>1. next \in Editors
    BY <1>2, CountAssumption DEF Attach, RhaiInv, PageInv, MainInv, Editors
  <2>2. text' = text /\ Update(next, text[next], StoredMode, TRUE)
    BY <1>2 DEF Attach
  <2> QED
    BY <2>1, <2>2, UpdateKeepsBlocks DEF BlocksInv
<1>3. CASE Reader
  <2>1. PICK e \in Editors :
          \/ Toggle(e)
          \/ \E block \in Edits : Type(e, block)
          \/ Regenerate(e)
          \/ Reset(e)
          \/ \E draft \in Drafts : ApplyDraft(e, draft)
    BY <1>3 DEF Reader
  <2>2. text[e] \in blocks /\ Original[e] \in blocks
    BY OriginalAssumption DEF BlocksInv, HoldsBlocks
  <2>3. CASE Toggle(e)
    <3>1. text' = text /\ Update(e, text[e], OtherMode(mode[e]), FALSE)
      BY <2>3 DEF Toggle
    <3> QED
      BY <3>1, <2>2, UpdateKeepsBlocks DEF BlocksInv
  <2>4. CASE \E block \in Edits : Type(e, block)
    BY <2>4 DEF Type, updateVars, HoldsBlocks, BlocksInv, RhaiInv, ReaderInv
  <2>5. CASE Regenerate(e)
    BY <2>2, <2>5, <1>1 DEF Regenerate
  <2>6. CASE Reset(e)
    BY <2>2, <2>6, <1>1 DEF Reset
  <2>7. CASE \E draft \in Drafts : ApplyDraft(e, draft)
    BY <2>2, <2>7, <1>1 DEF ApplyDraft, HoldsBlocks
  <2> QED
    BY <2>1, <2>3, <2>4, <2>5, <2>6, <2>7
<1>4. CASE ScriptLoads \/ ScriptFails \/ Render
  BY <1>4 DEF ScriptLoads, ScriptFails, Render, RenderAnswers, editorVars, BlocksInv
<1>5. CASE UNCHANGED vars
  BY <1>5 DEF vars, editorVars, updateVars, BlocksInv
<1> QED
  BY <1>2, <1>3, <1>4, <1>5 DEF Next

(***************************************************************************)
(* If the parser decides every block the page can come to hold as its      *)
(* lines say, then so does every preview, whatever the reader does and     *)
(* however Mermaid answers.  What the parser does with a block is data     *)
(* (sorted chains, reachability) and is checked by TLC.                    *)
(***************************************************************************)
THEOREM PreviewsDecide ==
  ASSUME NEW CONSTANT blocks, HoldsBlocks(blocks), \A block \in blocks : ParsesWell(block)
  PROVE  Spec => []PreviewDecides
<1>1. Init => BlocksInv(blocks)
  BY OriginalAssumption DEF Init, BlocksInv, HoldsBlocks
<1>2. RhaiInv /\ BlocksInv(blocks) /\ [Next]_vars => BlocksInv(blocks)'
  BY StepKeepsBlocks
<1>3. RhaiInv /\ BlocksInv(blocks) => PreviewDecides
  <2> SUFFICES ASSUME RhaiInv, BlocksInv(blocks),
                      NEW e \in Editors \ overtaken, Attached(e), PendingOf(e) = {}
               PROVE  LET block == latest[e].text IN
                      \/ preview[e].kind = "empty" /\ \A l \in Range(block) : l.kind = "ignored"
                      \/ preview[e].kind = "failure" /\ latest[e].mode = "mermaid-2d"
                      \/ /\ preview[e].kind = IF latest[e].mode = "mermaid-2d" THEN "mermaid" ELSE "isometric"
                         /\ DecidesAs(preview[e].edges, block)
    BY DEF PreviewDecides
  <2>1. ParsesWell(latest[e].text)
    BY DEF BlocksInv
  <2>2. Follows(preview[e], latest[e])
    BY DEF RhaiInv, PageInv, PreviewCurrent
  <2> QED
    BY <2>1, <2>2 DEF ParsesWell, Follows, Shown
<1> QED
  BY <1>1, <1>2, <1>3, RhaiIsInvariant, PTL DEF Spec
=============================================================================
