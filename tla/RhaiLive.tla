------------------------------ MODULE RhaiLive ------------------------------
(***************************************************************************)
(* The live Rhai editors of a page of the book (rhai-live.js): main        *)
(* attaches them one after another, awaiting the first update of each;     *)
(* every update parses the block and draws it either at once (isometric)   *)
(* or through Mermaid, which is loaded from a CDN by the first update that *)
(* needs it and which answers later.  The script and the renders of        *)
(* Mermaid are outside this repository: they succeed or fail, and renders  *)
(* answer in any order.                                                    *)
(***************************************************************************)
EXTENDS RhaiDiagram, FiniteSets

CONSTANTS
  EditorCount,  \* the editable blocks of the page
  Original,     \* the block of each editor as the book has it
  Edits,        \* the blocks a reader types
  Drafts,       \* the drafts the reader's instructions select
  MaxActions    \* bound: what the reader does

Editors == 1 .. EditorCount
Modes == {"isometric-3d", "mermaid-2d"}

ASSUME OriginalAssumption == Original \in [Editors -> Edits]
ASSUME CountAssumption == EditorCount \in Nat /\ MaxActions \in Nat

VARIABLES
  mermaid,      \* window.mermaid and the load promise
  scripts,      \* script elements added to the page
  setups,       \* calls of mermaid.initialize
  stored,       \* the view mode in localStorage, or "blocked"
  next,         \* the editor main attaches next
  awaiting,     \* whether main awaits the first update of that editor
  text,         \* the textarea of each editor
  mode,         \* viewMode of each editor
  preview,      \* what each editor's preview shows
  jobs,         \* updates that await Mermaid, oldest first
  actions,      \* how much the reader has done
  latest,       \* history: block and mode of each editor's latest update
  overtaken     \* history: editors updated while an update of theirs was pending

pageVars == <<mermaid, scripts, setups>>
mainVars == <<next, awaiting>>
editorVars == <<text, mode, stored>>
updateVars == <<preview, jobs, latest, overtaken>>
vars == <<pageVars, mainVars, editorVars, updateVars, actions>>

Nothing == [kind |-> "nothing", edges |-> {}]
Shown(kind, edges) == [kind |-> kind, edges |-> edges]

Init ==
  /\ mermaid \in {"absent", "ready"}
  /\ scripts = 0
  /\ setups = 0
  /\ stored \in Modes \cup {"blocked"}
  /\ next = 1
  /\ awaiting = FALSE
  /\ text = Original
  /\ mode = [e \in Editors |-> "isometric-3d"]
  /\ preview = [e \in Editors |-> Nothing]
  /\ jobs = <<>>
  /\ actions = 0
  /\ latest = [e \in Editors |-> [text |-> Original[e], mode |-> "isometric-3d"]]
  /\ overtaken = {}

-----------------------------------------------------------------------------
(* update.                                                                 *)

PendingOf(e) == {k \in DOMAIN jobs : jobs[k].editor = e}

\* Mutant: the load promise is not kept.
AddsScriptUncached == mermaid \in {"absent", "loading"}

\* ensureMermaid adds the script when there is neither Mermaid nor a promise.
AddsScript == mermaid = "absent"

\* main goes on to the next editor once the first update of this one is over.
MainGoesOn == next' = next + 1 /\ awaiting' = FALSE

\* The update is over before it returns.
ShowNow(e, shown, first) ==
  /\ preview' = [preview EXCEPT ![e] = shown]
  /\ IF first THEN MainGoesOn ELSE UNCHANGED mainVars
  /\ UNCHANGED <<pageVars, jobs>>

\* The update awaits Mermaid: its script, or its render.
AwaitMermaid(e, edges, first) ==
  /\ jobs' = Append(jobs, [editor |-> e, edges |-> edges, first |-> first,
                           stage |-> IF mermaid = "ready" THEN "rendering" ELSE "loading"])
  /\ scripts' = IF AddsScript THEN scripts + 1 ELSE scripts
  /\ mermaid' = IF mermaid = "absent" THEN "loading" ELSE mermaid
  /\ setups' = IF mermaid = "ready" /\ setups = 0 THEN 1 ELSE setups
  /\ awaiting' = (awaiting \/ first)
  /\ UNCHANGED <<next, preview>>

Update(e, block, view, first) ==
  LET edges == Parse(block) IN
  /\ latest' = [latest EXCEPT ![e] = [text |-> block, mode |-> view]]
  /\ overtaken' = IF PendingOf(e) # {} THEN overtaken \cup {e} ELSE overtaken \ {e}
  /\ \/ edges = {} /\ ShowNow(e, Shown("empty", {}), first)
     \/ edges # {} /\ view = "isometric-3d" /\ ShowNow(e, Shown("isometric", edges), first)
     \/ /\ edges # {} /\ view = "mermaid-2d" /\ mermaid = "failed"
        /\ ShowNow(e, Shown("failure", {}), first)
     \/ /\ edges # {} /\ view = "mermaid-2d" /\ mermaid # "failed"
        /\ AwaitMermaid(e, edges, first)

-----------------------------------------------------------------------------
(* main and the listeners of an editor.                                    *)

StoredMode == IF stored = "mermaid-2d" THEN "mermaid-2d" ELSE "isometric-3d"

\* attachEditor, up to its first await.
Attach ==
  /\ next <= EditorCount
  /\ ~awaiting
  /\ mode' = [mode EXCEPT ![next] = StoredMode]
  /\ Update(next, text[next], StoredMode, TRUE)
  /\ UNCHANGED <<text, stored, actions>>

\* The listeners are there before the editor's first update is over.
Attached(e) == e < next \/ (e = next /\ awaiting)

Acts(e) ==
  /\ Attached(e)
  /\ actions < MaxActions
  /\ actions' = actions + 1

OtherMode(view) == IF view = "mermaid-2d" THEN "isometric-3d" ELSE "mermaid-2d"

\* The switch: the mode is kept for the page and the editor is updated.
Toggle(e) ==
  /\ Acts(e)
  /\ mode' = [mode EXCEPT ![e] = OtherMode(mode[e])]
  /\ stored' = IF stored = "blocked" THEN stored ELSE OtherMode(mode[e])
  /\ Update(e, text[e], OtherMode(mode[e]), FALSE)
  /\ UNCHANGED text

\* Typing changes the textarea only.
Type(e, block) ==
  /\ Acts(e)
  /\ text' = [text EXCEPT ![e] = block]
  /\ UNCHANGED <<pageVars, mainVars, mode, stored, updateVars>>

UpdateWith(e, block) ==
  /\ Acts(e)
  /\ text' = [text EXCEPT ![e] = block]
  /\ Update(e, block, mode[e], FALSE)
  /\ UNCHANGED <<mode, stored>>

\* The Regenerate button and Ctrl+Enter; Reset; Apply Example Draft.
Regenerate(e) == UpdateWith(e, text[e])
Reset(e) == UpdateWith(e, Original[e])
ApplyDraft(e, draft) == UpdateWith(e, Drafted(text[e], draft))

-----------------------------------------------------------------------------
(* Mermaid.                                                                *)

\* The script has loaded: every update that awaited it starts its render,
\* the first one after initializing Mermaid.
ScriptLoads ==
  /\ mermaid = "loading"
  /\ mermaid' = "ready"
  /\ setups' = IF setups = 0 /\ jobs # <<>> THEN 1 ELSE setups
  /\ jobs' = [k \in DOMAIN jobs |-> [jobs[k] EXCEPT !.stage = "rendering"]]
  /\ UNCHANGED <<scripts, mainVars, editorVars, preview, latest, overtaken, actions>>

\* Mutant: the script's error is not reported to the updates.
ScriptFailsSilently ==
  /\ mermaid = "loading"
  /\ mermaid' = "failed"
  /\ UNCHANGED <<scripts, setups, mainVars, editorVars, updateVars, actions>>

\* The script cannot be loaded, or it defines no Mermaid: every update that
\* awaited it shows the failure, and so does every later one.
ScriptFails ==
  /\ mermaid = "loading"
  /\ mermaid' = "failed"
  /\ preview' = [e \in Editors |-> IF PendingOf(e) # {} THEN Shown("failure", {}) ELSE preview[e]]
  /\ jobs' = <<>>
  /\ IF awaiting THEN MainGoesOn ELSE UNCHANGED mainVars
  /\ UNCHANGED <<scripts, setups, editorVars, latest, overtaken, actions>>

\* A render answers, with a drawing or an error.
RenderAnswers(k, drawn) ==
  /\ k \in DOMAIN jobs
  /\ jobs[k].stage = "rendering"
  /\ preview' = [preview EXCEPT ![jobs[k].editor] =
                   IF drawn THEN Shown("mermaid", jobs[k].edges) ELSE Shown("failure", {})]
  /\ jobs' = RemoveAt(jobs, k)
  /\ IF jobs[k].first THEN MainGoesOn ELSE UNCHANGED mainVars
  /\ UNCHANGED <<pageVars, editorVars, latest, overtaken, actions>>

-----------------------------------------------------------------------------

Reader ==
  \E e \in Editors :
    \/ Toggle(e)
    \/ \E block \in Edits : Type(e, block)
    \/ Regenerate(e)
    \/ Reset(e)
    \/ \E draft \in Drafts : ApplyDraft(e, draft)

Render == \E k \in DOMAIN jobs, drawn \in BOOLEAN : RenderAnswers(k, drawn)
FirstRender == \E k \in DOMAIN jobs, drawn \in BOOLEAN :
                 jobs[k].first /\ RenderAnswers(k, drawn)

Next == Attach \/ Reader \/ ScriptLoads \/ ScriptFails \/ Render

\* The browser reports the end of every script and render it starts, and
\* runs main; nothing obliges the reader.
Fairness ==
  /\ WF_vars(Attach)
  /\ WF_vars(ScriptLoads \/ ScriptFails)
  /\ WF_vars(FirstRender)

Spec == Init /\ [][Next]_vars /\ Fairness

-----------------------------------------------------------------------------
(* Properties.                                                             *)

\* Every variable has its type; Mermaid's script is added and initialized at
\* most once for all editors, and initialized before anything is rendered.
RhaiTypeOK ==
  /\ mermaid \in {"absent", "loading", "ready", "failed"}
  /\ scripts \in 0 .. 1
  /\ setups \in 0 .. 1
  /\ stored \in Modes \cup {"blocked"}
  /\ next \in 1 .. EditorCount + 1
  /\ awaiting \in BOOLEAN
  /\ DOMAIN text = Editors
  /\ mode \in [Editors -> Modes]
  /\ \A e \in Editors :
       preview[e].kind \in {"nothing", "empty", "isometric", "mermaid", "failure"}
  /\ \A k \in DOMAIN jobs :
       /\ jobs[k].editor \in Editors
       /\ jobs[k].stage = "loading" => mermaid = "loading"
       /\ jobs[k].stage = "rendering" => setups = 1
  /\ actions \in 0 .. MaxActions
  /\ overtaken \subseteq Editors

\* An editor whose updates did not overlap, and which awaits nothing, shows
\* the block of its latest update in the mode of that update, and its graph
\* decides every value as the block says; only Mermaid shows a failure.
PreviewDecides ==
  \A e \in Editors \ overtaken :
    (Attached(e) /\ PendingOf(e) = {}) =>
      LET block == latest[e].text IN
      \/ preview[e].kind = "empty" /\ \A l \in Range(block) : l.kind = "ignored"
      \/ preview[e].kind = "failure" /\ latest[e].mode = "mermaid-2d"
      \/ /\ preview[e].kind = IF latest[e].mode = "mermaid-2d" THEN "mermaid" ELSE "isometric"
         /\ DecidesAs(preview[e].edges, block)

\* As the book has it, the position of the switch says what the preview shows:
\* an editor that awaits nothing shows no Mermaid drawing in isometric mode.
SwitchDecidesView ==
  \A e \in Editors :
    (Attached(e) /\ PendingOf(e) = {} /\ preview[e].kind = "mermaid") => mode[e] = "mermaid-2d"

\* However Mermaid fares, every editable block of the page gets its editor.
EditorsAllAttach == <>(next = EditorCount + 1)
=============================================================================
