-------------------------- MODULE ToolConfirmation --------------------------
(***************************************************************************)
(* The desktop chat's tool loop and its confirmation gate: send_message    *)
(* and confirm_pending_tool_call of the Tauri commands, the loop of        *)
(* chat.rs they run on a blocking thread, the single pending_tool_loop     *)
(* slot they share behind a mutex, and the window: the send button, the    *)
(* popups and the queue of events emitted to it.                           *)
(*                                                                         *)
(* A request is one message of the operator.  A mutation call is named by  *)
(* its request, the model round-trip that asked for it and its place in    *)
(* that answer; the id the model gave it is CallId.  Read-only calls run   *)
(* at once and leave no state here.                                        *)
(***************************************************************************)
EXTENDS Naturals, Sequences, FiniteSets

CONSTANTS
  Requests,     \* the messages the operator sends
  MaxTurns,     \* DEFAULT_MAX_TOOL_TURNS, the model round-trips of one request
  MaxCalls,     \* bound: mutation calls in the answer of each round-trip
  Ids,          \* the call ids models choose
  CallId        \* the id of each call

Calls == UNION {Requests \X {t} \X (1 .. MaxCalls[t]) : t \in 1 .. MaxTurns}

ASSUME RequestAssumption == "none" \notin Requests
ASSUME TurnsAssumption == MaxTurns \in Nat \ {0}
ASSUME CallsAssumption == MaxCalls \in [1 .. MaxTurns -> Nat]
ASSUME IdAssumption == CallId \in [Calls -> Ids]

VARIABLES
  phase,        \* where each request is
  turns,        \* turns_used of each request
  pending,      \* the number of mutation calls in its current round
  granted,      \* the resolutions a taken session is resumed with
  slot,         \* AppState.pending_tool_loop
  busy,         \* whether the send button is disabled
  events,       \* emitted to the window and not yet handled, in order
  unshown,      \* rounds in the slot whose popups were not asked for yet
  popup,        \* the popup of each call, and its invoke in flight
  answer,       \* the button last pressed in it
  approvals,    \* history: calls whose Approve was pressed
  asked,        \* history: how often the model was called for each request
  ran,          \* history: how often each call was dispatched
  declined,     \* history: calls answered to the model as declined
  overlap,      \* history: a request was admitted while another was under way
  replaced      \* history: a session was put over another one in the slot

loopVars == <<phase, turns, pending, granted>>
windowVars == <<busy, popup, answer, approvals>>
historyVars == <<asked, ran, declined, overlap, replaced>>
vars == <<loopVars, slot, events, unshown, windowVars, historyVars>>

Unanswered == [id \in Ids |-> "none"]
NoSession == [owner |-> "none", answers |-> Unanswered]

\* The calls held back in the current round of request i.
Round(i) == {<<i, turns[i], k>> : k \in 1 .. pending[i]}

\* Request i has passed the check of the slot and has not ended or suspended.
Running(i) == phase[i] \in {"admitted", "model", "resuming"}

Emit(es) == events' = events \o es
BusyEvent(b) == [kind |-> "busy", value |-> b, calls |-> {}]
PopupsEvent(cs) == [kind |-> "popups", value |-> TRUE, calls |-> cs]

Init ==
  /\ phase = [i \in Requests |-> "idle"]
  /\ turns = [i \in Requests |-> 0]
  /\ pending = [i \in Requests |-> 0]
  /\ granted = [i \in Requests |-> Unanswered]
  /\ slot = NoSession
  /\ busy = FALSE
  /\ events = <<>>
  /\ unshown = {}
  /\ popup = [c \in Calls |-> "none"]
  /\ answer = [c \in Calls |-> "none"]
  /\ approvals = {}
  /\ asked = [i \in Requests |-> 0]
  /\ ran = [c \in Calls |-> 0]
  /\ declined = {}
  /\ overlap = FALSE
  /\ replaced = FALSE

-----------------------------------------------------------------------------
(* The operator.                                                           *)

\* The button is disabled by an event of the backend, not by the click: a
\* second message can be sent before the first one's event is handled.
ClickSend(i) ==
  /\ phase[i] = "idle"
  /\ ~busy
  /\ phase' = [phase EXCEPT ![i] = "clicked"]
  /\ UNCHANGED <<turns, pending, granted, slot, events, unshown, windowVars, historyVars>>

\* respond(approved): both buttons are disabled until the invoke returns.
Respond(c, decision) ==
  /\ popup[c] = "open"
  /\ popup' = [popup EXCEPT ![c] = "sent"]
  /\ answer' = [answer EXCEPT ![c] = decision]
  /\ approvals' = IF decision = "yes" THEN approvals \cup {c} ELSE approvals
  /\ UNCHANGED <<loopVars, slot, busy, events, unshown, historyVars>>

-----------------------------------------------------------------------------
(* send_message.                                                           *)

\* Refused because the message is empty or a round awaits approval, or, past
\* that check, because the settings cannot be loaded or saved: nothing starts.
RefuseSend(i) ==
  /\ phase[i] \in {"clicked", "admitted"}
  /\ phase' = [phase EXCEPT ![i] = "refused"]
  /\ UNCHANGED <<turns, pending, granted, slot, events, unshown, windowVars, historyVars>>

\* Mutant: the command no longer looks at the slot.
AdmitSendIgnoringSlot(i) ==
  /\ phase[i] = "clicked"
  /\ phase' = [phase EXCEPT ![i] = "admitted"]
  /\ overlap' = (overlap \/ \E j \in Requests \ {i} : Running(j))
  /\ UNCHANGED <<turns, pending, granted, slot, events, unshown, windowVars>>
  /\ UNCHANGED <<asked, ran, declined, replaced>>

\* Admitted: the slot is empty now, and its lock is released.
AdmitSend(i) ==
  /\ phase[i] = "clicked"
  /\ slot = NoSession
  /\ phase' = [phase EXCEPT ![i] = "admitted"]
  /\ overlap' = (overlap \/ \E j \in Requests \ {i} : Running(j))
  /\ UNCHANGED <<turns, pending, granted, slot, events, unshown, windowVars>>
  /\ UNCHANGED <<asked, ran, declined, replaced>>

\* The settings are saved: the window is told to disable its inputs and the
\* loop starts on a thread of its own, whatever the slot holds by now.
StartLoop(i) ==
  /\ phase[i] = "admitted"
  /\ phase' = [phase EXCEPT ![i] = "model"]
  /\ Emit(<<BusyEvent(TRUE)>>)
  /\ UNCHANGED <<turns, pending, granted, slot, unshown, windowVars, historyVars>>

-----------------------------------------------------------------------------
(* drive_tool_loop, with apply_tool_loop_outcome for its outcome.          *)

Finish(i) ==
  /\ phase' = [phase EXCEPT ![i] = "done"]
  /\ Emit(<<BusyEvent(FALSE)>>)
  /\ UNCHANGED <<pending, granted, slot, unshown, windowVars>>
  /\ UNCHANGED <<ran, declined, overlap, replaced>>

\* The model is called once more.
Ask(i) == asked' = [asked EXCEPT ![i] = @ + 1]

\* Mutant: one round-trip too many.
BudgetOffByOne(i) == turns[i] <= MaxTurns

WithinBudget(i) == turns[i] < MaxTurns

\* The budget is spent: no further call of the model.
Exhaust(i) ==
  /\ phase[i] = "model"
  /\ ~WithinBudget(i)
  /\ Finish(i)
  /\ UNCHANGED <<turns, asked>>

\* The endpoint fails: the request ends with an error.
ModelFails(i) ==
  /\ phase[i] = "model"
  /\ WithinBudget(i)
  /\ Ask(i)
  /\ Finish(i)
  /\ UNCHANGED turns

\* The model replies in plain text.
ModelReplies(i) ==
  /\ phase[i] = "model"
  /\ WithinBudget(i)
  /\ Ask(i)
  /\ turns' = [turns EXCEPT ![i] = @ + 1]
  /\ Finish(i)

\* The model asks for read-only tools only: they are dispatched and their
\* results are sent back in the next round-trip.
ModelReads(i) ==
  /\ phase[i] = "model"
  /\ WithinBudget(i)
  /\ Ask(i)
  /\ turns' = [turns EXCEPT ![i] = @ + 1]
  /\ UNCHANGED <<phase, pending, granted, slot, events, unshown, windowVars>>
  /\ UNCHANGED <<ran, declined, overlap, replaced>>

\* The model asks for mutation calls: the loop is suspended into the slot,
\* whatever the slot holds.
Suspend(i) ==
  /\ phase[i] = "model"
  /\ WithinBudget(i)
  /\ Ask(i)
  /\ LET turn == turns[i] + 1 IN
       \E n \in 1 .. MaxCalls[turn] :
         /\ pending' = [pending EXCEPT ![i] = n]
         /\ turns' = [turns EXCEPT ![i] = turn]
         /\ unshown' = unshown \cup {{<<i, turn, k>> : k \in 1 .. n}}
  /\ phase' = [phase EXCEPT ![i] = "awaiting"]
  /\ slot' = [owner |-> i, answers |-> Unanswered]
  /\ replaced' = (replaced \/ slot # NoSession)
  /\ UNCHANGED <<granted, events, windowVars, ran, declined, overlap>>

\* With the lock released, the window is asked to show the round's popups.
Announce ==
  \E calls \in unshown :
    /\ unshown' = unshown \ {calls}
    /\ Emit(<<BusyEvent(TRUE), PopupsEvent(calls)>>)
    /\ UNCHANGED <<loopVars, slot, windowVars, historyVars>>

-----------------------------------------------------------------------------
(* The window: listeners of chat-update and tool-confirmation-required.    *)

Deliver ==
  /\ events # <<>>
  /\ LET e == Head(events) IN
       \/ /\ e.kind = "busy"
          /\ busy' = e.value
          /\ UNCHANGED popup
       \/ /\ e.kind = "popups"
          /\ popup' = [c \in Calls |-> IF c \in e.calls THEN "open" ELSE popup[c]]
          /\ UNCHANGED busy
  /\ events' = Tail(events)
  /\ UNCHANGED <<loopVars, slot, unshown, answer, approvals, historyVars>>

-----------------------------------------------------------------------------
(* confirm_pending_tool_call: two critical sections, the slot unlocked     *)
(* between them.                                                           *)

\* The ids of the session in the slot.
Awaited == IF slot = NoSession THEN {} ELSE {CallId[c] : c \in Round(slot.owner)}

\* Refused: no session, or the id is not one of its calls.  The popup's
\* buttons are enabled again.
ConfirmRefused(c) ==
  /\ popup[c] = "sent"
  /\ CallId[c] \notin Awaited
  /\ popup' = [popup EXCEPT ![c] = "open"]
  /\ UNCHANGED <<loopVars, slot, busy, events, unshown, answer, approvals, historyVars>>

\* Mutant: the loop goes on at the first answer.
AnyResolved(answers) == \E id \in Awaited : answers[id] # "none"

AllResolved(answers) == \A id \in Awaited : answers[id] # "none"

\* Mutant: the answers are counted before this one is inserted.
RecordCountingFirst(c) ==
  LET answers == [slot.answers EXCEPT ![CallId[c]] = answer[c]]
  IN  /\ popup[c] = "sent"
      /\ CallId[c] \in Awaited
      /\ slot' = [slot EXCEPT !.answers = answers]
      /\ popup' = [popup EXCEPT ![c] = IF AllResolved(slot.answers) THEN "taking" ELSE "closed"]
      /\ UNCHANGED <<loopVars, busy, events, unshown, answer, approvals, historyVars>>

\* The decision is recorded; the call that resolves the last id goes on.
Record(c) ==
  LET answers == [slot.answers EXCEPT ![CallId[c]] = answer[c]]
  IN  /\ popup[c] = "sent"
      /\ CallId[c] \in Awaited
      /\ slot' = [slot EXCEPT !.answers = answers]
      /\ popup' = [popup EXCEPT ![c] = IF AllResolved(answers) THEN "taking" ELSE "closed"]
      /\ UNCHANGED <<loopVars, busy, events, unshown, answer, approvals, historyVars>>

\* Whatever session the slot holds by now is taken and resumed.
Take(c) ==
  /\ popup[c] = "taking"
  /\ slot # NoSession
  /\ phase' = [phase EXCEPT ![slot.owner] = "resuming"]
  /\ granted' = [granted EXCEPT ![slot.owner] = slot.answers]
  /\ slot' = NoSession
  /\ popup' = [popup EXCEPT ![c] = "closed"]
  /\ UNCHANGED <<turns, pending, busy, events, unshown, answer, approvals, historyVars>>

\* Another call took it first: an error, and the buttons are enabled again.
TakeRefused(c) ==
  /\ popup[c] = "taking"
  /\ slot = NoSession
  /\ popup' = [popup EXCEPT ![c] = "open"]
  /\ UNCHANGED <<loopVars, slot, busy, events, unshown, answer, approvals, historyVars>>

\* Mutant: a missing answer is taken as an approval.
ApprovedUnlessRejected(i, c) == granted[i][CallId[c]] # "no"

\* A call runs on an explicit approval; a missing answer is a rejection.
Approved(i, c) == granted[i][CallId[c]] = "yes"

\* Mutant: the resumed loop starts its budget over.
ResumeWithFreshBudget(i) ==
  LET approved == {c \in Round(i) : Approved(i, c)}
  IN  /\ phase[i] = "resuming"
      /\ ran' = [c \in Calls |-> IF c \in approved THEN ran[c] + 1 ELSE ran[c]]
      /\ declined' = declined \cup (Round(i) \ approved)
      /\ phase' = [phase EXCEPT ![i] = "model"]
      /\ turns' = [turns EXCEPT ![i] = 0]
      /\ pending' = [pending EXCEPT ![i] = 0]
      /\ granted' = [granted EXCEPT ![i] = Unanswered]
      /\ UNCHANGED <<slot, events, unshown, windowVars, asked, overlap, replaced>>

\* resume_after_confirmation: approved calls are dispatched, the others are
\* answered as declined, and the loop goes on where its budget stood.
Resume(i) ==
  LET approved == {c \in Round(i) : Approved(i, c)}
  IN  /\ phase[i] = "resuming"
      /\ ran' = [c \in Calls |-> IF c \in approved THEN ran[c] + 1 ELSE ran[c]]
      /\ declined' = declined \cup (Round(i) \ approved)
      /\ phase' = [phase EXCEPT ![i] = "model"]
      /\ pending' = [pending EXCEPT ![i] = 0]
      /\ granted' = [granted EXCEPT ![i] = Unanswered]
      /\ UNCHANGED <<turns, slot, events, unshown, windowVars, asked, overlap, replaced>>

-----------------------------------------------------------------------------

Operator ==
  \/ \E i \in Requests : ClickSend(i)
  \/ \E c \in Calls, decision \in {"yes", "no"} : Respond(c, decision)

\* The steps of the thread of request i.
Thread(i) ==
  \/ Exhaust(i)
  \/ ModelFails(i)
  \/ ModelReplies(i)
  \/ ModelReads(i)
  \/ Suspend(i)
  \/ Resume(i)

Admission(i) == RefuseSend(i) \/ AdmitSend(i) \/ StartLoop(i)

\* The steps of the confirm_pending_tool_call a popup is waiting for.
Confirm(c) == ConfirmRefused(c) \/ Record(c) \/ Take(c) \/ TakeRefused(c)

Next ==
  \/ Operator
  \/ \E i \in Requests : Admission(i) \/ Thread(i)
  \/ Announce
  \/ Deliver
  \/ \E c \in Calls : Confirm(c)

\* Commands and threads that are started run, and the window handles its
\* events; nothing obliges the operator to send or to answer.
Fairness ==
  /\ \A i \in Requests : WF_vars(Admission(i)) /\ WF_vars(Thread(i))
  /\ WF_vars(Announce) /\ WF_vars(Deliver)
  /\ \A c \in Calls : WF_vars(Confirm(c))

Spec == Init /\ [][Next]_vars
FairSpec == Spec /\ Fairness

-----------------------------------------------------------------------------
(* Properties.                                                             *)

\* Every variable has its type.
ToolTypeOK ==
  /\ phase \in [Requests -> {"idle", "clicked", "admitted", "refused", "model",
                             "awaiting", "resuming", "done"}]
  /\ turns \in [Requests -> 0 .. MaxTurns]
  /\ pending \in [Requests -> Nat]
  /\ \A i \in Requests : Round(i) \subseteq Calls
  /\ granted \in [Requests -> [Ids -> {"none", "yes", "no"}]]
  /\ \/ slot = NoSession
     \/ slot \in [owner : Requests, answers : [Ids -> {"none", "yes", "no"}]]
  /\ busy \in BOOLEAN
  /\ events \in Seq([kind : {"busy", "popups"}, value : BOOLEAN, calls : SUBSET Calls])
  /\ unshown \subseteq SUBSET Calls
  /\ popup \in [Calls -> {"none", "open", "sent", "taking", "closed"}]
  /\ answer \in [Calls -> {"none", "yes", "no"}]
  /\ approvals \subseteq Calls
  /\ asked \in [Requests -> Nat]
  /\ ran \in [Calls -> Nat]
  /\ declined \subseteq Calls
  /\ overlap \in BOOLEAN
  /\ replaced \in BOOLEAN

\* The model is called no more often than the budget allows, over all the
\* suspensions of a request together: the turns used go with the suspended
\* loop and are neither given back nor counted again on resumption.
BudgetSpansSuspensions == \A i \in Requests : asked[i] <= MaxTurns

\* A mutation call is dispatched at most once, and only after the operator
\* pressed Approve for its id: with ids that are distinct, for that very call.
OnlyApprovedRun ==
  \A c \in Calls :
    /\ ran[c] <= 1
    /\ ran[c] = 1 => \E d \in approvals : CallId[d] = CallId[c]

IdsDistinct == \A c, d \in Calls : CallId[c] = CallId[d] => c = d

\* The calls of the round of c that were shown to the operator.
ShownWith(c) == {d \in Calls : d[1] = c[1] /\ d[2] = c[2] /\ popup[d] # "none"}

\* Unless a session was put over another, the operator's word is what
\* happens: nothing runs before its whole round is answered, what ran was
\* approved, what the model was told is declined was rejected, and a popup
\* that can be answered belongs to the round in the slot.
RoundsAnswered ==
  (IdsDistinct /\ ~replaced) =>
    \A c \in Calls :
      /\ ran[c] > 0 => answer[c] = "yes" /\ \A d \in ShownWith(c) : answer[d] # "none"
      /\ c \in declined => answer[c] = "no"
      /\ popup[c] = "open" => slot # NoSession /\ c \in Round(slot.owner)

\* A round is put over another only when two requests ran at once: a message
\* sent while a round awaits approval, or after it, never displaces it.  Not
\* even one whose check came before the round was put into the slot, unless
\* the loop that put it there was then already under way.
OnlyOverlapReplaces == replaced => overlap

\* A round whose calls have all been answered does not stay in the slot.
AnsweredRoundResumes ==
  \A i \in Requests :
    (slot.owner = i /\ \A c \in Round(i) : answer[c] # "none") ~> slot.owner # i
=============================================================================
