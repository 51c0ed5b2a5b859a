----------------------- MODULE ToolConfirmationProofs -----------------------
(***************************************************************************)
(* Theorems of ToolConfirmation, for every number of requests, turns and   *)
(* calls, and for any ids the models choose.                               *)
(***************************************************************************)
EXTENDS ToolConfirmation, TLAPS

Decisions == {"none", "yes", "no"}
Phases == {"idle", "clicked", "admitted", "refused", "model", "awaiting", "resuming", "done"}
PopupStates == {"none", "open", "sent", "taking", "closed"}
Sessions == [owner : Requests, answers : [Ids -> Decisions]]
Events == [kind : {"busy", "popups"}, value : BOOLEAN, calls : SUBSET Calls]

\* The phases in which a request has no pending calls.
Fresh == {"idle", "clicked", "admitted", "model"}

LEMMA CallShape ==
  ASSUME NEW i \in Requests, NEW t \in 1 .. MaxTurns, NEW n \in 0 .. MaxCalls[t]
  PROVE  {<<i, t, k>> : k \in 1 .. n} \subseteq Calls
<1>1. MaxCalls[t] \in Nat
  BY CallsAssumption
<1>2. ASSUME NEW k \in 1 .. n PROVE <<i, t, k>> \in Requests \X {t} \X (1 .. MaxCalls[t])
  BY <1>1
<1> QED BY <1>2 DEF Calls

LEMMA CallParts == \A c \in Calls : c[1] \in Requests /\ c[2] \in 1 .. MaxTurns
BY DEF Calls

LEMMA UnansweredType == Unanswered \in [Ids -> Decisions]
BY DEF Unanswered, Decisions

-----------------------------------------------------------------------------
(* Types, one conjunct for each part of the state.                         *)

LoopTypes ==
  /\ phase \in [Requests -> Phases]
  /\ turns \in [Requests -> 0 .. MaxTurns]
  /\ pending \in [Requests -> Nat]
  /\ granted \in [Requests -> [Ids -> Decisions]]
  /\ \A i \in Requests : Round(i) \subseteq Calls
  /\ \A i \in Requests : phase[i] \in Fresh => pending[i] = 0

SlotTypes == slot = NoSession \/ slot \in Sessions

WindowTypes ==
  /\ busy \in BOOLEAN
  /\ popup \in [Calls -> PopupStates]
  /\ answer \in [Calls -> Decisions]
  /\ approvals \subseteq Calls

HistoryTypes ==
  /\ asked \in [Requests -> Nat]
  /\ ran \in [Calls -> Nat]
  /\ declined \subseteq Calls
  /\ overlap \in BOOLEAN
  /\ replaced \in BOOLEAN

QueueTypes == events \in Seq(Events) /\ unshown \subseteq SUBSET Calls

TypeInv == LoopTypes /\ SlotTypes /\ WindowTypes /\ HistoryTypes /\ QueueTypes

LEMMA TypesImplied == TypeInv => ToolTypeOK
BY DEF TypeInv, LoopTypes, SlotTypes, WindowTypes, HistoryTypes, QueueTypes, ToolTypeOK, Events, Sessions,
       Decisions, Phases, PopupStates

LEMMA InitTypes == Init => TypeInv
<1> SUFFICES ASSUME Init PROVE TypeInv
  OBVIOUS
<1> USE DEF Init
<1>1. LoopTypes
  BY TurnsAssumption, UnansweredType DEF LoopTypes, Round, Phases
<1>2. SlotTypes /\ HistoryTypes
  BY DEF SlotTypes, HistoryTypes
<1>3. WindowTypes
  BY DEF WindowTypes, PopupStates, Decisions
<1>4. QueueTypes
  BY DEF QueueTypes
<1> QED BY <1>1, <1>2, <1>3, <1>4 DEF TypeInv

LEMMA LoopsKept == ASSUME LoopTypes, UNCHANGED loopVars PROVE LoopTypes'
BY DEF LoopTypes, loopVars, Round

LEMMA SlotKept == ASSUME SlotTypes, UNCHANGED slot PROVE SlotTypes'
BY DEF SlotTypes, NoSession, Unanswered

LEMMA WindowKept == ASSUME WindowTypes, UNCHANGED windowVars PROVE WindowTypes'
BY DEF WindowTypes, windowVars

LEMMA QueueKept == ASSUME QueueTypes, UNCHANGED <<events, unshown>> PROVE QueueTypes'
BY DEF QueueTypes

LEMMA HistoryKept == ASSUME HistoryTypes, UNCHANGED historyVars PROVE HistoryTypes'
BY DEF HistoryTypes, historyVars

\* One request moves to another phase, and no round changes.
LEMMA PhaseMoved ==
  ASSUME LoopTypes, NEW i \in Requests, NEW p \in Phases,
         phase' = [phase EXCEPT ![i] = p],
         p \in Fresh => pending[i] = 0,
         UNCHANGED <<turns, pending, granted>>
  PROVE  LoopTypes'
<1>1. \A j \in Requests : Round(j)' = Round(j)
  BY DEF Round
<1>2. phase' \in [Requests -> Phases]
  BY DEF LoopTypes
<1>3. \A j \in Requests : phase'[j] \in Fresh => pending'[j] = 0
  BY DEF LoopTypes
<1> QED BY <1>1, <1>2, <1>3 DEF LoopTypes

LEMMA EmitTypes ==
  ASSUME QueueTypes, NEW es \in Seq(Events), Emit(es), unshown' \subseteq unshown
  PROVE  QueueTypes'
BY DEF Emit, QueueTypes

LEMMA PairSeq == ASSUME NEW S, NEW a \in S, NEW b \in S PROVE <<a, b>> \in Seq(S)
OBVIOUS

LEMMA BusyEventType == ASSUME NEW b \in BOOLEAN PROVE <<BusyEvent(b)>> \in Seq(Events)
BY DEF BusyEvent, Events

-----------------------------------------------------------------------------
(* Every step keeps the types.                                             *)

LEMMA OperatorTypes == TypeInv /\ Operator => TypeInv'
<1> SUFFICES ASSUME TypeInv, Operator PROVE TypeInv'
  OBVIOUS
<1>0. LoopTypes /\ SlotTypes /\ WindowTypes /\ HistoryTypes /\ QueueTypes
  BY DEF TypeInv
<1>1. CASE \E i \in Requests : ClickSend(i)
  <2>1. PICK i \in Requests : ClickSend(i)
    BY <1>1
  <2>2. /\ phase[i] = "idle"
        /\ phase' = [phase EXCEPT ![i] = "clicked"]
        /\ UNCHANGED <<turns, pending, granted>>
        /\ UNCHANGED slot /\ UNCHANGED <<events, unshown>> /\ UNCHANGED windowVars /\ UNCHANGED historyVars
    BY <2>1 DEF ClickSend
  <2>3. phase[i] \in Phases /\ "clicked" \in Phases
    BY <2>2 DEF Phases
  <2>4. LoopTypes'
    <3>1. ASSUME NEW j \in Requests PROVE phase'[j] \in Fresh => pending'[j] = 0
      BY <1>0, <2>2 DEF LoopTypes, Fresh
    <3>2. \A j \in Requests : Round(j)' = Round(j)
      BY <2>2 DEF Round
    <3>3. phase' \in [Requests -> Phases]
      BY <1>0, <2>2, <2>3 DEF LoopTypes
    <3> QED BY <1>0, <2>2, <3>1, <3>2, <3>3 DEF LoopTypes
  <2> QED BY <1>0, <2>2, <2>4, SlotKept, WindowKept, HistoryKept, QueueKept DEF TypeInv
<1>2. CASE \E c \in Calls, decision \in {"yes", "no"} : Respond(c, decision)
  <2>1. PICK c \in Calls, decision \in {"yes", "no"} : Respond(c, decision)
    BY <1>2
  <2>2. WindowTypes'
    BY <1>0, <2>1 DEF Respond, WindowTypes, PopupStates, Decisions
  <2>3. UNCHANGED loopVars /\ UNCHANGED slot /\ UNCHANGED <<events, unshown>> /\ UNCHANGED historyVars
    BY <2>1 DEF Respond
  <2> QED BY <1>0, <2>2, <2>3, LoopsKept, SlotKept, HistoryKept, QueueKept DEF TypeInv
<1> QED BY <1>1, <1>2 DEF Operator

LEMMA DeliverTypes == TypeInv /\ Deliver => TypeInv'
<1> SUFFICES ASSUME TypeInv, Deliver PROVE TypeInv'
  OBVIOUS
<1>0. LoopTypes /\ SlotTypes /\ WindowTypes /\ HistoryTypes /\ QueueTypes
  BY DEF TypeInv
<1>1. Head(events) \in Events /\ Tail(events) \in Seq(Events)
  BY <1>0 DEF Deliver, QueueTypes
<1>2. busy' \in BOOLEAN
  BY <1>0, <1>1 DEF Deliver, WindowTypes, Events
<1>3. popup' \in [Calls -> PopupStates]
  BY <1>0, <1>1 DEF Deliver, WindowTypes, PopupStates
<1>4. answer' = answer /\ approvals' = approvals /\ events' = Tail(events)
  BY DEF Deliver
<1>5. UNCHANGED loopVars /\ UNCHANGED slot /\ UNCHANGED historyVars
  BY DEF Deliver
<1>6. WindowTypes'
  BY <1>0, <1>2, <1>3, <1>4 DEF WindowTypes
<1>7. QueueTypes'
  BY <1>0, <1>1, <1>4 DEF Deliver, QueueTypes
<1> QED BY <1>0, <1>5, <1>6, <1>7, LoopsKept, SlotKept, HistoryKept DEF TypeInv

LEMMA AdmissionTypes == ASSUME TypeInv, NEW i \in Requests, Admission(i) PROVE TypeInv'
<1>0. LoopTypes /\ SlotTypes /\ WindowTypes /\ HistoryTypes /\ QueueTypes
  BY DEF TypeInv
<1>1. CASE RefuseSend(i)
  <2>1. /\ phase' = [phase EXCEPT ![i] = "refused"]
        /\ UNCHANGED <<turns, pending, granted>>
        /\ UNCHANGED slot /\ UNCHANGED <<events, unshown>> /\ UNCHANGED windowVars /\ UNCHANGED historyVars
    BY <1>1 DEF RefuseSend
  <2>2. LoopTypes'
    BY <1>0, <2>1, PhaseMoved DEF Phases, Fresh
  <2> QED BY <1>0, <2>1, <2>2, SlotKept, WindowKept, HistoryKept, QueueKept DEF TypeInv
<1>2. CASE AdmitSend(i)
  <2>1. /\ phase[i] = "clicked"
        /\ phase' = [phase EXCEPT ![i] = "admitted"]
        /\ UNCHANGED <<turns, pending, granted>>
        /\ UNCHANGED slot /\ UNCHANGED <<events, unshown>> /\ UNCHANGED windowVars
        /\ asked' = asked /\ ran' = ran /\ declined' = declined /\ replaced' = replaced
        /\ overlap' = (overlap \/ \E j \in Requests \ {i} : Running(j))
    BY <1>2 DEF AdmitSend
  <2>2. LoopTypes'
    <3>1. pending[i] = 0
      BY <1>0, <2>1 DEF LoopTypes, Fresh
    <3> QED BY <1>0, <2>1, <3>1, PhaseMoved DEF Phases, Fresh
  <2>3. HistoryTypes'
    BY <1>0, <2>1 DEF HistoryTypes
  <2> QED BY <1>0, <2>1, <2>2, <2>3, SlotKept, WindowKept, QueueKept DEF TypeInv
<1>3. CASE StartLoop(i)
  <2>1. /\ phase[i] = "admitted"
        /\ phase' = [phase EXCEPT ![i] = "model"]
        /\ UNCHANGED <<turns, pending, granted>>
        /\ UNCHANGED slot /\ UNCHANGED windowVars /\ UNCHANGED historyVars
        /\ unshown' \subseteq unshown
    BY <1>3 DEF StartLoop
  <2>2. LoopTypes'
    <3>1. pending[i] = 0
      BY <1>0, <2>1 DEF LoopTypes, Fresh
    <3> QED BY <1>0, <2>1, <3>1, PhaseMoved DEF Phases, Fresh
  <2>3. QueueTypes'
    BY <1>0, <1>3, <2>1, BusyEventType, EmitTypes DEF StartLoop
  <2> QED BY <1>0, <2>1, <2>2, <2>3, SlotKept, WindowKept, HistoryKept DEF TypeInv
<1> QED BY <1>1, <1>2, <1>3 DEF Admission

\* A round is announced: two events more, and a round less to show.
LEMMA AnnounceTypes == ASSUME TypeInv, Announce PROVE TypeInv'
<1>0. LoopTypes /\ SlotTypes /\ WindowTypes /\ HistoryTypes /\ QueueTypes
  BY DEF TypeInv
<1>1. PICK calls \in unshown :
        /\ unshown' = unshown \ {calls}
        /\ Emit(<<BusyEvent(TRUE), PopupsEvent(calls)>>)
        /\ UNCHANGED loopVars /\ UNCHANGED slot /\ UNCHANGED windowVars /\ UNCHANGED historyVars
  BY DEF Announce
<1>2. BusyEvent(TRUE) \in Events
  BY DEF BusyEvent, Events
<1>3. PopupsEvent(calls) \in Events
  BY <1>0 DEF PopupsEvent, Events, QueueTypes
<1>4. <<BusyEvent(TRUE), PopupsEvent(calls)>> \in Seq(Events)
  BY <1>2, <1>3, PairSeq
<1>5. QueueTypes'
  BY <1>0, <1>1, <1>4, EmitTypes
<1> QED BY <1>0, <1>1, <1>5, LoopsKept, SlotKept, WindowKept, HistoryKept DEF TypeInv

\* One request moves to another phase with a round of its own.
LEMMA LoopMoved ==
  ASSUME LoopTypes, NEW i \in Requests, NEW p \in Phases, NEW t \in 0 .. MaxTurns,
         NEW n \in Nat,
         \A k \in 1 .. n : <<i, t, k>> \in Calls,
         p \in Fresh => n = 0,
         phase' = [phase EXCEPT ![i] = p],
         turns' = [turns EXCEPT ![i] = t],
         pending' = [pending EXCEPT ![i] = n],
         granted' \in [Requests -> [Ids -> Decisions]]
  PROVE  LoopTypes'
<1>1. /\ phase' \in [Requests -> Phases]
      /\ turns' \in [Requests -> 0 .. MaxTurns]
      /\ pending' \in [Requests -> Nat]
  BY DEF LoopTypes
<1>2. ASSUME NEW j \in Requests PROVE Round(j)' \subseteq Calls
  <2>1. CASE j = i
    <3>1. turns'[j] = t /\ pending'[j] = n
      BY <2>1 DEF LoopTypes
    <3>2. Round(j)' = {<<i, t, k>> : k \in 1 .. n}
      BY <2>1, <3>1 DEF Round
    <3> QED BY <3>2
  <2>2. CASE j # i
    <3>1. turns'[j] = turns[j] /\ pending'[j] = pending[j]
      BY <2>2 DEF LoopTypes
    <3>2. Round(j)' = Round(j)
      BY <3>1 DEF Round
    <3> QED BY <3>2 DEF LoopTypes
  <2> QED BY <2>1, <2>2
<1>3. \A j \in Requests : phase'[j] \in Fresh => pending'[j] = 0
  BY DEF LoopTypes
<1> QED BY <1>1, <1>2, <1>3 DEF LoopTypes

LEMMA AskTypes ==
  ASSUME asked \in [Requests -> Nat], NEW i \in Requests, asked' = asked \/ Ask(i)
  PROVE  asked' \in [Requests -> Nat]
BY DEF Ask

LEMMA FinishTypes ==
  ASSUME TypeInv, NEW i \in Requests, phase[i] = "model", Finish(i),
         asked' = asked \/ Ask(i),
         NEW t \in 0 .. MaxTurns, turns' = [turns EXCEPT ![i] = t]
  PROVE  TypeInv'
<1>0. LoopTypes /\ SlotTypes /\ WindowTypes /\ HistoryTypes /\ QueueTypes
  BY DEF TypeInv
<1>1. /\ phase' = [phase EXCEPT ![i] = "done"]
      /\ pending' = pending /\ granted' = granted
      /\ UNCHANGED slot /\ UNCHANGED windowVars /\ unshown' \subseteq unshown
      /\ UNCHANGED <<ran, declined, overlap, replaced>>
  BY DEF Finish
<1>2. QueueTypes'
  BY <1>0, <1>1, BusyEventType, EmitTypes DEF Finish
<1>3. pending[i] = 0 /\ pending' = [pending EXCEPT ![i] = 0]
  BY <1>0, <1>1 DEF LoopTypes, Fresh
<1>4. 0 \in Nat /\ \A k \in 1 .. 0 : <<i, t, k>> \in Calls
  OBVIOUS
<1>5. "done" \in Phases /\ "done" \notin Fresh /\ granted' \in [Requests -> [Ids -> Decisions]]
  BY <1>0, <1>1 DEF Phases, Fresh, LoopTypes
<1>6. LoopTypes'
  BY <1>0, <1>1, <1>3, <1>4, <1>5, LoopMoved
<1>7. HistoryTypes'
  BY <1>0, <1>1, AskTypes DEF HistoryTypes
<1> QED BY <1>0, <1>1, <1>2, <1>6, <1>7, SlotKept, WindowKept DEF TypeInv

LEMMA SuspendTypes == ASSUME TypeInv, NEW i \in Requests, Suspend(i) PROVE TypeInv'
<1>0. LoopTypes /\ SlotTypes /\ WindowTypes /\ HistoryTypes /\ QueueTypes
  BY DEF TypeInv
<1> DEFINE t == turns[i] + 1
<1>1. t \in 1 .. MaxTurns
  BY <1>0, TurnsAssumption DEF Suspend, WithinBudget, LoopTypes
<1>2. PICK n \in 1 .. MaxCalls[t] :
        /\ pending' = [pending EXCEPT ![i] = n]
        /\ turns' = [turns EXCEPT ![i] = t]
        /\ unshown' = unshown \cup {{<<i, t, k>> : k \in 1 .. n}}
  BY DEF Suspend
<1>3. /\ phase' = [phase EXCEPT ![i] = "awaiting"]
      /\ slot' = [owner |-> i, answers |-> Unanswered]
      /\ replaced' = (replaced \/ slot # NoSession)
      /\ granted' = granted /\ UNCHANGED windowVars /\ events' = events /\ Ask(i)
      /\ ran' = ran /\ declined' = declined /\ overlap' = overlap
  BY DEF Suspend
<1> HIDE DEF t
<1>4. MaxCalls[t] \in Nat
  BY <1>1, CallsAssumption
<1>5. {<<i, t, k>> : k \in 1 .. n} \subseteq Calls
  BY <1>1, <1>4, CallShape
<1>6. n \in Nat /\ t \in 0 .. MaxTurns
  BY <1>1, <1>4
<1>7. "awaiting" \in Phases /\ "awaiting" \notin Fresh
  BY DEF Phases, Fresh
<1>8. LoopTypes'
  <2>1. granted' \in [Requests -> [Ids -> Decisions]]
    BY <1>0, <1>3 DEF LoopTypes
  <2> QED BY <1>0, <1>2, <1>3, <1>5, <1>6, <1>7, <2>1, LoopMoved
<1>9. SlotTypes'
  BY <1>3, UnansweredType DEF SlotTypes, Sessions
<1>10. HistoryTypes'
  BY <1>0, <1>3, AskTypes DEF HistoryTypes
<1>11. QueueTypes'
  BY <1>0, <1>2, <1>3, <1>5 DEF QueueTypes
<1> QED BY <1>0, <1>3, <1>8, <1>9, <1>10, <1>11, WindowKept DEF TypeInv

LEMMA ResumeTypes == ASSUME TypeInv, NEW i \in Requests, Resume(i) PROVE TypeInv'
<1>0. LoopTypes /\ SlotTypes /\ WindowTypes /\ HistoryTypes /\ QueueTypes
  BY DEF TypeInv
<1>1. /\ phase' = [phase EXCEPT ![i] = "model"]
      /\ pending' = [pending EXCEPT ![i] = 0]
      /\ granted' = [granted EXCEPT ![i] = Unanswered]
      /\ turns' = turns
      /\ UNCHANGED slot /\ UNCHANGED <<events, unshown>> /\ UNCHANGED windowVars
      /\ asked' = asked /\ overlap' = overlap /\ replaced' = replaced
  BY DEF Resume
<1>2. turns' = [turns EXCEPT ![i] = turns[i]] /\ turns[i] \in 0 .. MaxTurns
  BY <1>0, <1>1 DEF LoopTypes
<1>3. granted' \in [Requests -> [Ids -> Decisions]]
  BY <1>0, <1>1, UnansweredType DEF LoopTypes
<1>4. 0 \in Nat /\ (\A k \in 1 .. 0 : <<i, turns[i], k>> \in Calls) /\ "model" \in Phases
  BY DEF Phases
<1>5. LoopTypes'
  BY <1>0, <1>1, <1>2, <1>3, <1>4, LoopMoved
<1>6. ran' \in [Calls -> Nat]
  BY <1>0 DEF Resume, HistoryTypes
<1>7. declined' \subseteq Calls
  BY <1>0 DEF Resume, HistoryTypes, LoopTypes
<1>8. HistoryTypes'
  BY <1>0, <1>1, <1>6, <1>7 DEF HistoryTypes
<1> QED BY <1>0, <1>1, <1>5, <1>8, SlotKept, WindowKept, QueueKept DEF TypeInv

LEMMA ThreadTypes == ASSUME TypeInv, NEW i \in Requests, Thread(i) PROVE TypeInv'
<1>0. LoopTypes /\ SlotTypes /\ WindowTypes /\ HistoryTypes /\ QueueTypes
  BY DEF TypeInv
<1>1. turns[i] \in 0 .. MaxTurns /\ turns = [turns EXCEPT ![i] = turns[i]]
  BY <1>0 DEF LoopTypes
<1>2. WithinBudget(i) => turns[i] + 1 \in 0 .. MaxTurns
  BY <1>1, TurnsAssumption DEF WithinBudget
<1>3. CASE Exhaust(i)
  BY <1>1, <1>3, FinishTypes DEF Exhaust
<1>4. CASE ModelFails(i)
  BY <1>1, <1>4, FinishTypes DEF ModelFails
<1>5. CASE ModelReplies(i)
  <2>1. turns' = [turns EXCEPT ![i] = turns[i] + 1]
    BY <1>5 DEF ModelReplies
  <2> QED BY <1>2, <1>5, <2>1, FinishTypes DEF ModelReplies
<1>6. CASE ModelReads(i)
  <2>1. /\ phase[i] = "model" /\ WithinBudget(i)
        /\ turns' = [turns EXCEPT ![i] = turns[i] + 1]
        /\ phase' = phase /\ pending' = pending /\ granted' = granted
        /\ UNCHANGED slot /\ UNCHANGED <<events, unshown>> /\ UNCHANGED windowVars
        /\ Ask(i) /\ UNCHANGED <<ran, declined, overlap, replaced>>
    BY <1>6 DEF ModelReads
  <2>2. /\ phase' = [phase EXCEPT ![i] = "model"]
        /\ pending' = [pending EXCEPT ![i] = 0]
        /\ granted' \in [Requests -> [Ids -> Decisions]]
    BY <1>0, <2>1 DEF LoopTypes, Fresh
  <2>3. 0 \in Nat /\ (\A k \in 1 .. 0 : <<i, turns[i] + 1, k>> \in Calls) /\ "model" \in Phases
    BY DEF Phases
  <2>4. LoopTypes'
    BY <1>0, <1>2, <2>1, <2>2, <2>3, LoopMoved
  <2>5. HistoryTypes'
    BY <1>0, <2>1, AskTypes DEF HistoryTypes
  <2> QED BY <1>0, <2>1, <2>4, <2>5, SlotKept, WindowKept, QueueKept DEF TypeInv
<1>7. CASE Suspend(i)
  BY <1>7, SuspendTypes
<1>8. CASE Resume(i)
  BY <1>8, ResumeTypes
<1> QED BY <1>3, <1>4, <1>5, <1>6, <1>7, <1>8 DEF Thread

LEMMA SlotRound == ASSUME TypeInv, slot # NoSession PROVE slot \in Sessions /\ slot.owner \in Requests
BY DEF TypeInv, SlotTypes, Sessions

LEMMA ConfirmTypes == ASSUME TypeInv, NEW c \in Calls, Confirm(c) PROVE TypeInv'
<1>0. LoopTypes /\ SlotTypes /\ WindowTypes /\ HistoryTypes /\ QueueTypes
  BY DEF TypeInv
<1>1. CASE ConfirmRefused(c)
  <2>1. /\ popup' = [popup EXCEPT ![c] = "open"]
        /\ busy' = busy /\ answer' = answer /\ approvals' = approvals
        /\ UNCHANGED loopVars /\ UNCHANGED slot /\ UNCHANGED <<events, unshown>> /\ UNCHANGED historyVars
    BY <1>1 DEF ConfirmRefused
  <2>2. WindowTypes'
    BY <1>0, <2>1 DEF WindowTypes, PopupStates
  <2> QED BY <1>0, <2>1, <2>2, LoopsKept, SlotKept, HistoryKept, QueueKept DEF TypeInv
<1>2. CASE TakeRefused(c)
  <2>1. /\ popup' = [popup EXCEPT ![c] = "open"]
        /\ busy' = busy /\ answer' = answer /\ approvals' = approvals
        /\ UNCHANGED loopVars /\ UNCHANGED slot /\ UNCHANGED <<events, unshown>> /\ UNCHANGED historyVars
    BY <1>2 DEF TakeRefused
  <2>2. WindowTypes'
    BY <1>0, <2>1 DEF WindowTypes, PopupStates
  <2> QED BY <1>0, <2>1, <2>2, LoopsKept, SlotKept, HistoryKept, QueueKept DEF TypeInv
<1>3. CASE Record(c)
  <2> DEFINE answers == [slot.answers EXCEPT ![CallId[c]] = answer[c]]
  <2>1. /\ CallId[c] \in Awaited
        /\ slot' = [slot EXCEPT !.answers = answers]
        /\ popup' = [popup EXCEPT ![c] = IF AllResolved(answers) THEN "taking" ELSE "closed"]
        /\ busy' = busy /\ answer' = answer /\ approvals' = approvals
        /\ UNCHANGED loopVars /\ UNCHANGED <<events, unshown>> /\ UNCHANGED historyVars
    BY <1>3 DEF Record
  <2>2. slot # NoSession
    BY <2>1 DEF Awaited
  <2>3. slot \in Sessions
    BY <1>0, <2>2 DEF SlotTypes
  <2>4. answers \in [Ids -> Decisions]
    BY <1>0, <2>3, IdAssumption DEF Sessions, WindowTypes
  <2>5. SlotTypes'
    BY <2>1, <2>3, <2>4 DEF SlotTypes, Sessions
  <2>6. WindowTypes'
    BY <1>0, <2>1 DEF WindowTypes, PopupStates
  <2> QED BY <1>0, <2>1, <2>5, <2>6, LoopsKept, HistoryKept, QueueKept DEF TypeInv
<1>4. CASE Take(c)
  <2>1. slot # NoSession /\ slot \in Sessions /\ slot.owner \in Requests
    BY <1>4, SlotRound DEF Take
  <2>2. /\ phase' = [phase EXCEPT ![slot.owner] = "resuming"]
        /\ granted' = [granted EXCEPT ![slot.owner] = slot.answers]
        /\ slot' = NoSession
        /\ popup' = [popup EXCEPT ![c] = "closed"]
        /\ turns' = turns /\ pending' = pending
        /\ busy' = busy /\ answer' = answer /\ approvals' = approvals
        /\ UNCHANGED <<events, unshown>> /\ UNCHANGED historyVars
    BY <1>4 DEF Take
  <2>3. WindowTypes'
    BY <1>0, <2>2 DEF WindowTypes, PopupStates
  <2>4. SlotTypes'
    BY <2>2 DEF SlotTypes, NoSession, Unanswered
  <2>5. LoopTypes'
    <3>1. granted' \in [Requests -> [Ids -> Decisions]]
      BY <1>0, <2>1, <2>2 DEF LoopTypes, Sessions
    <3>2. phase' \in [Requests -> Phases]
      BY <1>0, <2>1, <2>2 DEF LoopTypes, Phases
    <3>3. \A j \in Requests : Round(j)' = Round(j)
      BY <2>2 DEF Round
    <3>4. \A j \in Requests : phase'[j] \in Fresh => pending'[j] = 0
      BY <1>0, <2>1, <2>2 DEF LoopTypes, Fresh
    <3> QED BY <1>0, <2>2, <3>1, <3>2, <3>3, <3>4 DEF LoopTypes
  <2> QED BY <1>0, <2>2, <2>3, <2>4, <2>5, HistoryKept, QueueKept DEF TypeInv
<1> QED BY <1>1, <1>2, <1>3, <1>4 DEF Confirm

LEMMA NextTypes == TypeInv /\ [Next]_vars => TypeInv'
<1> SUFFICES ASSUME TypeInv, [Next]_vars PROVE TypeInv'
  OBVIOUS
<1>1. CASE Operator
  BY <1>1, OperatorTypes
<1>2. CASE \E i \in Requests : Admission(i) \/ Thread(i)
  BY <1>2, AdmissionTypes, ThreadTypes
<1>3. CASE Deliver
  BY <1>3, DeliverTypes
<1>4. CASE \E c \in Calls : Confirm(c)
  BY <1>4, ConfirmTypes
<1>5. CASE Announce
  BY <1>5, AnnounceTypes
<1>6. CASE UNCHANGED vars
  <2>1. UNCHANGED loopVars /\ UNCHANGED slot /\ UNCHANGED windowVars /\ UNCHANGED historyVars
        /\ UNCHANGED <<events, unshown>>
    BY <1>6 DEF vars
  <2> QED BY <2>1, LoopsKept, SlotKept, WindowKept, HistoryKept, QueueKept DEF TypeInv
<1> QED BY <1>1, <1>2, <1>3, <1>4, <1>5, <1>6 DEF Next

LEMMA TypesHold == Spec => []TypeInv
BY InitTypes, NextTypes, PTL DEF Spec

\* The types hold, whatever the number of messages, turns and calls.
THEOREM ToolTypes == Spec => []ToolTypeOK
BY TypesHold, TypesImplied, PTL

-----------------------------------------------------------------------------
(* What runs was approved.                                                 *)

\* The operator approved a call of this id.
Backed(id) == \E d \in approvals : CallId[d] = id

\* Every "yes", from the popup to the resumed loop, has an approval behind it.
WordInv ==
  /\ \A c \in Calls : answer[c] = "yes" => c \in approvals
  /\ \A id \in Ids : slot.answers[id] = "yes" => Backed(id)
  /\ \A i \in Requests, id \in Ids : granted[i][id] = "yes" => Backed(id)
  /\ \A c \in Calls : ran[c] > 0 => Backed(CallId[c])

LEMMA InitWord == Init => WordInv
BY DEF Init, WordInv, Backed, NoSession, Unanswered

LEMMA BackedKept == ASSUME approvals \subseteq approvals', NEW id, Backed(id) PROVE Backed(id)'
BY DEF Backed

LEMMA WordKept ==
  ASSUME WordInv, approvals \subseteq approvals',
         answer' = answer, slot' = slot, granted' = granted, ran' = ran
  PROVE  WordInv'
BY BackedKept DEF WordInv

LEMMA RespondWord ==
  ASSUME TypeInv, WordInv, NEW c \in Calls, NEW decision \in {"yes", "no"}, Respond(c, decision)
  PROVE  WordInv'
<1>1. /\ slot' = slot /\ granted' = granted /\ ran' = ran
      /\ answer' = [answer EXCEPT ![c] = decision]
      /\ approvals' = IF decision = "yes" THEN approvals \cup {c} ELSE approvals
  BY DEF Respond, loopVars, historyVars
<1>2. approvals \subseteq approvals'
  BY <1>1
<1>3. \A d \in Calls : answer'[d] = "yes" => d \in approvals'
  BY <1>1 DEF TypeInv, WindowTypes, WordInv
<1> QED BY <1>1, <1>2, <1>3, BackedKept DEF WordInv

LEMMA SuspendWord == ASSUME WordInv, NEW i \in Requests, Suspend(i) PROVE WordInv'
<1>1. /\ slot' = [owner |-> i, answers |-> Unanswered]
      /\ granted' = granted /\ ran' = ran /\ answer' = answer /\ approvals' = approvals
  BY DEF Suspend, windowVars
<1>2. \A id \in Ids : slot'.answers[id] # "yes"
  BY <1>1 DEF Unanswered
<1> QED BY <1>1, <1>2, BackedKept DEF WordInv

LEMMA ResumeWord == ASSUME TypeInv, WordInv, NEW i \in Requests, Resume(i) PROVE WordInv'
<1>1. /\ granted' = [granted EXCEPT ![i] = Unanswered]
      /\ slot' = slot /\ answer' = answer /\ approvals' = approvals
  BY DEF Resume, windowVars
<1>2. \A j \in Requests, id \in Ids : granted'[j][id] = "yes" => granted[j][id] = "yes"
  BY <1>1 DEF TypeInv, LoopTypes, Unanswered
<1>3. ASSUME NEW c \in Calls, ran'[c] > 0 PROVE Backed(CallId[c])
  <2>1. ran[c] > 0 \/ Approved(i, c)
    BY <1>3 DEF Resume
  <2>2. CallId[c] \in Ids
    BY IdAssumption
  <2> QED BY <2>1, <2>2 DEF WordInv, Approved
<1>4. \A c \in Calls : ran'[c] > 0 => Backed(CallId[c])'
  BY <1>1, <1>3, BackedKept
<1> QED BY <1>1, <1>2, <1>4, BackedKept DEF WordInv

LEMMA RecordWord == ASSUME TypeInv, WordInv, NEW c \in Calls, Record(c) PROVE WordInv'
<1>1. /\ CallId[c] \in Awaited
      /\ slot' = [slot EXCEPT !.answers = [slot.answers EXCEPT ![CallId[c]] = answer[c]]]
      /\ granted' = granted /\ ran' = ran /\ answer' = answer /\ approvals' = approvals
  BY DEF Record, loopVars, historyVars
<1>2. slot # NoSession
  BY <1>1 DEF Awaited
<1>3. slot \in Sessions
  BY <1>2, SlotRound
<1>4. slot'.answers = [slot.answers EXCEPT ![CallId[c]] = answer[c]]
  BY <1>1, <1>3 DEF Sessions
<1>5. slot.answers \in [Ids -> Decisions]
  BY <1>3 DEF Sessions
<1>6. ASSUME NEW id \in Ids, slot'.answers[id] = "yes" PROVE Backed(id)
  <2>1. CASE id = CallId[c]
    <3>1. answer[c] = "yes"
      BY <1>4, <1>5, <1>6, <2>1
    <3>2. c \in approvals
      BY <3>1 DEF WordInv
    <3> QED BY <2>1, <3>2 DEF Backed
  <2>2. CASE id # CallId[c]
    <3>1. slot.answers[id] = "yes"
      BY <1>4, <1>5, <1>6, <2>2
    <3> QED BY <3>1 DEF WordInv
  <2> QED BY <2>1, <2>2
<1> QED BY <1>1, <1>6, BackedKept DEF WordInv

LEMMA TakeWord == ASSUME TypeInv, WordInv, NEW c \in Calls, Take(c) PROVE WordInv'
<1>1. /\ granted' = [granted EXCEPT ![slot.owner] = slot.answers]
      /\ slot' = NoSession
      /\ ran' = ran /\ answer' = answer /\ approvals' = approvals
  BY DEF Take, historyVars
<1>2. \A id \in Ids : slot'.answers[id] # "yes"
  BY <1>1 DEF NoSession, Unanswered
<1>3. \A j \in Requests, id \in Ids :
        granted'[j][id] = "yes" => granted[j][id] = "yes" \/ slot.answers[id] = "yes"
  BY <1>1 DEF TypeInv, LoopTypes
<1> QED BY <1>1, <1>2, <1>3, BackedKept DEF WordInv

LEMMA NextWord == TypeInv /\ WordInv /\ [Next]_vars => WordInv'
<1> SUFFICES ASSUME TypeInv, WordInv, [Next]_vars PROVE WordInv'
  OBVIOUS
<1>1. ASSUME NEW i \in Requests, ClickSend(i) PROVE WordInv'
  BY <1>1, WordKept DEF ClickSend, windowVars, historyVars
<1>2. ASSUME NEW i \in Requests, Admission(i) PROVE WordInv'
  BY <1>2, WordKept DEF Admission, RefuseSend, AdmitSend, StartLoop, windowVars, historyVars
<1>3. ASSUME NEW i \in Requests, Thread(i), ~Suspend(i), ~Resume(i) PROVE WordInv'
  BY <1>3, WordKept DEF Thread, Exhaust, ModelFails, ModelReplies, ModelReads, Finish,
                        windowVars, historyVars
<1>4. CASE Deliver \/ Announce
  BY <1>4, WordKept DEF Deliver, Announce, loopVars, windowVars, historyVars
<1>5. ASSUME NEW c \in Calls, ConfirmRefused(c) \/ TakeRefused(c) PROVE WordInv'
  BY <1>5, WordKept DEF ConfirmRefused, TakeRefused, loopVars, historyVars
<1>6. CASE UNCHANGED vars
  BY <1>6, WordKept DEF vars, loopVars, windowVars, historyVars
<1> QED BY <1>1, <1>2, <1>3, <1>4, <1>5, <1>6, RespondWord, SuspendWord, ResumeWord,
           RecordWord, TakeWord DEF Next, Operator, Confirm

-----------------------------------------------------------------------------
(* What runs, runs once: a request whose round may still be granted has    *)
(* used a turn that none of its dispatched calls belongs to.               *)

\* Request i may still resume the round of its current turn.
Holds(i) == phase[i] \in {"awaiting", "resuming"}

\* Call c belongs to a turn that request c[1] has left behind.
Spent(c) == c[2] <= turns[c[1]] /\ (Holds(c[1]) => c[2] < turns[c[1]])

OnceInv ==
  /\ slot # NoSession => phase[slot.owner] = "awaiting"
  /\ \A c \in Calls : ran[c] <= 1 /\ (ran[c] > 0 => Spent(c))

LEMMA InitOnce == Init => OnceInv
BY DEF Init, OnceInv, NoSession

\* A step that dispatches nothing, gives back no turn, and lets no request
\* hold its current turn again.
LEMMA OnceKept ==
  ASSUME OnceInv, TypeInv,
         ran' = ran,
         \A i \in Requests : turns'[i] >= turns[i] /\ turns'[i] \in Nat,
         \A i \in Requests : Holds(i)' => Holds(i) \/ turns'[i] > turns[i],
         slot' # NoSession => phase'[slot'.owner] = "awaiting"
  PROVE  OnceInv'
<1>1. ASSUME NEW c \in Calls, Spent(c) PROVE Spent(c)'
  <2>1. c[1] \in Requests /\ c[2] \in Nat
    BY CallParts
  <2>2. turns[c[1]] \in Nat
    BY <2>1 DEF TypeInv, LoopTypes
  <2>3. turns'[c[1]] >= turns[c[1]] /\ turns'[c[1]] \in Nat
    BY <2>1
  <2>4. Holds(c[1])' => Holds(c[1]) \/ turns'[c[1]] > turns[c[1]]
    BY <2>1
  <2> QED BY <1>1, <2>1, <2>2, <2>3, <2>4 DEF Spent
<1> QED BY <1>1 DEF OnceInv, NoSession, Unanswered

LEMMA TurnsSame == ASSUME TypeInv, turns' = turns
                   PROVE  \A i \in Requests : turns'[i] >= turns[i] /\ turns'[i] \in Nat
BY DEF TypeInv, LoopTypes

\* A request that holds nothing moves on to where it holds nothing.
LEMMA LooseOnce ==
  ASSUME TypeInv, OnceInv, NEW i \in Requests, NEW p,
         ~Holds(i), p \notin {"awaiting", "resuming"},
         phase' = [phase EXCEPT ![i] = p],
         \/ turns' = turns
         \/ turns' = [turns EXCEPT ![i] = @ + 1],
         slot' = slot, ran' = ran
  PROVE  OnceInv'
<1>1. \A j \in Requests : turns'[j] >= turns[j] /\ turns'[j] \in Nat
  <2>1. turns \in [Requests -> Nat]
    BY DEF TypeInv, LoopTypes
  <2>2. CASE turns' = turns
    BY <2>1, <2>2
  <2>3. CASE turns' = [turns EXCEPT ![i] = @ + 1]
    BY <2>1, <2>3
  <2> QED BY <2>2, <2>3
<1>2. \A j \in Requests : Holds(j)' => Holds(j)
  BY DEF TypeInv, LoopTypes, Holds
<1>3. slot' # NoSession => phase'[slot'.owner] = "awaiting"
  <2> SUFFICES ASSUME slot # NoSession PROVE phase'[slot.owner] = "awaiting"
    BY DEF NoSession, Unanswered
  <2>1. phase[slot.owner] = "awaiting" /\ slot.owner \in Requests
    BY SlotRound DEF OnceInv
  <2>2. slot.owner # i
    BY <2>1 DEF Holds
  <2> QED BY <2>1, <2>2 DEF TypeInv, LoopTypes
<1> QED BY <1>1, <1>2, <1>3, OnceKept

LEMMA SuspendOnce == ASSUME TypeInv, OnceInv, NEW i \in Requests, Suspend(i) PROVE OnceInv'
<1>1. /\ turns' = [turns EXCEPT ![i] = turns[i] + 1]
      /\ phase' = [phase EXCEPT ![i] = "awaiting"]
      /\ slot' = [owner |-> i, answers |-> Unanswered]
      /\ ran' = ran
  BY DEF Suspend
<1>2. \A j \in Requests : turns'[j] >= turns[j] /\ turns'[j] \in Nat
  BY <1>1 DEF TypeInv, LoopTypes
<1>3. \A j \in Requests : Holds(j)' => Holds(j) \/ turns'[j] > turns[j]
  BY <1>1 DEF TypeInv, LoopTypes, Holds
<1>4. phase'[slot'.owner] = "awaiting"
  BY <1>1 DEF TypeInv, LoopTypes
<1> QED BY <1>1, <1>2, <1>3, <1>4, OnceKept

LEMMA ResumeOnce == ASSUME TypeInv, OnceInv, NEW i \in Requests, Resume(i) PROVE OnceInv'
<1>1. /\ phase[i] = "resuming" /\ phase' = [phase EXCEPT ![i] = "model"]
      /\ turns' = turns /\ slot' = slot
  BY DEF Resume
<1>2. slot' # NoSession => phase'[slot'.owner] = "awaiting"
  <2> SUFFICES ASSUME slot # NoSession PROVE phase'[slot.owner] = "awaiting"
    BY <1>1 DEF NoSession, Unanswered
  <2>1. phase[slot.owner] = "awaiting" /\ slot.owner \in Requests
    BY SlotRound DEF OnceInv
  <2> QED BY <1>1, <2>1 DEF TypeInv, LoopTypes
<1>3. ASSUME NEW c \in Calls, c \notin Round(i) PROVE ran'[c] <= 1 /\ (ran'[c] > 0 => Spent(c)')
  <2>1. ran'[c] = ran[c]
    BY <1>3 DEF Resume
  <2>2. Holds(c[1])' => Holds(c[1])
    BY <1>1, CallParts DEF Holds, TypeInv, LoopTypes
  <2> QED BY <1>1, <2>1, <2>2 DEF OnceInv, Spent
<1>4. ASSUME NEW c \in Calls, c \in Round(i) PROVE ran'[c] <= 1 /\ (ran'[c] > 0 => Spent(c)')
  <2>1. c[1] = i /\ c[2] = turns[i]
    BY <1>4 DEF Round
  <2>2. turns[i] \in Nat /\ ran[c] \in Nat
    BY DEF TypeInv, LoopTypes, HistoryTypes
  <2>3. ~Spent(c)
    BY <1>1, <2>1, <2>2 DEF Spent, Holds
  <2>4. ran[c] = 0
    BY <2>2, <2>3 DEF OnceInv
  <2>5. ran'[c] \in {0, 1}
    BY <2>4 DEF Resume
  <2>6. ~Holds(c[1])'
    BY <1>1, <2>1 DEF Holds, TypeInv, LoopTypes
  <2>7. Spent(c)'
    BY <1>1, <2>1, <2>2, <2>6 DEF Spent
  <2> QED BY <2>5, <2>7
<1> QED BY <1>2, <1>3, <1>4 DEF OnceInv, NoSession, Unanswered

LEMMA RecordOnce == ASSUME TypeInv, OnceInv, NEW c \in Calls, Record(c) PROVE OnceInv'
<1>1. /\ CallId[c] \in Awaited
      /\ slot' = [slot EXCEPT !.answers = [slot.answers EXCEPT ![CallId[c]] = answer[c]]]
      /\ phase' = phase /\ turns' = turns /\ ran' = ran
  BY DEF Record, loopVars, historyVars
<1>2. slot # NoSession
  BY <1>1 DEF Awaited
<1>3. slot'.owner = slot.owner
  BY <1>1, <1>2, SlotRound DEF Sessions
<1>4. phase'[slot'.owner] = "awaiting"
  BY <1>1, <1>2, <1>3 DEF OnceInv
<1>5. \A j \in Requests : Holds(j)' => Holds(j)
  BY <1>1 DEF Holds
<1> QED BY <1>1, <1>4, <1>5, TurnsSame, OnceKept

LEMMA TakeOnce == ASSUME TypeInv, OnceInv, NEW c \in Calls, Take(c) PROVE OnceInv'
<1>1. /\ slot # NoSession /\ slot' = NoSession
      /\ phase' = [phase EXCEPT ![slot.owner] = "resuming"]
      /\ turns' = turns /\ ran' = ran
  BY DEF Take, historyVars
<1>2. phase[slot.owner] = "awaiting" /\ slot.owner \in Requests
  BY <1>1, SlotRound DEF OnceInv
<1>3. \A j \in Requests : Holds(j)' => Holds(j)
  BY <1>1, <1>2 DEF Holds, TypeInv, LoopTypes
<1>4. slot' # NoSession => phase'[slot'.owner] = "awaiting"
  BY <1>1
<1> QED BY <1>1, <1>3, <1>4, TurnsSame, OnceKept

LEMMA StillOnce ==
  ASSUME TypeInv, OnceInv, phase' = phase, turns' = turns, slot' = slot, ran' = ran
  PROVE  OnceInv'
<1>1. \A j \in Requests : Holds(j)' => Holds(j)
  BY DEF Holds
<1>2. slot' # NoSession => phase'[slot'.owner] = "awaiting"
  BY DEF OnceInv, NoSession, Unanswered
<1> QED BY <1>1, <1>2, TurnsSame, OnceKept

LEMMA NextOnce == TypeInv /\ OnceInv /\ [Next]_vars => OnceInv'
<1> SUFFICES ASSUME TypeInv, OnceInv, [Next]_vars PROVE OnceInv'
  OBVIOUS
<1>1. ASSUME NEW i \in Requests, ClickSend(i) PROVE OnceInv'
  <2>1. /\ ~Holds(i) /\ "clicked" \notin {"awaiting", "resuming"}
        /\ phase' = [phase EXCEPT ![i] = "clicked"]
        /\ turns' = turns /\ slot' = slot /\ ran' = ran
    BY <1>1 DEF ClickSend, Holds, historyVars
  <2> QED BY <2>1, LooseOnce
<1>2. ASSUME NEW i \in Requests, Admission(i) PROVE OnceInv'
  <2>1. PICK p \in {"admitted", "model", "refused"} : phase' = [phase EXCEPT ![i] = p]
    BY <1>2 DEF Admission, RefuseSend, AdmitSend, StartLoop
  <2>2. ~Holds(i) /\ turns' = turns /\ slot' = slot /\ ran' = ran
    BY <1>2 DEF Admission, RefuseSend, AdmitSend, StartLoop, Holds, historyVars
  <2>3. p \notin {"awaiting", "resuming"}
    OBVIOUS
  <2> QED BY <2>1, <2>2, <2>3, LooseOnce
<1>3. ASSUME NEW i \in Requests, Exhaust(i) \/ ModelFails(i) \/ ModelReplies(i) PROVE OnceInv'
  <2>1. /\ ~Holds(i) /\ "done" \notin {"awaiting", "resuming"}
        /\ phase' = [phase EXCEPT ![i] = "done"]
        /\ slot' = slot /\ ran' = ran
    BY <1>3 DEF Exhaust, ModelFails, ModelReplies, Finish, Holds, historyVars
  <2>2. turns' = turns \/ turns' = [turns EXCEPT ![i] = @ + 1]
    BY <1>3 DEF Exhaust, ModelFails, ModelReplies
  <2> QED BY <2>1, <2>2, LooseOnce
<1>4. ASSUME NEW i \in Requests, ModelReads(i) PROVE OnceInv'
  <2>1. /\ phase[i] = "model" /\ phase' = phase
        /\ turns' = [turns EXCEPT ![i] = @ + 1]
        /\ slot' = slot /\ ran' = ran
    BY <1>4 DEF ModelReads, historyVars
  <2>2. /\ ~Holds(i) /\ "model" \notin {"awaiting", "resuming"}
        /\ phase' = [phase EXCEPT ![i] = "model"]
    BY <2>1 DEF Holds, TypeInv, LoopTypes
  <2> QED BY <2>1, <2>2, LooseOnce
<1>5. CASE \E c \in Calls, decision \in {"yes", "no"} : Respond(c, decision)
  BY <1>5, StillOnce DEF Respond, loopVars, historyVars
<1>6. CASE Deliver \/ Announce
  BY <1>6, StillOnce DEF Deliver, Announce, loopVars, historyVars
<1>7. ASSUME NEW c \in Calls, ConfirmRefused(c) \/ TakeRefused(c) PROVE OnceInv'
  BY <1>7, StillOnce DEF ConfirmRefused, TakeRefused, loopVars, historyVars
<1>8. CASE UNCHANGED vars
  BY <1>8, StillOnce DEF vars, loopVars, historyVars
<1> QED BY <1>1, <1>2, <1>3, <1>4, <1>5, <1>6, <1>7, <1>8, SuspendOnce, ResumeOnce,
           RecordOnce, TakeOnce DEF Next, Operator, Thread, Confirm

LEMMA ApprovalHolds == Spec => [](TypeInv /\ WordInv /\ OnceInv)
BY InitTypes, InitWord, InitOnce, NextTypes, NextWord, NextOnce, PTL DEF Spec

LEMMA ApprovalImplied == WordInv /\ OnceInv => OnlyApprovedRun
BY DEF WordInv, OnceInv, OnlyApprovedRun, Backed

\* A mutation call is dispatched at most once, and only after the operator
\* approved a call of its id, however rounds replace one another and in
\* whatever order answers arrive.
THEOREM ApprovedOnly == Spec => []OnlyApprovedRun
BY ApprovalHolds, ApprovalImplied, PTL

-----------------------------------------------------------------------------
(* The budget.                                                             *)

\* Until a request has ended, its turns count the calls of the model.
Counted(i) == asked[i] <= MaxTurns /\ (phase[i] # "done" => asked[i] = turns[i])
BudgetInv == \A i \in Requests : Counted(i)

\* A step in which request i, not ended, calls the model at most once.
LEMMA OneAskBudget ==
  ASSUME TypeInv, BudgetInv, NEW i \in Requests, phase[i] # "done", NEW p,
         phase' = [phase EXCEPT ![i] = p],
         \/ asked' = asked /\ turns' = turns
         \/ /\ WithinBudget(i) /\ Ask(i)
            /\ \/ turns' = [turns EXCEPT ![i] = @ + 1]
               \/ turns' = turns /\ p = "done"
  PROVE  BudgetInv'
<1>1. /\ turns \in [Requests -> Nat] /\ asked \in [Requests -> Nat]
      /\ phase \in [Requests -> Phases] /\ MaxTurns \in Nat
      /\ asked[i] = turns[i] /\ asked[i] <= MaxTurns
  BY TurnsAssumption DEF TypeInv, LoopTypes, HistoryTypes, BudgetInv, Counted
<1>2. ASSUME NEW j \in Requests, j # i PROVE Counted(j)'
  <2>1. phase'[j] = phase[j] /\ asked'[j] = asked[j] /\ turns'[j] = turns[j]
    BY <1>1, <1>2 DEF Ask
  <2> QED BY <2>1 DEF BudgetInv, Counted
<1>3. Counted(i)'
  <2>1. phase'[i] = p
    BY <1>1
  <2>2. CASE asked' = asked /\ turns' = turns
    BY <1>1, <2>2 DEF Counted
  <2>3. CASE WithinBudget(i) /\ Ask(i) /\ turns' = [turns EXCEPT ![i] = @ + 1]
    BY <1>1, <2>3 DEF Counted, WithinBudget, Ask
  <2>4. CASE WithinBudget(i) /\ Ask(i) /\ turns' = turns /\ p = "done"
    BY <1>1, <2>1, <2>4 DEF Counted, WithinBudget, Ask
  <2> QED BY <2>2, <2>3, <2>4
<1> QED BY <1>2, <1>3 DEF BudgetInv

LEMMA StillBudget ==
  ASSUME BudgetInv, phase' = phase, asked' = asked, turns' = turns PROVE BudgetInv'
BY DEF BudgetInv, Counted

LEMMA NextBudget == TypeInv /\ OnceInv /\ BudgetInv /\ [Next]_vars => BudgetInv'
<1> SUFFICES ASSUME TypeInv, OnceInv, BudgetInv, [Next]_vars PROVE BudgetInv'
  OBVIOUS
<1>1. ASSUME NEW i \in Requests, ClickSend(i) \/ Admission(i) \/ Exhaust(i) \/ Resume(i)
      PROVE  BudgetInv'
  <2>1. \E p \in Phases : phase' = [phase EXCEPT ![i] = p]
    BY <1>1 DEF ClickSend, Admission, RefuseSend, AdmitSend, StartLoop, Exhaust, Finish, Resume,
                Phases
  <2>2. phase[i] # "done" /\ asked' = asked /\ turns' = turns
    BY <1>1 DEF ClickSend, Admission, RefuseSend, AdmitSend, StartLoop, Exhaust, Resume, historyVars
  <2> QED BY <2>1, <2>2, OneAskBudget
<1>2. ASSUME NEW i \in Requests, ModelFails(i) \/ ModelReplies(i) PROVE BudgetInv'
  <2>1. /\ phase[i] # "done" /\ phase' = [phase EXCEPT ![i] = "done"]
        /\ WithinBudget(i) /\ Ask(i)
        /\ turns' = turns \/ turns' = [turns EXCEPT ![i] = @ + 1]
    BY <1>2 DEF ModelFails, ModelReplies, Finish
  <2> QED BY <2>1, OneAskBudget
<1>3. ASSUME NEW i \in Requests, ModelReads(i) \/ Suspend(i) PROVE BudgetInv'
  <2>1. /\ phase[i] # "done" /\ WithinBudget(i) /\ Ask(i)
        /\ turns' = [turns EXCEPT ![i] = @ + 1]
    BY <1>3 DEF ModelReads, Suspend
  <2>2. \E p \in Phases : phase' = [phase EXCEPT ![i] = p]
    <3>1. CASE ModelReads(i)
      <4>1. phase' = [phase EXCEPT ![i] = phase[i]] /\ phase[i] \in Phases
        BY <3>1 DEF ModelReads, TypeInv, LoopTypes
      <4> QED BY <4>1
    <3>2. CASE Suspend(i)
      BY <3>2 DEF Suspend, Phases
    <3> QED BY <1>3, <3>1, <3>2
  <2> QED BY <2>1, <2>2, OneAskBudget
<1>4. ASSUME NEW c \in Calls, Take(c) PROVE BudgetInv'
  <2>1. slot.owner \in Requests /\ phase[slot.owner] = "awaiting"
    BY <1>4, SlotRound DEF Take, OnceInv
  <2>2. /\ phase' = [phase EXCEPT ![slot.owner] = "resuming"]
        /\ asked' = asked /\ turns' = turns
    BY <1>4 DEF Take, historyVars
  <2> QED BY <2>1, <2>2, OneAskBudget
<1>5. ASSUME NEW c \in Calls, ConfirmRefused(c) \/ Record(c) \/ TakeRefused(c) PROVE BudgetInv'
  BY <1>5, StillBudget DEF ConfirmRefused, Record, TakeRefused, loopVars, historyVars
<1>6. CASE \E c \in Calls, decision \in {"yes", "no"} : Respond(c, decision)
  BY <1>6, StillBudget DEF Respond, loopVars, historyVars
<1>7. CASE Deliver \/ Announce
  BY <1>7, StillBudget DEF Deliver, Announce, loopVars, historyVars
<1>8. CASE UNCHANGED vars
  BY <1>8, StillBudget DEF vars, loopVars, historyVars
<1> QED BY <1>1, <1>2, <1>3, <1>4, <1>5, <1>6, <1>7, <1>8 DEF Next, Operator, Thread, Confirm

LEMMA InitBudget == Init => BudgetInv
BY TurnsAssumption DEF Init, BudgetInv, Counted

LEMMA BudgetImplied == BudgetInv => BudgetSpansSuspensions
BY DEF BudgetInv, Counted, BudgetSpansSuspensions

\* DEFAULT_MAX_TOOL_TURNS bounds the model calls of a request over all its
\* suspensions together, however long the operator takes and whatever rounds
\* replace one another.
THEOREM BudgetSpans == Spec => []BudgetSpansSuspensions
BY ApprovalHolds, InitBudget, NextBudget, BudgetImplied, PTL DEF Spec

-----------------------------------------------------------------------------
(* Only two requests at once put one round over another.                   *)

OneAtATime ==
  \A i \in Requests : Running(i) => slot = NoSession /\ \A j \in Requests \ {i} : ~Running(j)

OverlapInv == overlap \/ (~replaced /\ OneAtATime)

\* Nobody starts to run, the slot stays empty or whoever ran has stopped.
LEMMA OverlapKept ==
  ASSUME OverlapInv, overlap' = overlap, replaced' = replaced,
         \A i \in Requests : Running(i)' => Running(i),
         slot' = slot \/ \A i \in Requests : ~Running(i)'
  PROVE  OverlapInv'
BY DEF OverlapInv, OneAtATime, NoSession, Unanswered

LEMMA QuietOverlap ==
  ASSUME OverlapInv, TypeInv, NEW i \in Requests, NEW p,
         phase' = [phase EXCEPT ![i] = p],
         p \in {"admitted", "model", "resuming"} => Running(i),
         slot' = slot, overlap' = overlap, replaced' = replaced
  PROVE  OverlapInv'
<1>1. \A j \in Requests : Running(j)' => Running(j)
  BY DEF Running, TypeInv, LoopTypes
<1> QED BY <1>1, OverlapKept

LEMMA AdmitOverlap == ASSUME OverlapInv, TypeInv, NEW i \in Requests, AdmitSend(i) PROVE OverlapInv'
<1>1. /\ slot = NoSession /\ slot' = slot /\ replaced' = replaced
      /\ phase' = [phase EXCEPT ![i] = "admitted"]
      /\ overlap' = (overlap \/ \E j \in Requests \ {i} : Running(j))
  BY DEF AdmitSend
<1>2. CASE overlap'
  BY <1>2 DEF OverlapInv
<1>3. CASE ~overlap'
  <2>1. ~overlap /\ ~replaced' /\ \A j \in Requests \ {i} : ~Running(j)
    BY <1>1, <1>3 DEF OverlapInv
  <2>2. \A j \in Requests \ {i} : ~Running(j)'
    BY <1>1, <2>1 DEF Running, TypeInv, LoopTypes
  <2>3. slot' = NoSession'
    BY <1>1 DEF NoSession, Unanswered
  <2> QED BY <2>1, <2>2, <2>3 DEF OverlapInv, OneAtATime
<1> QED BY <1>2, <1>3

LEMMA SuspendOverlap == ASSUME OverlapInv, TypeInv, NEW i \in Requests, Suspend(i) PROVE OverlapInv'
<1>1. /\ Running(i)
      /\ phase' = [phase EXCEPT ![i] = "awaiting"]
      /\ replaced' = (replaced \/ slot # NoSession) /\ overlap' = overlap
  BY DEF Suspend, Running
<1>2. CASE overlap
  BY <1>1, <1>2 DEF OverlapInv
<1>3. CASE ~overlap
  <2>1. ~replaced /\ slot = NoSession /\ \A j \in Requests \ {i} : ~Running(j)
    BY <1>1, <1>3 DEF OverlapInv, OneAtATime
  <2>2. \A j \in Requests : ~Running(j)'
    BY <1>1, <2>1 DEF Running, TypeInv, LoopTypes
  <2> QED BY <1>1, <2>1, <2>2 DEF OverlapInv, OneAtATime
<1> QED BY <1>2, <1>3

LEMMA TakeOverlap == ASSUME OverlapInv, TypeInv, NEW c \in Calls, Take(c) PROVE OverlapInv'
<1>1. /\ slot # NoSession /\ slot' = NoSession
      /\ phase' = [phase EXCEPT ![slot.owner] = "resuming"]
      /\ overlap' = overlap /\ replaced' = replaced
  BY DEF Take, historyVars
<1>2. CASE overlap
  BY <1>1, <1>2 DEF OverlapInv
<1>3. CASE ~overlap
  <2>1. ~replaced /\ \A j \in Requests : ~Running(j)
    BY <1>1, <1>3 DEF OverlapInv, OneAtATime
  <2>2. \A j \in Requests : Running(j)' => j = slot.owner
    BY <1>1, <2>1 DEF Running, TypeInv, LoopTypes
  <2>3. slot' = NoSession'
    BY <1>1 DEF NoSession, Unanswered
  <2> QED BY <1>1, <2>1, <2>2, <2>3 DEF OverlapInv, OneAtATime
<1> QED BY <1>2, <1>3

LEMMA StillOverlap ==
  ASSUME OverlapInv, phase' = phase, overlap' = overlap, replaced' = replaced,
         slot' = slot \/ \A i \in Requests : ~Running(i) \/ overlap
  PROVE  OverlapInv'
BY DEF OverlapInv, OneAtATime, Running, NoSession, Unanswered

LEMMA RecordOverlap == ASSUME OverlapInv, TypeInv, NEW c \in Calls, Record(c) PROVE OverlapInv'
<1>1. CallId[c] \in Awaited /\ phase' = phase /\ overlap' = overlap /\ replaced' = replaced
  BY DEF Record, loopVars, historyVars
<1>2. slot # NoSession
  BY <1>1 DEF Awaited
<1>3. \A i \in Requests : ~Running(i) \/ overlap
  BY <1>2 DEF OverlapInv, OneAtATime
<1> QED BY <1>1, <1>3, StillOverlap

LEMMA NextOverlap == TypeInv /\ OverlapInv /\ [Next]_vars => OverlapInv'
<1> SUFFICES ASSUME TypeInv, OverlapInv, [Next]_vars PROVE OverlapInv'
  OBVIOUS
<1>1. ASSUME NEW i \in Requests, ClickSend(i) \/ RefuseSend(i) PROVE OverlapInv'
  <2>1. PICK p \in {"clicked", "refused"} : phase' = [phase EXCEPT ![i] = p]
    BY <1>1 DEF ClickSend, RefuseSend
  <2>2. slot' = slot /\ overlap' = overlap /\ replaced' = replaced
    BY <1>1 DEF ClickSend, RefuseSend, historyVars
  <2> QED BY <2>1, <2>2, QuietOverlap
<1>2. ASSUME NEW i \in Requests, Exhaust(i) \/ ModelFails(i) \/ ModelReplies(i) PROVE OverlapInv'
  <2>1. /\ phase' = [phase EXCEPT ![i] = "done"]
        /\ slot' = slot /\ overlap' = overlap /\ replaced' = replaced
    BY <1>2 DEF Exhaust, ModelFails, ModelReplies, Finish, historyVars
  <2> QED BY <2>1, QuietOverlap
<1>3. ASSUME NEW i \in Requests, Resume(i) \/ StartLoop(i) PROVE OverlapInv'
  <2>1. /\ Running(i) /\ phase' = [phase EXCEPT ![i] = "model"]
        /\ slot' = slot /\ overlap' = overlap /\ replaced' = replaced
    BY <1>3 DEF Resume, StartLoop, Running, historyVars
  <2> QED BY <2>1, QuietOverlap
<1>4. ASSUME NEW i \in Requests, ModelReads(i) PROVE OverlapInv'
  BY <1>4, StillOverlap DEF ModelReads, historyVars
<1>5. CASE \E c \in Calls, decision \in {"yes", "no"} : Respond(c, decision)
  BY <1>5, StillOverlap DEF Respond, loopVars, historyVars
<1>6. CASE Deliver \/ Announce
  BY <1>6, StillOverlap DEF Deliver, Announce, loopVars, historyVars
<1>7. ASSUME NEW c \in Calls, ConfirmRefused(c) \/ TakeRefused(c) PROVE OverlapInv'
  BY <1>7, StillOverlap DEF ConfirmRefused, TakeRefused, loopVars, historyVars
<1>8. CASE UNCHANGED vars
  BY <1>8, StillOverlap DEF vars, loopVars, historyVars
<1> QED BY <1>1, <1>2, <1>3, <1>4, <1>5, <1>6, <1>7, <1>8, AdmitOverlap, SuspendOverlap,
           TakeOverlap, RecordOverlap DEF Next, Operator, Admission, Thread, Confirm

LEMMA InitOverlap == Init => OverlapInv
BY DEF Init, OverlapInv, OneAtATime, Running

LEMMA OverlapImplied == OverlapInv => OnlyOverlapReplaces
BY DEF OverlapInv, OnlyOverlapReplaces

\* A round is put over another only when two requests ran at once: the slot
\* check of send_message protects a round from every message that finds it.
THEOREM OverlapOnly == Spec => []OnlyOverlapReplaces
BY InitTypes, InitOverlap, NextTypes, NextOverlap, OverlapImplied, PTL DEF Spec

-----------------------------------------------------------------------------
(* The operator's word is what happens, while no round replaces another.   *)

\* A popup that waits for the operator or for its command is of the round in the slot.
LiveInSlot ==
  \A c \in Calls : popup[c] \in {"open", "sent", "taking"} =>
    slot # NoSession /\ c \in Round(slot.owner)

AnswerGiven == \A c \in Calls : popup[c] \in {"sent", "taking", "closed"} => answer[c] # "none"

\* The popups of a round are on their way to the window once, and before any is open:
\* still to be announced, or announced by one event.
PopupsAt(n) == events[n].kind = "popups"
PopupsOnce ==
  /\ \A calls \in unshown :
       /\ slot # NoSession /\ calls = Round(slot.owner)
       /\ \A c \in calls : popup[c] = "none"
       /\ \A n \in DOMAIN events : ~PopupsAt(n)
  /\ \A n \in DOMAIN events : PopupsAt(n) =>
       /\ slot # NoSession /\ events[n].calls = Round(slot.owner)
       /\ \A c \in events[n].calls : popup[c] = "none"
  /\ \A m, n \in DOMAIN events : PopupsAt(m) /\ PopupsAt(n) => m = n

\* The session in the slot holds the answers of the calls that were confirmed, and one
\* command goes on when none is missing.
Word(c) == slot.answers[CallId[c]]
SlotHeard ==
  slot # NoSession => \A c \in Round(slot.owner) :
    /\ popup[c] \in {"none", "open", "sent"} => Word(c) = "none"
    /\ popup[c] \in {"taking", "closed"} => Word(c) = answer[c]
    /\ popup[c] = "taking" => \A d \in Round(slot.owner) : Word(d) # "none"
OneTakes == \A c, d \in Calls : popup[c] = "taking" /\ popup[d] = "taking" => c = d

GrantsHeard ==
  \A i \in Requests : phase[i] = "resuming" =>
    \A c \in Round(i) : popup[c] = "closed" /\ granted[i][CallId[c]] = answer[c]

Heard ==
  \A c \in Calls : /\ ran[c] > 0 => popup[c] = "closed" /\ answer[c] = "yes"
                   /\ c \in declined => popup[c] = "closed" /\ answer[c] = "no"

\* The calls of turns to come have not been shown.
NotYet == \A c \in Calls : c[2] > turns[c[1]] => popup[c] = "none"

(***************************************************************************)
(* The life of a round: announced to the window once, answered in the slot *)
(* call by call, taken by the command that completes it, granted as it was *)
(* answered, and dispatched or declined accordingly.                       *)
(***************************************************************************)
RoundInv == /\ LiveInSlot /\ AnswerGiven /\ PopupsOnce /\ SlotHeard
            /\ OneTakes /\ GrantsHeard /\ Heard /\ NotYet

RoundsInv == IdsDistinct /\ ~replaced => RoundInv

LEMMA RoundParts ==
  ASSUME TypeInv, NEW i \in Requests, NEW c \in Round(i)
  PROVE  c \in Calls /\ c[1] = i /\ c[2] = turns[i]
BY DEF TypeInv, LoopTypes, Round

LEMMA InitRounds == Init => RoundInv
BY DEF Init, RoundInv, LiveInSlot, AnswerGiven, PopupsOnce, SlotHeard, OneTakes, GrantsHeard,
       Heard, NotYet

\* A step of a request that holds no round, which the window hears of at most as busy.
LEMMA RestRounds ==
  ASSUME TypeInv, OnceInv, RoundInv, NEW i \in Requests, ~Holds(i),
         NEW p, p # "resuming", phase' = [phase EXCEPT ![i] = p],
         turns' = turns \/ turns' = [turns EXCEPT ![i] = turns[i] + 1],
         events' = events \/ \E b \in BOOLEAN : Emit(<<BusyEvent(b)>>),
         UNCHANGED <<slot, unshown, popup, answer, ran, declined, pending, granted>>
  PROVE  RoundInv'
<1>1. \A j \in Requests : j # i => phase'[j] = phase[j] /\ Round(j)' = Round(j)
  BY DEF TypeInv, LoopTypes, Round
<1>2. slot # NoSession => slot.owner # i /\ slot.owner \in Requests
  BY SlotRound DEF OnceInv, Holds
<1>3. (slot # NoSession)' <=> slot # NoSession
  BY DEF NoSession, Unanswered
<1>4. LiveInSlot' /\ AnswerGiven' /\ SlotHeard' /\ OneTakes' /\ Heard'
  BY <1>1, <1>2, <1>3 DEF RoundInv, LiveInSlot, AnswerGiven, SlotHeard, OneTakes, Heard, Word
<1>5. \A n \in DOMAIN events' : PopupsAt(n)' => n \in DOMAIN events /\ events'[n] = events[n]
  <2>1. CASE events' = events
    BY <2>1
  <2>2. ASSUME NEW b \in BOOLEAN, events' = events \o <<BusyEvent(b)>>
        PROVE  \A n \in DOMAIN events' : PopupsAt(n)' => n \in DOMAIN events /\ events'[n] = events[n]
    <3>1. events \in Seq(Events) /\ BusyEvent(b).kind # "popups"
      BY DEF TypeInv, QueueTypes, BusyEvent
    <3> HIDE DEF BusyEvent
    <3>2. /\ DOMAIN events' = 1 .. Len(events) + 1 /\ DOMAIN events = 1 .. Len(events)
          /\ \A n \in 1 .. Len(events) : events'[n] = events[n]
          /\ events'[Len(events) + 1] = BusyEvent(b)
      BY <2>2, <3>1
    <3> QED BY <3>1, <3>2 DEF PopupsAt
  <2> QED BY <2>1, <2>2 DEF Emit
<1>6. PopupsOnce'
  BY <1>1, <1>2, <1>3, <1>5 DEF RoundInv, PopupsOnce, PopupsAt
<1>7. GrantsHeard'
  <2>1. phase'[i] # "resuming"
    BY DEF TypeInv, LoopTypes
  <2> QED BY <1>1, <2>1 DEF RoundInv, GrantsHeard
<1>8. NotYet'
  <2>1. ASSUME NEW j \in Requests
        PROVE  turns'[j] >= turns[j] /\ turns[j] \in Nat /\ turns'[j] \in Nat
    <3>1. turns \in [Requests -> Nat]
      BY DEF TypeInv, LoopTypes
    <3>2. turns'[j] = turns[j] \/ turns'[j] = turns[j] + 1
      BY <3>1
    <3> QED BY <3>1, <3>2
  <2>2. ASSUME NEW c \in Calls, c[2] > turns'[c[1]] PROVE c[2] > turns[c[1]]
    <3>1. c[2] \in Nat /\ c[1] \in Requests
      BY CallParts
    <3> QED BY <2>1, <2>2, <3>1
  <2> QED BY <2>2 DEF RoundInv, NotYet
<1> QED BY <1>4, <1>6, <1>7, <1>8 DEF RoundInv

LEMMA RespondRounds ==
  ASSUME TypeInv, RoundInv, NEW c \in Calls, NEW decision \in {"yes", "no"}, Respond(c, decision)
  PROVE  RoundInv'
<1>1. /\ popup[c] = "open"
      /\ popup' = [popup EXCEPT ![c] = "sent"]
      /\ answer' = [answer EXCEPT ![c] = decision]
      /\ UNCHANGED <<phase, turns, pending, granted, slot, events, unshown, ran, declined>>
  BY DEF Respond, loopVars, historyVars
<1>2. /\ popup'[c] = "sent" /\ answer'[c] # "none"
      /\ \A d \in Calls : d # c => popup'[d] = popup[d] /\ answer'[d] = answer[d]
  BY <1>1 DEF TypeInv, WindowTypes
<1>3. (\A i \in Requests : Round(i)' = Round(i)) /\ ((slot # NoSession)' <=> slot # NoSession)
      /\ (slot # NoSession => slot.owner \in Requests)
  BY <1>1, SlotRound DEF Round, NoSession, Unanswered
<1>4. \A i \in Requests : Round(i) \subseteq Calls
  BY DEF TypeInv, LoopTypes
<1>5. LiveInSlot' /\ AnswerGiven' /\ OneTakes' /\ NotYet' /\ Heard'
  BY <1>1, <1>2, <1>3 DEF RoundInv, LiveInSlot, AnswerGiven, OneTakes, NotYet, Heard
<1>6. PopupsOnce'
  <2>1. ASSUME NEW n \in DOMAIN events, PopupsAt(n)
        PROVE  /\ slot # NoSession /\ events[n].calls = Round(slot.owner)
               /\ \A d \in events[n].calls : popup'[d] = "none"
    <3>1. /\ slot # NoSession /\ events[n].calls = Round(slot.owner)
          /\ \A d \in events[n].calls : popup[d] = "none"
      BY <2>1 DEF RoundInv, PopupsOnce
    <3> QED BY <1>1, <1>2, <1>3, <1>4, <3>1
  <2>2. ASSUME NEW calls \in unshown
        PROVE  /\ slot # NoSession /\ calls = Round(slot.owner)
               /\ \A d \in calls : popup'[d] = "none"
               /\ \A n \in DOMAIN events : ~PopupsAt(n)
    <3>1. /\ slot # NoSession /\ calls = Round(slot.owner)
          /\ \A d \in calls : popup[d] = "none"
          /\ \A n \in DOMAIN events : ~PopupsAt(n)
      BY <2>2 DEF RoundInv, PopupsOnce
    <3> QED BY <1>1, <1>2, <1>3, <1>4, <3>1
  <2> QED BY <1>1, <1>3, <2>1, <2>2 DEF RoundInv, PopupsOnce, PopupsAt
<1>7. SlotHeard'
  BY <1>1, <1>2, <1>3, <1>4 DEF RoundInv, SlotHeard, Word
<1>8. GrantsHeard'
  BY <1>1, <1>2, <1>3, <1>4 DEF RoundInv, GrantsHeard
<1> QED BY <1>5, <1>6, <1>7, <1>8 DEF RoundInv

\* A round is put into an empty slot, and nothing of it was ever shown.
LEMMA SuspendRounds ==
  ASSUME TypeInv, RoundInv, NEW i \in Requests, Suspend(i), slot = NoSession
  PROVE  RoundInv'
<1> DEFINE t == turns[i] + 1
<1>1. PICK n \in 1 .. MaxCalls[t] :
        /\ pending' = [pending EXCEPT ![i] = n]
        /\ turns' = [turns EXCEPT ![i] = t]
        /\ unshown' = unshown \cup {{<<i, t, k>> : k \in 1 .. n}}
        /\ events' = events
  BY DEF Suspend
<1>2. /\ phase[i] = "model" /\ phase' = [phase EXCEPT ![i] = "awaiting"]
      /\ slot' = [owner |-> i, answers |-> Unanswered]
      /\ UNCHANGED <<granted, popup, answer, ran, declined>>
  BY DEF Suspend, windowVars
<1>3. /\ Round(i)' = {<<i, t, k>> : k \in 1 .. n}
      /\ \A j \in Requests : j # i => Round(j)' = Round(j) /\ phase'[j] = phase[j]
      /\ phase'[i] = "awaiting"
  BY <1>1, <1>2 DEF TypeInv, LoopTypes, Round
<1>4. \A c \in Calls : popup[c] \notin {"open", "sent", "taking"}
  BY DEF RoundInv, LiveInSlot
<1>5. (\A m \in DOMAIN events : events[m].kind # "popups") /\ unshown = {}
  BY DEF RoundInv, PopupsOnce, PopupsAt
<1>6. ASSUME NEW c \in Round(i)' PROVE c \in Calls /\ popup[c] = "none"
  <2>1. c \in Calls
    BY <1>6, SuspendTypes, RoundParts DEF TypeInv, LoopTypes
  <2>2. c[1] = i /\ c[2] = t /\ t > turns[i]
    BY <1>3, <1>6 DEF TypeInv, LoopTypes
  <2> QED BY <2>1, <2>2 DEF RoundInv, NotYet
<1>7. slot'.owner = i /\ (slot # NoSession)'
  <2>1. slot'.owner = i /\ i # "none"
    BY <1>2, RequestAssumption
  <2>2. (NoSession.owner)' = "none"
    BY DEF NoSession
  <2> QED BY <2>1, <2>2
<1>8. LiveInSlot' /\ AnswerGiven' /\ OneTakes' /\ Heard'
  BY <1>2, <1>4 DEF RoundInv, LiveInSlot, AnswerGiven, OneTakes, Heard
<1>9. PopupsOnce'
  <2>1. unshown' = {Round(i)'}
    BY <1>1, <1>3, <1>5
  <2> QED BY <1>1, <1>2, <1>5, <1>6, <1>7, <2>1 DEF PopupsOnce, PopupsAt
<1>10. SlotHeard'
  <2>1. \A c \in Round(i)' : slot'.answers[CallId[c]] = "none"
    BY <1>2, <1>6, IdAssumption DEF Unanswered
  <2> QED BY <1>2, <1>6, <1>7, <2>1 DEF SlotHeard, Word
<1>11. GrantsHeard'
  BY <1>2, <1>3 DEF RoundInv, GrantsHeard
<1>12. NotYet'
  <2>1. ASSUME NEW c \in Calls, c[2] > turns'[c[1]] PROVE c[2] > turns[c[1]]
    <3>1. c[2] \in Nat /\ c[1] \in Requests /\ turns[c[1]] \in Nat
      BY CallParts DEF TypeInv, LoopTypes
    <3>2. turns'[c[1]] >= turns[c[1]] /\ turns'[c[1]] \in Nat
      BY <1>1, <3>1 DEF TypeInv, LoopTypes
    <3> QED BY <2>1, <3>1, <3>2
  <2> QED BY <1>2, <2>1 DEF RoundInv, NotYet
<1> QED BY <1>8, <1>9, <1>10, <1>11, <1>12 DEF RoundInv

\* The round in the slot is announced by one event, the first of its kind.
LEMMA AnnounceRounds == ASSUME TypeInv, RoundInv, Announce PROVE RoundInv'
<1>1. PICK calls \in unshown :
        /\ unshown' = unshown \ {calls}
        /\ events' = events \o <<BusyEvent(TRUE), PopupsEvent(calls)>>
  BY DEF Announce, Emit
<1>2. UNCHANGED <<phase, turns, pending, granted, slot, popup, answer, ran, declined>>
  BY DEF Announce, loopVars, windowVars, historyVars
<1>3. (\A i \in Requests : Round(i)' = Round(i)) /\ ((slot # NoSession)' <=> slot # NoSession)
      /\ (slot # NoSession => slot.owner \in Requests)
  BY <1>2, SlotRound DEF Round, NoSession, Unanswered
<1>4. /\ slot # NoSession /\ calls = Round(slot.owner)
      /\ \A c \in calls : popup[c] = "none"
      /\ \A n \in DOMAIN events : ~PopupsAt(n)
  BY <1>1 DEF RoundInv, PopupsOnce
<1>5. unshown' = {}
  BY <1>1, <1>4 DEF RoundInv, PopupsOnce
<1>6. \A m \in DOMAIN events' : PopupsAt(m)' => m = Len(events) + 2 /\ events'[m].calls = calls
  <2> DEFINE told == BusyEvent(TRUE)
             wanted == PopupsEvent(calls)
  <2>1. told.kind = "busy" /\ wanted.kind = "popups" /\ wanted.calls = calls
    BY DEF BusyEvent, PopupsEvent
  <2>2. events \in Seq(Events) /\ events' = events \o <<told, wanted>>
    BY <1>1 DEF TypeInv, QueueTypes
  <2> HIDE DEF told, wanted
  <2>3. /\ DOMAIN events' = 1 .. Len(events) + 2 /\ DOMAIN events = 1 .. Len(events)
        /\ \A m \in 1 .. Len(events) : events'[m] = events[m]
        /\ events'[Len(events) + 1] = told
        /\ events'[Len(events) + 2] = wanted
        /\ Len(events) \in Nat
    BY <2>1, <2>2
  <2> QED BY <1>4, <2>1, <2>3 DEF PopupsAt
<1>7. PopupsOnce'
  BY <1>2, <1>3, <1>4, <1>5, <1>6 DEF PopupsOnce
<1>8. LiveInSlot' /\ AnswerGiven' /\ OneTakes' /\ Heard' /\ SlotHeard' /\ GrantsHeard' /\ NotYet'
  BY <1>2, <1>3 DEF RoundInv, LiveInSlot, AnswerGiven, OneTakes, Heard, SlotHeard, Word,
                    GrantsHeard, NotYet
<1> QED BY <1>7, <1>8 DEF RoundInv

\* The window opens the popups of the round in the slot, all at once and for the first time.
LEMMA DeliverRounds == ASSUME TypeInv, OnceInv, RoundInv, Deliver PROVE RoundInv'
<1> DEFINE e == events[1]
<1>1. /\ events \in Seq(Events) /\ events # <<>> /\ events' = Tail(events)
      /\ UNCHANGED <<phase, turns, pending, granted, slot, unshown, answer, ran, declined>>
  BY DEF Deliver, TypeInv, QueueTypes, loopVars, historyVars
<1>2. /\ e.kind = "busy" => popup' = popup
      /\ e.kind = "popups" =>
           popup' = [c \in Calls |-> IF c \in e.calls THEN "open" ELSE popup[c]]
      /\ e.kind \in {"busy", "popups"}
  BY <1>1 DEF Deliver
<1>3. /\ 1 \in DOMAIN events
      /\ \A n \in DOMAIN events' : n + 1 \in DOMAIN events /\ events'[n] = events[n + 1] /\ n + 1 # 1
                                   /\ n \in Nat
  BY <1>1
<1>4. (\A i \in Requests : Round(i)' = Round(i)) /\ ((slot # NoSession)' <=> slot # NoSession)
      /\ (slot # NoSession => slot.owner \in Requests)
  BY <1>1, SlotRound DEF Round, NoSession, Unanswered
<1>5. CASE e.kind = "busy"
  <2>1. popup' = popup
    BY <1>2, <1>5
  <2>2. LiveInSlot' /\ AnswerGiven' /\ OneTakes' /\ Heard' /\ SlotHeard' /\ GrantsHeard' /\ NotYet'
    BY <1>1, <1>4, <2>1 DEF RoundInv, LiveInSlot, AnswerGiven, OneTakes, Heard, SlotHeard, Word,
                            GrantsHeard, NotYet
  <2>3. \A n \in DOMAIN events' : PopupsAt(n)' => PopupsAt(n + 1)
    BY <1>3 DEF PopupsAt
  <2>4. ASSUME NEW n \in DOMAIN events', PopupsAt(n)'
        PROVE  /\ (slot # NoSession)' /\ events'[n].calls = Round(slot.owner)'
               /\ \A c \in events'[n].calls : popup'[c] = "none"
    <3>1. n + 1 \in DOMAIN events /\ events'[n] = events[n + 1] /\ PopupsAt(n + 1)
      BY <1>3, <2>3, <2>4
    <3>2. /\ slot # NoSession /\ events[n + 1].calls = Round(slot.owner)
          /\ \A c \in events[n + 1].calls : popup[c] = "none"
      BY <3>1 DEF RoundInv, PopupsOnce
    <3> QED BY <1>1, <1>4, <2>1, <3>1, <3>2
  <2>5. ASSUME NEW m \in DOMAIN events', NEW n \in DOMAIN events', PopupsAt(m)', PopupsAt(n)'
        PROVE  m = n
    <3>1. m + 1 = n + 1
      BY <1>3, <2>3, <2>5 DEF RoundInv, PopupsOnce
    <3> QED BY <1>3, <3>1
  <2>6. ASSUME NEW calls \in unshown'
        PROVE  /\ (slot # NoSession)' /\ calls = Round(slot.owner)'
               /\ \A c \in calls : popup'[c] = "none"
               /\ \A n \in DOMAIN events' : ~PopupsAt(n)'
    <3>1. /\ slot # NoSession /\ calls = Round(slot.owner)
          /\ \A c \in calls : popup[c] = "none"
          /\ \A n \in DOMAIN events : ~PopupsAt(n)
      BY <1>1, <2>6 DEF RoundInv, PopupsOnce
    <3> QED BY <1>1, <1>3, <1>4, <2>1, <2>3, <3>1
  <2>7. PopupsOnce'
    BY <2>4, <2>5, <2>6 DEF PopupsOnce
  <2> QED BY <2>2, <2>7 DEF RoundInv
<1>6. CASE e.kind = "popups"
  <2>1. /\ slot # NoSession /\ e.calls = Round(slot.owner)
        /\ \A c \in e.calls : popup[c] = "none" /\ c \in Calls
    BY <1>3, <1>4, <1>6, RoundParts DEF RoundInv, PopupsOnce, PopupsAt
  <2>2. /\ \A c \in e.calls : popup'[c] = "open"
        /\ \A c \in Calls : c \notin e.calls => popup'[c] = popup[c]
    BY <1>2, <1>6, <2>1
  <2>3. \A n \in DOMAIN events' : ~PopupsAt(n)'
    BY <1>3, <1>6 DEF RoundInv, PopupsOnce, PopupsAt
  <2>9. unshown' = {}
    BY <1>1, <1>3, <1>6 DEF RoundInv, PopupsOnce, PopupsAt
  <2> HIDE DEF e
  <2>4. PopupsOnce'
    BY <2>3, <2>9 DEF PopupsOnce
  <2>5. LiveInSlot' /\ AnswerGiven' /\ OneTakes' /\ Heard'
    BY <1>1, <1>4, <2>1, <2>2 DEF RoundInv, LiveInSlot, AnswerGiven, OneTakes, Heard
  <2>6. SlotHeard'
    BY <1>1, <1>4, <2>1, <2>2 DEF RoundInv, SlotHeard, Word
  <2>7. GrantsHeard'
    BY <1>1, <1>4, <2>1, <2>2, RoundParts DEF RoundInv, GrantsHeard
  <2>8. NotYet'
    <3>1. \A c \in e.calls : ~(c[2] > turns[c[1]])
      BY <1>4, <2>1, RoundParts DEF TypeInv, LoopTypes
    <3> QED BY <1>1, <2>2, <3>1 DEF RoundInv, NotYet
  <2> QED BY <2>4, <2>5, <2>6, <2>7, <2>8 DEF RoundInv
<1> QED BY <1>2, <1>5, <1>6

\* An answer goes to its own round, and the last one goes on.
LEMMA RecordRounds ==
  ASSUME TypeInv, RoundInv, IdsDistinct, NEW c \in Calls, Record(c)
  PROVE  RoundInv'
<1> DEFINE answers == [slot.answers EXCEPT ![CallId[c]] = answer[c]]
<1>1. /\ popup[c] = "sent" /\ slot' = [slot EXCEPT !.answers = answers]
      /\ popup' = [popup EXCEPT ![c] = IF AllResolved(answers) THEN "taking" ELSE "closed"]
      /\ UNCHANGED <<phase, turns, pending, granted, events, unshown, answer, ran, declined>>
  BY DEF Record, loopVars, historyVars
<1>2. slot # NoSession /\ c \in Round(slot.owner) /\ answer[c] # "none"
  BY <1>1 DEF RoundInv, LiveInSlot, AnswerGiven
<1>3. slot \in Sessions /\ slot.owner \in Requests
  BY <1>2, SlotRound
<1>4. slot'.owner = slot.owner /\ slot'.answers = answers /\ (slot # NoSession)'
  <2>1. slot'.owner = slot.owner /\ slot'.answers = answers
    BY <1>1, <1>3 DEF Sessions
  <2>2. (NoSession.owner)' = "none" /\ slot.owner # "none"
    BY <1>3, RequestAssumption DEF NoSession
  <2> QED BY <2>1, <2>2
<1>5. \A i \in Requests : Round(i)' = Round(i) /\ Round(i) \subseteq Calls
  BY <1>1 DEF Round, TypeInv, LoopTypes
<1>6. /\ answers[CallId[c]] = answer[c]
      /\ \A d \in Calls : d # c => answers[CallId[d]] = Word(d)
  BY <1>3, IdAssumption DEF Sessions, IdsDistinct, Word
<1>7. /\ popup'[c] = "taking" => \A d \in Round(slot.owner) : answers[CallId[d]] # "none"
      /\ popup'[c] \in {"taking", "closed"}
      /\ \A d \in Calls : d # c => popup'[d] = popup[d]
  <2>1. AllResolved(answers) => \A d \in Round(slot.owner) : answers[CallId[d]] # "none"
    BY <1>2 DEF AllResolved, Awaited
  <2> HIDE DEF answers
  <2> QED BY <1>1, <2>1 DEF TypeInv, WindowTypes
<1> HIDE DEF answers
<1>8. \A d \in Calls : popup[d] # "taking"
  <2>1. Word(c) = "none"
    BY <1>1, <1>2 DEF RoundInv, SlotHeard
  <2> QED BY <1>2, <2>1 DEF RoundInv, LiveInSlot, SlotHeard
<1>9. LiveInSlot' /\ AnswerGiven' /\ OneTakes' /\ Heard' /\ NotYet'
  BY <1>1, <1>2, <1>3, <1>4, <1>5, <1>7, <1>8
  DEF RoundInv, LiveInSlot, AnswerGiven, OneTakes, Heard, NotYet
<1>10. PopupsOnce'
  <2>1. (\A n \in DOMAIN events : ~PopupsAt(n)) /\ unshown = {}
    BY <1>1, <1>2 DEF RoundInv, PopupsOnce
  <2> QED BY <1>1, <2>1 DEF PopupsOnce, PopupsAt
<1>11. SlotHeard'
  <2>1. ASSUME NEW d \in Round(slot.owner)
        PROVE  /\ popup'[d] \in {"none", "open", "sent"} => answers[CallId[d]] = "none"
               /\ popup'[d] \in {"taking", "closed"} => answers[CallId[d]] = answer[d]
               /\ popup'[d] = "taking" => \A b \in Round(slot.owner) : answers[CallId[b]] # "none"
    <3>1. CASE d = c
      BY <1>6, <1>7, <3>1
    <3>2. CASE d # c
      BY <1>2, <1>3, <1>5, <1>6, <1>7, <1>8, <3>2 DEF RoundInv, SlotHeard
    <3> QED BY <3>1, <3>2
  <2> QED BY <1>1, <1>3, <1>4, <1>5, <2>1 DEF SlotHeard, Word
<1>12. GrantsHeard'
  BY <1>1, <1>5, <1>7 DEF RoundInv, GrantsHeard
<1> QED BY <1>9, <1>10, <1>11, <1>12 DEF RoundInv

\* The round is taken as it was answered, and no popup of it is left.
LEMMA TakeRounds == ASSUME TypeInv, RoundInv, NEW c \in Calls, Take(c) PROVE RoundInv'
<1> DEFINE i == slot.owner
<1>1. /\ popup[c] = "taking" /\ slot # NoSession /\ slot' = NoSession
      /\ phase' = [phase EXCEPT ![i] = "resuming"]
      /\ granted' = [granted EXCEPT ![i] = slot.answers]
      /\ popup' = [popup EXCEPT ![c] = "closed"]
      /\ UNCHANGED <<turns, pending, events, unshown, answer, ran, declined>>
  BY DEF Take, historyVars
<1>2. c \in Round(i) /\ i \in Requests /\ slot \in Sessions
  BY <1>1, SlotRound DEF RoundInv, LiveInSlot
<1>3. \A j \in Requests : Round(j)' = Round(j) /\ Round(j) \subseteq Calls
  BY <1>1 DEF Round, TypeInv, LoopTypes
<1>4. \A d \in Round(i) : Word(d) # "none" /\ (popup[d] = "taking" => d = c)
  BY <1>1, <1>2, <1>3 DEF RoundInv, SlotHeard, OneTakes
<1>5. popup'[c] = "closed" /\ \A d \in Calls : d # c => popup'[d] = popup[d]
  BY <1>1 DEF TypeInv, WindowTypes
<1>6. ASSUME NEW d \in Round(i) PROVE popup'[d] = "closed" /\ slot.answers[CallId[d]] = answer[d]
  <2>1. popup[d] \in PopupStates /\ d \in Calls
    BY <1>2, <1>3 DEF TypeInv, WindowTypes
  <2>2. popup[d] \in {"taking", "closed"}
    BY <1>1, <1>4, <2>1 DEF RoundInv, SlotHeard, PopupStates
  <2>3. Word(d) = answer[d]
    BY <1>1, <2>2 DEF RoundInv, SlotHeard
  <2> QED BY <1>4, <1>5, <2>1, <2>2, <2>3 DEF Word
<1>7. slot' = NoSession'
  BY <1>1 DEF NoSession, Unanswered
<1>8. \A d \in Calls : popup'[d] \notin {"open", "sent", "taking"}
  BY <1>1, <1>5, <1>6 DEF RoundInv, LiveInSlot
<1>9. LiveInSlot' /\ AnswerGiven' /\ OneTakes' /\ Heard' /\ NotYet' /\ SlotHeard'
  BY <1>1, <1>5, <1>7, <1>8
  DEF RoundInv, LiveInSlot, AnswerGiven, OneTakes, Heard, NotYet, SlotHeard
<1>10. PopupsOnce'
  <2>1. (\A n \in DOMAIN events : ~PopupsAt(n)) /\ unshown = {}
    BY <1>1, <1>2 DEF RoundInv, PopupsOnce
  <2> QED BY <1>1, <2>1 DEF PopupsOnce, PopupsAt
<1>11. GrantsHeard'
  <2>1. \A j \in Requests : j # i => phase'[j] = phase[j] /\ granted'[j] = granted[j]
    BY <1>1 DEF TypeInv, LoopTypes
  <2>2. granted'[i] = slot.answers
    BY <1>1, <1>2 DEF TypeInv, LoopTypes
  <2>3. ASSUME NEW j \in Requests, phase'[j] = "resuming", NEW d \in Round(j)
        PROVE  popup'[d] = "closed" /\ granted'[j][CallId[d]] = answer[d]
    <3>1. CASE j = i
      BY <1>6, <2>2, <2>3, <3>1
    <3>2. CASE j # i
      <4>1. popup[d] = "closed" /\ granted[j][CallId[d]] = answer[d] /\ d \in Calls
        BY <1>3, <2>1, <2>3, <3>2 DEF RoundInv, GrantsHeard
      <4> QED BY <1>5, <2>1, <3>2, <4>1
    <3> QED BY <3>1, <3>2
  <2> QED BY <1>1, <1>3, <2>3 DEF GrantsHeard
<1> QED BY <1>9, <1>10, <1>11 DEF RoundInv

\* What was granted runs, what was not is declined: as the operator answered.
LEMMA ResumeRounds ==
  ASSUME TypeInv, OnceInv, RoundInv, NEW i \in Requests, Resume(i)
  PROVE  RoundInv'
<1>1. /\ phase[i] = "resuming" /\ phase' = [phase EXCEPT ![i] = "model"]
      /\ pending' = [pending EXCEPT ![i] = 0]
      /\ granted' = [granted EXCEPT ![i] = Unanswered]
      /\ UNCHANGED <<turns, slot, events, unshown, popup, answer>>
  BY DEF Resume, windowVars
<1>2. \A j \in Requests : j # i => /\ phase'[j] = phase[j] /\ granted'[j] = granted[j]
                                   /\ Round(j)' = Round(j)
  BY <1>1 DEF TypeInv, LoopTypes, Round
<1>3. slot # NoSession => slot.owner # i /\ slot.owner \in Requests
  BY <1>1, SlotRound DEF OnceInv
<1>4. (slot # NoSession)' <=> slot # NoSession
  BY <1>1 DEF NoSession, Unanswered
<1>5. LiveInSlot' /\ AnswerGiven' /\ OneTakes' /\ NotYet' /\ SlotHeard' /\ PopupsOnce'
  BY <1>1, <1>2, <1>3, <1>4
  DEF RoundInv, LiveInSlot, AnswerGiven, OneTakes, NotYet, SlotHeard, Word, PopupsOnce, PopupsAt
<1>6. GrantsHeard'
  <2>1. phase'[i] = "model"
    BY <1>1 DEF TypeInv, LoopTypes
  <2> QED BY <1>1, <1>2, <2>1 DEF RoundInv, GrantsHeard
<1>7. ASSUME NEW c \in Calls
      PROVE  /\ ran'[c] > 0 => popup[c] = "closed" /\ answer[c] = "yes"
             /\ c \in declined' => popup[c] = "closed" /\ answer[c] = "no"
  <2>1. /\ ran'[c] > 0 => ran[c] > 0 \/ (c \in Round(i) /\ Approved(i, c))
        /\ c \in declined' => c \in declined \/ (c \in Round(i) /\ ~Approved(i, c))
    BY DEF Resume
  <2>2. ASSUME c \in Round(i)
        PROVE  popup[c] = "closed" /\ (Approved(i, c) <=> answer[c] = "yes") /\ answer[c] # "none"
    BY <1>1, <2>2 DEF RoundInv, GrantsHeard, AnswerGiven, Approved
  <2>3. answer[c] \in {"none", "yes", "no"}
    BY DEF TypeInv, WindowTypes, Decisions
  <2> QED BY <2>1, <2>2, <2>3 DEF RoundInv, Heard
<1>8. Heard'
  BY <1>1, <1>7 DEF Heard
<1> QED BY <1>5, <1>6, <1>8 DEF RoundInv

LEMMA NextRounds == TypeInv /\ OnceInv /\ RoundsInv /\ [Next]_vars => RoundsInv'
<1> SUFFICES ASSUME TypeInv, OnceInv, RoundsInv, [Next]_vars, IdsDistinct, ~replaced'
             PROVE  RoundInv'
  BY DEF RoundsInv, IdsDistinct
<1>0. ~replaced
  BY DEF Next, Operator, ClickSend, Respond, Admission, RefuseSend, AdmitSend, StartLoop, Thread,
         Exhaust, ModelFails, ModelReplies, ModelReads, Finish, Suspend, Resume, Announce, Deliver,
         Confirm, ConfirmRefused, Record, Take, TakeRefused, historyVars, vars
<1>1. RoundInv
  BY <1>0 DEF RoundsInv
<1>2. ASSUME NEW i \in Requests, ClickSend(i) \/ Admission(i) \/ (Thread(i) /\ ~Suspend(i) /\ ~Resume(i))
      PROVE  RoundInv'
  <2>1. PICK p \in {"clicked", "admitted", "refused", "model", "done"} :
          phase' = [phase EXCEPT ![i] = p]
    <3>1. ModelReads(i) => phase' = [phase EXCEPT ![i] = "model"]
      BY DEF ModelReads, TypeInv, LoopTypes
    <3> QED BY <1>2, <3>1 DEF ClickSend, Admission, RefuseSend, AdmitSend, StartLoop, Thread,
                              Exhaust, ModelFails, ModelReplies, Finish
  <2>2. /\ ~Holds(i)
        /\ turns' = turns \/ turns' = [turns EXCEPT ![i] = turns[i] + 1]
        /\ UNCHANGED <<slot, unshown, popup, answer, ran, declined, pending, granted>>
    BY <1>2 DEF ClickSend, Admission, RefuseSend, AdmitSend, StartLoop, Thread, Exhaust, ModelFails,
                ModelReplies, ModelReads, Finish, Holds, windowVars, historyVars
  <2>3. events' = events \/ \E b \in BOOLEAN : Emit(<<BusyEvent(b)>>)
    BY <1>2 DEF ClickSend, Admission, RefuseSend, AdmitSend, StartLoop, Thread, Exhaust, ModelFails,
                ModelReplies, ModelReads, Finish
  <2>4. p # "resuming"
    OBVIOUS
  <2> QED BY <1>1, <2>1, <2>2, <2>3, <2>4, RestRounds
<1>3. ASSUME NEW i \in Requests, Suspend(i) PROVE RoundInv'
  <2>1. slot = NoSession
    BY <1>3 DEF Suspend
  <2> QED BY <1>1, <1>3, <2>1, SuspendRounds
<1>4. ASSUME NEW i \in Requests, Resume(i) PROVE RoundInv'
  BY <1>1, <1>4, ResumeRounds
<1>5. CASE Deliver \/ Announce
  BY <1>1, <1>5, DeliverRounds, AnnounceRounds
<1>6. ASSUME NEW c \in Calls, NEW decision \in {"yes", "no"}, Respond(c, decision) PROVE RoundInv'
  BY <1>1, <1>6, RespondRounds
<1>7. ASSUME NEW c \in Calls, Record(c) \/ Take(c) PROVE RoundInv'
  BY <1>1, <1>7, RecordRounds, TakeRounds
<1>8. ASSUME NEW c \in Calls, ConfirmRefused(c) \/ TakeRefused(c) PROVE FALSE
  <2>1. slot # NoSession /\ c \in Round(slot.owner)
    BY <1>1, <1>8 DEF ConfirmRefused, TakeRefused, RoundInv, LiveInSlot
  <2> QED BY <1>8, <2>1 DEF ConfirmRefused, TakeRefused, Awaited
<1>9. CASE UNCHANGED vars
  <2>1. UNCHANGED <<phase, turns, pending, granted, slot, events, unshown, popup, answer, ran,
                    declined>>
    BY <1>9 DEF vars, loopVars, windowVars, historyVars
  <2>2. (\A i : Round(i)' = Round(i)) /\ ((slot # NoSession)' <=> slot # NoSession)
    BY <2>1 DEF Round, NoSession, Unanswered
  <2> QED BY <1>1, <2>1, <2>2 DEF RoundInv, LiveInSlot, AnswerGiven, PopupsOnce, PopupsAt,
                                  SlotHeard, Word, OneTakes, GrantsHeard, Heard, NotYet
<1> QED BY <1>2, <1>3, <1>4, <1>5, <1>6, <1>7, <1>8, <1>9 DEF Next, Operator, Confirm, Thread

LEMMA RoundsImplied == TypeInv /\ OnceInv /\ RoundsInv => RoundsAnswered
<1> SUFFICES ASSUME TypeInv, OnceInv, RoundInv, NEW c \in Calls
             PROVE  /\ ran[c] > 0 => answer[c] = "yes" /\ \A d \in ShownWith(c) : answer[d] # "none"
                    /\ c \in declined => answer[c] = "no"
                    /\ popup[c] = "open" => slot # NoSession /\ c \in Round(slot.owner)
  BY DEF RoundsInv, RoundsAnswered
<1>1. ASSUME ran[c] > 0, NEW d \in ShownWith(c) PROVE answer[d] # "none"
  <2>1. d \in Calls /\ d[1] = c[1] /\ d[2] = c[2] /\ popup[d] # "none"
    BY <1>1 DEF ShownWith
  <2>2. ASSUME popup[d] = "open" PROVE FALSE
    <3>1. slot # NoSession /\ d \in Round(slot.owner)
      BY <2>1, <2>2 DEF RoundInv, LiveInSlot
    <3>2. slot.owner \in Requests /\ phase[slot.owner] = "awaiting"
      BY <3>1, SlotRound DEF OnceInv
    <3>3. c[1] = slot.owner /\ c[2] = turns[c[1]] /\ turns[c[1]] \in Nat
      BY <2>1, <3>1, <3>2, RoundParts DEF TypeInv, LoopTypes
    <3> QED BY <1>1, <3>2, <3>3 DEF OnceInv, Spent, Holds
  <2>3. popup[d] \in {"sent", "taking", "closed"}
    BY <2>1, <2>2 DEF TypeInv, WindowTypes, PopupStates
  <2> QED BY <2>1, <2>3 DEF RoundInv, AnswerGiven
<1> QED BY <1>1 DEF RoundInv, Heard, LiveInSlot

\* Unless a session was put over another, nothing runs before its whole round
\* is answered, what ran was approved, what was declined was rejected, and a
\* popup that can be answered belongs to the round in the slot, in whatever
\* order events, answers and commands of the window arrive.
THEOREM OperatorObeyed == Spec => []RoundsAnswered
<1>1. Init => RoundsInv
  BY InitRounds DEF RoundsInv
<1> QED BY <1>1, InitTypes, InitOnce, NextTypes, NextOnce, NextRounds, RoundsImplied, PTL DEF Spec
=============================================================================
