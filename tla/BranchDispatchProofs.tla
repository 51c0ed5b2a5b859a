-------------------------- MODULE BranchDispatchProofs --------------------------
\* The promise of BranchDispatch, for any branches and operations.
EXTENDS BranchDispatch, TLAPS

ExclusiveInv == DispatchTypeOK /\ WriterExclusive

LEMMA ExclusiveInit ==
  ASSUME None \notin Operations
  PROVE  DispatchInit => ExclusiveInv
BY DEF DispatchInit, ExclusiveInv, DispatchTypeOK, WriterExclusive, Phase

\* Taking a free branch makes the operation, which had none, its only writer.
LEMMA AcquireKeeps ==
  ASSUME None \notin Operations, ExclusiveInv, NEW o \in Operations, NEW b \in Branches, Acquire(o, b)
  PROVE  ExclusiveInv'
<1>1. DispatchTypeOK'
  BY DEF ExclusiveInv, DispatchTypeOK, Acquire, Phase
<1>2. /\ phase' = [phase EXCEPT ![o] = "holding"]
      /\ writer' = [writer EXCEPT ![b] = o]
      /\ writer[b] = None /\ \A c \in Branches : writer[c] # o
  BY DEF ExclusiveInv, WriterExclusive, Acquire
<1>3. ASSUME NEW p \in Operations
      PROVE  phase'[p] \in {"holding", "sent"} <=> \E c \in Branches : writer'[c] = p
  <2>1. CASE p = o
    BY <1>2, <2>1 DEF ExclusiveInv, DispatchTypeOK
  <2>2. CASE p # o
    <3>1. \A c \in Branches : writer'[c] = p <=> writer[c] = p
      BY <1>2, <2>2 DEF ExclusiveInv, DispatchTypeOK
    <3> QED BY <1>2, <2>2, <3>1 DEF ExclusiveInv, DispatchTypeOK, WriterExclusive
  <2> QED BY <2>1, <2>2
<1>4. ASSUME NEW c \in Branches, NEW d \in Branches,
             writer'[c] = writer'[d], writer'[c] # None
      PROVE  c = d
  BY <1>2, <1>4 DEF ExclusiveInv, DispatchTypeOK, WriterExclusive
<1> QED BY <1>1, <1>3, <1>4 DEF ExclusiveInv, WriterExclusive

\* Giving a branch back, released or settled, leaves its operation without any.
LEMMA GivingBackKeeps ==
  ASSUME None \notin Operations, ExclusiveInv, NEW o \in Operations, NEW b \in Branches, Release(o, b) \/ Settle(o, b)
  PROVE  ExclusiveInv'
<1>1. PICK final \in {"released", "settled"} :
        /\ phase' = [phase EXCEPT ![o] = final]
        /\ writer' = [writer EXCEPT ![b] = None]
        /\ writer[b] = o
  BY DEF Release, Settle
<1>2. DispatchTypeOK'
  BY <1>1 DEF ExclusiveInv, DispatchTypeOK, Phase
<1>3. ASSUME NEW p \in Operations
      PROVE  phase'[p] \in {"holding", "sent"} <=> \E c \in Branches : writer'[c] = p
  <2>1. CASE p = o
    <3>1. \A c \in Branches : writer[c] = o => c = b
      BY <1>1 DEF ExclusiveInv, WriterExclusive
    <3>2. \A c \in Branches : writer'[c] # o
      BY <1>1, <3>1 DEF ExclusiveInv, DispatchTypeOK
    <3>3. phase'[o] = final
      BY <1>1 DEF ExclusiveInv, DispatchTypeOK
    <3> QED BY <2>1, <3>2, <3>3
  <2>2. CASE p # o
    <3>1. \A c \in Branches : writer'[c] = p <=> writer[c] = p
      BY <1>1, <2>2 DEF ExclusiveInv, DispatchTypeOK
    <3> QED BY <1>1, <2>2, <3>1 DEF ExclusiveInv, DispatchTypeOK, WriterExclusive
  <2> QED BY <2>1, <2>2
<1>4. ASSUME NEW c \in Branches, NEW d \in Branches,
             writer'[c] = writer'[d], writer'[c] # None
      PROVE  c = d
  BY <1>1, <1>4 DEF ExclusiveInv, DispatchTypeOK, WriterExclusive
<1> QED BY <1>2, <1>3, <1>4 DEF ExclusiveInv, WriterExclusive

\* Sending and refusing move no branch.
LEMMA KeepingBranchesKeeps ==
  ASSUME None \notin Operations, ExclusiveInv, NEW o \in Operations, Send(o) \/ Refuse(o)
  PROVE  ExclusiveInv'
<1>1. PICK next \in {"sent", "released"} :
        /\ phase' = [phase EXCEPT ![o] = next]
        /\ UNCHANGED writer
        /\ next = "sent" <=> phase[o] \in {"holding", "sent"}
  BY DEF Send, Refuse
<1>2. DispatchTypeOK'
  BY <1>1 DEF ExclusiveInv, DispatchTypeOK, Phase
<1>3. \A p \in Operations : phase'[p] \in {"holding", "sent"} <=> phase[p] \in {"holding", "sent"}
  BY <1>1 DEF ExclusiveInv, DispatchTypeOK
<1> QED BY <1>1, <1>2, <1>3 DEF ExclusiveInv, WriterExclusive

(***************************************************************************)
(* At any number of branches and operations, an operation that may have a  *)
(* request at the provider owns exactly one branch, and every reserved     *)
(* branch is reserved for such an operation or one about to become so.     *)
(***************************************************************************)
THEOREM DispatchExclusive ==
  ASSUME None \notin Operations
  PROVE  DispatchSpec => []WriterExclusive
<1>1. ExclusiveInv /\ [DispatchNext]_dispatchVars => ExclusiveInv'
  <2> SUFFICES ASSUME ExclusiveInv, [DispatchNext]_dispatchVars PROVE ExclusiveInv'
    OBVIOUS
  <2>1. CASE DispatchNext
    BY <2>1, AcquireKeeps, GivingBackKeeps, KeepingBranchesKeeps DEF DispatchNext
  <2>2. CASE UNCHANGED dispatchVars
    BY <2>2 DEF dispatchVars, ExclusiveInv, DispatchTypeOK, WriterExclusive
  <2> QED BY <2>1, <2>2
<1>2. ExclusiveInv => WriterExclusive
  BY DEF ExclusiveInv
<1> QED BY <1>1, <1>2, ExclusiveInit, PTL DEF DispatchSpec
==============================================================================
