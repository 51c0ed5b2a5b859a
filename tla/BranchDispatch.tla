---------------------------- MODULE BranchDispatch ----------------------------
(***************************************************************************)
(* What the revision store promises about remote writes: a branch has at   *)
(* most one writer, a writer is given permission to send at most once, and *)
(* once it has that permission the branch is its own until the outcome is  *)
(* known to be a commit.  Receipts, fences, generations, grants and the    *)
(* index are not visible here; RevisionStore implements this.              *)
(***************************************************************************)
CONSTANTS Branches, Operations, None

VARIABLES phase,  \* how far the dispatch of each operation has gone
          writer  \* the operation each branch is reserved for

dispatchVars == <<phase, writer>>

Phase == {"idle", "holding", "sent", "settled", "released"}

DispatchTypeOK ==
  /\ phase \in [Operations -> Phase]
  /\ writer \in [Branches -> Operations \union {None}]

DispatchInit ==
  /\ phase = [o \in Operations |-> "idle"]
  /\ writer = [b \in Branches |-> None]

Acquire(o, b) ==
  /\ phase[o] = "idle" /\ writer[b] = None
  /\ phase' = [phase EXCEPT ![o] = "holding"]
  /\ writer' = [writer EXCEPT ![b] = o]

Send(o) ==
  /\ phase[o] = "holding"
  /\ phase' = [phase EXCEPT ![o] = "sent"]
  /\ UNCHANGED writer

\* Only an operation that never sent may give its branch back without a commit.
Release(o, b) ==
  /\ phase[o] = "holding" /\ writer[b] = o
  /\ phase' = [phase EXCEPT ![o] = "released"]
  /\ writer' = [writer EXCEPT ![b] = None]

Settle(o, b) ==
  /\ phase[o] \in {"holding", "sent"} /\ writer[b] = o
  /\ phase' = [phase EXCEPT ![o] = "settled"]
  /\ writer' = [writer EXCEPT ![b] = None]

\* An operation that never took a branch is turned down.
Refuse(o) ==
  /\ phase[o] = "idle"
  /\ phase' = [phase EXCEPT ![o] = "released"]
  /\ UNCHANGED writer

DispatchNext ==
  \E o \in Operations :
    \/ Send(o)
    \/ Refuse(o)
    \/ \E b \in Branches : Acquire(o, b) \/ Release(o, b) \/ Settle(o, b)

DispatchSpec == DispatchInit /\ [][DispatchNext]_dispatchVars
-----------------------------------------------------------------------------
(***************************************************************************)
(* An operation that may have a request at the provider owns a branch, and *)
(* a branch is reserved for an operation that still needs it: nobody else  *)
(* can write there, and no branch is blocked for nothing.                  *)
(***************************************************************************)
WriterExclusive ==
  /\ \A o \in Operations :
       phase[o] \in {"holding", "sent"} <=> \E b \in Branches : writer[b] = o
  /\ \A b, c \in Branches : writer[b] = writer[c] /\ writer[b] # None => b = c
==============================================================================
