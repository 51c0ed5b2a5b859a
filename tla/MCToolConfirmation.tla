------------------------- MODULE MCToolConfirmation -------------------------
(* The constants of the ToolConfirmation runs.                             *)
EXTENDS ToolConfirmation

\* Every call has an id of its own.
MCCallId == [c \in Calls |-> c]
MCIds == Calls
\* Two calls in the first answer of the model, one in the second.
MCMaxCalls == <<2, 1>>
=============================================================================
