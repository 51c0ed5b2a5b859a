------------------------------ MODULE MCRhaiLive ------------------------------
(* The constants of the RhaiLive run.                                      *)
EXTENDS RhaiLive

\* A block without a diagram, a pipeline, and thresholds in both directions
\* of the subject of ReviewDraft, in no order: that draft extends the chain.
MCPlain == <<IgnoredLine>>
MCPipeline == <<FnLine("ingest", "classify"), BareIfLine("approved", "commit")>>
MCThresholds == <<IfLine("confidence", ">", 20, "review"), IfLine("confidence", ">", 70, "commit"),
                  IfLine("confidence", "<", 10, "halt"), IfLine("confidence", "<", 5, "alarm")>>

MCEdits == {MCPlain, MCPipeline, MCThresholds}
MCOriginal == <<MCPipeline, MCThresholds>>
MCDrafts == {ReviewDraft, DispositionDraft, XeroDraft}
=============================================================================
