SPECIFICATION Spec
CONSTANTS
  EditorCount = 2
  Original <- MCOriginal
  Edits <- MCEdits
  Drafts <- MCDrafts
  MaxActions = 3
CHECK_DEADLOCK FALSE
INVARIANT SwitchDecidesView
