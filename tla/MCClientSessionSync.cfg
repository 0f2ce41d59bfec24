SPECIFICATION Spec
CONSTANTS
  NumSerials = 1
  MaxCalls = 1
  MaxTimeouts = 0
  MaxChanges = 1
INVARIANT InSync
