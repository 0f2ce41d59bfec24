SPECIFICATION Spec
CONSTANTS
  NumSerials = 2
  MaxCalls = 3
  MaxTimeouts = 1
  MaxChanges = 2
INVARIANTS AnswersInOrder FailureIsRaised MirrorFollows ChangesReachDevices
