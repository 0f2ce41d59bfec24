SPECIFICATION Spec
CONSTANTS
  Devs = {d1, d2}
  NoDev = NoDev
  NumSerials = 3
  Descriptions <- MCDescriptions
  MaxPlugs = 3
  MaxFaults = 2
SYMMETRY Symmetry
INVARIANT ListedIsClaimed
