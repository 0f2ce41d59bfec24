SPECIFICATION Spec
CONSTANTS
  Uses <- MCUses
  Others <- MCOthers
  Garbage <- MCGarbage
  Factory = {1025, 1160}
  FailPoints = {63}
INVARIANTS WrittenIsReadBack OnlyImagesDecode ImageIsForChip RebuildIsSame
CHECK_DEADLOCK FALSE
