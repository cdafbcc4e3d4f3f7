CONSTANTS
  Letters = {"a"}
  MaxLength = 7
  Instants = {172799004, 172800120, 200000995}
  Offsets = {0, 120, 330}
SPECIFICATION Spec
INVARIANTS
  StackFollowsLine
  ValidIffBalanced
  ReadsByGrammar
  CutLineKeepsArguments
  TimestampsDenoteInstants
CHECK_DEADLOCK FALSE
