SPECIFICATION Spec
CONSTANTS
  IntMin <- MCIntMin
  IntMax = 2
  TraceBound = 200
  StackSize = 100
  MaxCalls = 5
  Programs <- MCPrograms
INVARIANT RunsAsWritten
INVARIANT TracerSound
INVARIANT MachineBalanced
INVARIANT CheckedLeavesNoTrace
INVARIANT SessionsAgree
PROPERTY EveryCallReturns
CHECK_DEADLOCK FALSE
