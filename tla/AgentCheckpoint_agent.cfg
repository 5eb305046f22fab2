SPECIFICATION Spec

CONSTANTS
  c1 = c1
  c2 = c2
  flowA = flowA
  flowB = flowB
  note = note
  NoInput = NoInput
  Callers = {c1, c2}
  Flows = {flowA, flowB}
  Evidence = {note}
  Inputs <- MCInputs
  MaxRuns = 3
  MaxFaults = 1

SYMMETRY CallerSymmetry
CHECK_DEADLOCK FALSE

INVARIANT TypeOK
INVARIANT WaitingIsJustified
PROPERTY RefinesRegister
