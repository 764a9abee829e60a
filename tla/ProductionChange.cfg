SPECIFICATION Spec
CONSTANTS
  HeadOf <- MCHead
  KindOf <- MCKind
  Runtime <- MCRuntime
  Stages <- MCStages
  MaxJobs = 3
  MaxFaults = 1
INVARIANTS TypeOK LedgerIsTrue
PROPERTIES UpdatedOnConfirmedSchema ServicesNeverGoBack StagesConverge
CHECK_DEADLOCK FALSE
