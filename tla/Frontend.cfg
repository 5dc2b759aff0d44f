CONSTANTS
  Designs <- MCDesigns
  Budgets <- MCBudgets
  Reads <- MCReads
  Defaults <- MCDefaults
  Expectable <- MCExpectable
SPECIFICATION Spec
CHECK_DEADLOCK FALSE
INVARIANT TypeOK
INVARIANT DesignPartitioned
INVARIANT RefusedExactly
INVARIANT AbortsExplained
INVARIANT OptionsOfRead
INVARIANT ExpectationSettled
