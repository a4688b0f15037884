SPECIFICATION Spec
CONSTANTS
  Wrap = 17
  Step = 2
  Debounce = 3
  Long = 6
  YieldTime = 4
INVARIANTS TypeOK ReportedOnce
PROPERTY YieldLastsItsTime
