SPECIFICATION Spec
CONSTANTS
  Request = {r1, r2}
  Tx = {t1, t2}
  LastDay = 4
  YearOf <- Years
  MonthOf <- Years
  Weekend <- Weekends
  DatePairs <- Pairs
  Terms <- AllTerms
  MaxTerms = 2
SYMMETRY Symmetry
INVARIANTS LedgerBalanced NoOverlap RemovedHasNoLeave NeverOverdrawn HoldsCovered
PROPERTIES MonthSettled
