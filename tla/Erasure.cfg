SPECIFICATION ErasureSpec
CONSTANTS
  None = None
  Months = {1, 2}
  Rows <- MCRows
  TableOf <- MCTableOf
  MonthOf <- MCMonthOf
  Refs <- MCRefs
  Writes <- MCWrites
INVARIANT AloneNeverRefused
PROPERTY ResetTakesItsMonth
