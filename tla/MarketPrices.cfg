SPECIFICATION MarketSpec
CONSTANTS
  None = None
  f1 = f1
  f2 = f2
  f3 = f3
  Fetches = {f1, f2, f3}
  UpperOf <- MCUpperOf
  MonthOf <- MCMonthOf
  CarryDays = 1
  Prices = {1}
  CloseDates = {1, 2}
  Instruments <- MCInstruments
INVARIANT FetchedDaysAreServed
PROPERTY PricesGoBackOnlyWhenOverlapping
SYMMETRY FetchSymmetry
CHECK_DEADLOCK FALSE
