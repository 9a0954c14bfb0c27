SPECIFICATION Spec
CONSTANTS
  None = None
  r1 = r1
  r2 = r2
  s1 = s1
  s2 = s2
  b1 = b1
  t1 = t1
  Requests = {r1, r2}
  Resolvers = {s1, s2}
  Batches = {b1}
  Transactions = {t1}
  CreateForms <- MCCreateForms
  ImportForms <- MCImportForms
  UpperOf <- MCUpperOf
  MonthOf <- MCMonthOf
  TxDate <- MCTxDate
  Quotes <- MCQuotes
  PriceTables <- MCPriceTables
  Dates = {1, 2, 3}
  CarryDays = 1
  Lookback = 2
  ImportLookback = 1
  MaxEvents = 3
SYMMETRY Symmetry
INVARIANTS BooksClose ResolvedDaysAreValued ChartEndsAtPositions MonthsAgree
PROPERTIES CheckedTradesStayReadable SecondLinkNeedsOverlap 
CHECK_DEADLOCK FALSE
