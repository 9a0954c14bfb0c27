SPECIFICATION LabelsSpec
CONSTANTS
  None = None
  Requests = {1, 2}
  Names = {"Food", "food", "Rent"}
  Words = {"a", "b"}
  AskedTexts <- MCAskedTexts
  AskedRules <- MCAskedRules
  Limits = {1, 3}
  Folded <- MCFolded
  Groups <- MCGroups
  StoredCategories <- MCStoredCategories
  StoredTransactions <- MCStoredTransactions
  StoredRules <- MCStoredRules
PROPERTIES
  CategoriesStayFiled TwinsNeedAnOvertakenRequest AppliedRulesSettle LaterChoicesSurvive
CHECK_DEADLOCK FALSE
