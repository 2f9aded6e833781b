CONSTANTS
  c1 = c1
  c2 = c2
  f1 = f1
  f2 = f2
  o1 = o1
  None = None
  Order <- MCOrder
  Findings = {f1, f2}
  Answers <- MCAnswers
  Huge = {c2}
  Quiet = {c2}
  Dated <- MCDated
  Operators = {o1}
  BatchSize = 2
  HistoryMax = 2
  Threshold = 2
  MaxDays = 2
  MaxDisputes = 2
  MaxClicks = 1
  MaxFaults = 1
  MaxLives = 2
SPECIFICATION FairSpec
PROPERTIES
  SettledAreFiled
  DisputesSettle
  EveryConversationIsAnalysed
CHECK_DEADLOCK FALSE
