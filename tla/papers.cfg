CONSTANTS
  a1 = a1
  a2 = a2
  t1 = t1
  t2 = t2
  t3 = t3
  None = None
  MonthDays = 4
  Accounts = {a1, a2}
  Periods = {1, 2}
  Txns = {t1, t2, t3}
  Txn <- MCTxn
  Stated = {5}
  Figures = {9}
  Histories <- MCHistories
  Sheets <- MCSheets
  Tolerance = 0
  Least = 1
  Invoices = {1, 2, 3, 4, 5}
  Limit = 2
  Pool <- MCPool
  Chart <- MCChart
  YearEnd <- MCYearEnd
  Columns = 5
  LeastMonths = 3
  MaxFilings = 3
  MaxEdits <- MCMaxEdits
SPECIFICATION MCSpec
INVARIANTS
  QuietMeansSettled
  ShowMoreMissesOnlyTies
  EveryGapIsReported
  PrepaidRunsOut
CHECK_DEADLOCK FALSE
