SPECIFICATION MCSpec
CONSTANTS
  d1 = d1
  d2 = d2
  l1 = l1
  l2 = l2
  k1 = k1
  k2 = k2
  x1 = x1
  x2 = x2
  r1 = r1
  r2 = r2
  None = None
  Docs <- MCDocs
  BankDocs <- MCBankDocs
  Lines <- MCLines
  Accounts <- MCAccounts
  Taxes <- MCTaxes
  Requests <- MCRequests
  MaxRequests = 2
  MaxEdits = 1
PROPERTIES
  NoFalseSuccess
ACTION_CONSTRAINT
  MCFewCodes
CHECK_DEADLOCK FALSE
