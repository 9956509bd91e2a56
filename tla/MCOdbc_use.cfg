CONSTANTS
  v1 = v1
  Values <- OneValue
  Rows = 2
  Lens <- NullLong
  BufSize = 2
  MaxFields = 3
  DriverMayFail = TRUE
SPECIFICATION Spec
\* get_field() may never return
CHECK_DEADLOCK FALSE
INVARIANTS TransactionsKept SessionBacked ValuesInPlace
