\* Three operators: a lender, a borrower, and one who tries every option.
SPECIFICATION FairSpec
CONSTANTS
  None = None
  Operators <- MCOperators
  DepositSize = 1
  BorrowSize = 2
  WithdrawSize = 1
INVARIANT CommandsInvariant
PROPERTY CloseReported
PROPERTY LiquidityComesBack
