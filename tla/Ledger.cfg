\* Lending: deposits, mandates, one partial loan, its repayment on time or late,
\* cancellations and withdrawals.  Liquidation: two loans, a backstop too small for
\* both, risk ticks at a good and a bad price.
SPECIFICATION Spec
CONSTANTS
  ann = ann
  ben = ben
  cy = cy
  dan = dan
  None = None
  Owners <- MCOwners
  Deposits <- MCDeposits
  BackstopDeposits <- MCBackstopDeposits
  ClientQuotes <- MCClientQuotes
  Openings <- MCOpenings
  MandateTerms <- MCMandateTerms
  BorrowRequests <- MCBorrowRequests
  Repayments <- MCRepayments
  Withdrawals <- MCWithdrawals
  MandateWithdrawals <- MCMandateWithdrawals
  RiskTicks <- MCRiskTicks
  Prices <- MCPrices
  TieBreak <- MCTieBreak
  Times <- MCTimes
  Scenarios <- MCScenarios
  Scale = 10
  Day = 1
  Year = 2
CHECK_DEADLOCK FALSE
INVARIANT TypeOK
INVARIANT Solvent
INVARIANT MandatesInStep
INVARIANT CollateralBacksLoan
INVARIANT LoansCanClose
PROPERTY LendersKeepTheirMoney
PROPERTY LoansOpenWithinTerms
