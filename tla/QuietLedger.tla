----------------------------- MODULE QuietLedger -----------------------------
(***************************************************************************)
(* The private ledger: what the mutations of Engine do to balances,        *)
(* mandates and loans.  A mutation is one step here; how it is stored,     *)
(* anchored and settled on chain is the subject of AnchorProtocol.         *)
(*                                                                         *)
(* Each request the outside world may send is an entry of a constant table,*)
(* named by its operation id; an entry may be delivered again and again.   *)
(* A request the engine refuses changes nothing and is not a step, nor is a*)
(* QUOTE_REQUEST, whose answer the engine does not keep.  Left out are the *)
(* fields no operation reads: Activities, InterestEarned, InterestPaid,    *)
(* LastHealthFactorBPS, LiquidationPriceE6.  Amounts are natural numbers:  *)
(* the refusals for exceeding uint64 are not modelled.                     *)
(***************************************************************************)
EXTENDS Integers, FiniteSets

CONSTANTS
  Owners,
  Deposits,            \* [id -> [owner, asset, amount]], from the vault's events
  BackstopDeposits,    \* [id -> amount]
  Openings,            \* [id -> owner]: OPEN_ACCOUNT
  MandateTerms,        \* [id -> [lender, amount, minAPR, terms, cap]], ids in Nat
  BorrowRequests,      \* [id -> [borrower, amount, collateral, term, maxAPR, expiresAt]]
  ClientQuotes,        \* quotes a client may sign, given to it at some moment or never
  Repayments,          \* [id -> [owner, amount]]
  Withdrawals,         \* [id -> [owner, asset, amount]]
  MandateWithdrawals,  \* [id -> [mandate, amount]]
  RiskTicks,           \* ids of RISK_TICK instructions
  Prices,              \* the XRP/USD observations, times Scale
  TieBreak,            \* [borrow id -> [mandate id -> Nat]]: sha256(mandate, request)
  Times,               \* the clock's readings
  Scenarios,           \* sets of requests that are sent in one run of the system
  Scale, Day, Year,    \* 10^6, 86400 and 31536000 in the code
  None                 \* no loan

VARIABLES
  usdt0,          \* Balances["USDT0"].Available of each account
  usdt0Reserved,  \* Balances["USDT0"].Reserved
  fxrp,           \* Balances["FXRP"].Available
  fxrpReserved,   \* Balances["FXRP"].Reserved
  nonce,          \* Account.Nonce
  loanOf,         \* Account.LoanID
  mandates,       \* State.Mandates
  loans,          \* State.Loans
  processed,      \* State.Processed
  price,          \* State.Price
  activeDebt, protocolReserve, backstopUsdt0, backstopFxrp,
  clock,          \* Engine.clock
  scenario        \* the requests that are sent

accountVars == <<usdt0, usdt0Reserved, fxrp, fxrpReserved, nonce, loanOf>>
poolVars == <<protocolReserve, backstopUsdt0, backstopFxrp>>
vars == <<accountVars, mandates, loans, processed, price, activeDebt, poolVars, clock,
          scenario>>

BPS == 10000
Assets == {"FXRP", "USDT0"}
Terms == {7, 14, 30}
MandateIds == DOMAIN MandateTerms
LoanIds == DOMAIN BorrowRequests

OperationIds == DOMAIN Openings \cup DOMAIN Deposits \cup DOMAIN BackstopDeposits
                \cup LoanIds \cup DOMAIN Repayments \cup DOMAIN Withdrawals
                \cup DOMAIN MandateWithdrawals \cup RiskTicks

\* The ids of each table.
IdTables == <<DOMAIN Openings, DOMAIN Deposits, DOMAIN BackstopDeposits, LoanIds,
              DOMAIN Repayments, DOMAIN Withdrawals, DOMAIN MandateWithdrawals, RiskTicks>>

\* Ids of different requests differ (they are hashes of what they stand for, or
\* random), and so does a loan's, which is a request's too.
ASSUME ConstantsAssumption ==
  /\ {Scale, Day, Year} \subseteq Nat \ {0}
  /\ Times \subseteq Nat
  /\ Prices \subseteq Nat \ {0}
  /\ MandateIds \subseteq Nat
  /\ None \notin LoanIds
  /\ \A s \in Scenarios : s.requests \subseteq OperationIds /\ s.mandates \subseteq MandateIds
  /\ \A i, j \in 1..8 : i # j => IdTables[i] \cap IdTables[j] = {}

\* The tables are finite and their amounts are uint64.  A request is of an account, and
\* the hashes that order two mandates of the same rate differ.
ASSUME TablesAssumption ==
  /\ IsFiniteSet(Owners) /\ IsFiniteSet(OperationIds) /\ IsFiniteSet(MandateIds)
  /\ Openings \in [DOMAIN Openings -> Owners]
  /\ Deposits \in [DOMAIN Deposits -> [owner : Owners, asset : Assets, amount : Nat]]
  /\ BackstopDeposits \in [DOMAIN BackstopDeposits -> Nat]
  /\ MandateTerms \in [MandateIds -> [lender : Owners, amount : Nat, minAPR : Nat,
                                      terms : SUBSET Nat, cap : Nat]]
  /\ BorrowRequests \in [LoanIds -> [borrower : Owners, amount : Nat, collateral : Nat,
                                     term : Nat, maxAPR : Nat, expiresAt : Nat]]
  /\ Repayments \in [DOMAIN Repayments -> [owner : Owners, amount : Nat]]
  /\ Withdrawals \in [DOMAIN Withdrawals -> [owner : Owners, asset : Assets, amount : Nat]]
  /\ MandateWithdrawals \in [DOMAIN MandateWithdrawals -> [mandate : Nat, amount : Nat]]
  /\ \A q \in LoanIds : /\ TieBreak[q] \in [MandateIds -> Nat]
                        /\ \A m, n \in MandateIds : TieBreak[q][m] = TieBreak[q][n] => m = n

Min2(a, b) == IF a <= b THEN a ELSE b
Positive(a) == IF a > 0 THEN a ELSE 0

\* The sum of f over the finite set S: the number of units in it.
Total(f, S) == Cardinality(UNION {{i} \X (1..f[i]) : i \in S})

\* f extended or updated at i.
With(f, i, v) == [j \in DOMAIN f \cup {i} |-> IF j = i THEN v ELSE f[j]]

MandatesOf(o) == {m \in DOMAIN mandates : MandateTerms[m].lender = o}

IsOpen(l) == l.status \notin {"closed", "liquidated"}
OpenLoans == {i \in DOMAIN loans : IsOpen(loans[i])}

\* consumeNonce, for a request signed with the account's current nonce.
ConsumeNonce(o) == nonce' = [nonce EXCEPT ![o] = @ + 1]

Unprocessed(id) == id \notin processed
Process(id) == processed' = processed \cup {id}
-----------------------------------------------------------------------------
(***************************************************************************)
(* Pure calculations                                                       *)
(***************************************************************************)
\* uint64(collateral * price / Scale), and the loan-to-value ratio in bps.
CollateralValue(collateral, p) == (collateral * p) \div Scale
LTV(amount, value) == (amount * BPS) \div value

\* accrue
Late(l, now) == now > l.maturesAt + Day
Accrue(l, now) ==
  IF now <= l.lastAccruedAt THEN l
  ELSE LET apr == l.apr + (IF Late(l, now) THEN 300 ELSE 0)
       IN [l EXCEPT
             !.accrued = @ + (l.principal * apr * (now - l.lastAccruedAt) * Scale)
                             \div (BPS * Year),
             !.lastAccruedAt = now]

\* debt, and what of it is interest.
Interest(l) == l.accrued \div Scale
Debt(l) == l.principal + Interest(l)

\* updateRisk
Status(l, p, now) ==
  LET value == CollateralValue(l.collateral, p)
      ltv == LTV(Debt(l), value)
  IN CASE value = 0 -> "liquidatable"
       [] value > 0 /\ ltv > 0 /\ (Late(l, now) \/ ltv >= 6500) -> "liquidatable"
       [] value > 0 /\ ~Late(l, now) /\ ltv \in 5500..6499 -> "warning"
       [] value > 0 /\ ~Late(l, now) /\ ltv \in 5000..5499 -> "restricted"
       [] OTHER -> "healthy"

\* What a mandate offers one borrower.
Room(m) == Min2(mandates[m].available, MandateTerms[m].cap)

\* The mandates quote finds eligible for a request, and their order.
Eligible(r) ==
  {m \in DOMAIN mandates : /\ mandates[m].active /\ mandates[m].available > 0
                           /\ r.term \in MandateTerms[m].terms
                           /\ MandateTerms[m].minAPR + 50 <= r.maxAPR}

Before(q, m, n) ==
  \/ MandateTerms[m].minAPR < MandateTerms[n].minAPR
  \/ /\ MandateTerms[m].minAPR = MandateTerms[n].minAPR
     /\ TieBreak[q][m] < TieBreak[q][n]

\* What quote takes from each mandate: all it has room for, best rate first,
\* until the requested amount is funded.
Tranches(q) ==
  LET r == BorrowRequests[q]
      room == [m \in Eligible(r) |-> Room(m)]
  IN [m \in MandateIds |->
        IF m \notin Eligible(r) THEN 0
        ELSE Min2(room[m],
                  Positive(r.amount - Total(room, {n \in Eligible(r) : Before(q, n, m)})))]

\* weightedAverage of the lenders' rates.
LenderAPR(tranches, funded) ==
  Total([m \in MandateIds |-> tranches[m] * MandateTerms[m].minAPR], MandateIds) \div funded

\* quote, without its price: the terms that sameQuote compares.
QuoteOf(q) ==
  LET r == BorrowRequests[q]
      tranches == Tranches(q)
      funded == Total(tranches, MandateIds)
  IN [amount |-> funded,
      collateral |-> (r.collateral * funded + r.amount - 1) \div r.amount,
      apr |-> LenderAPR(tranches, funded) + 50,
      tranches |-> tranches]

\* The conditions under which quote answers, at price p.
Quotable(q, p) ==
  LET r == BorrowRequests[q]
      value == CollateralValue(r.collateral, p)
  IN /\ r.amount > 0 /\ r.collateral > 0 /\ r.term \in Terms /\ r.maxAPR >= 650
     /\ clock < r.expiresAt
     /\ value > 0
     /\ LTV(r.amount, value) <= 5000
     /\ Total(Tranches(q), MandateIds) > 0
-----------------------------------------------------------------------------
Init ==
  /\ usdt0 = [o \in Owners |-> 0]
  /\ usdt0Reserved = [o \in Owners |-> 0]
  /\ fxrp = [o \in Owners |-> 0]
  /\ fxrpReserved = [o \in Owners |-> 0]
  /\ nonce = [o \in Owners |-> 0]
  /\ loanOf = [o \in Owners |-> None]
  /\ mandates = <<>>
  /\ loans = <<>>
  /\ processed = {}
  /\ price = 0
  /\ activeDebt = 0
  /\ protocolReserve = 0
  /\ backstopUsdt0 = 0
  /\ backstopFxrp = 0
  /\ clock \in Times
  /\ scenario \in Scenarios

(***************************************************************************)
(* Accounts and the backstop                                               *)
(***************************************************************************)
OpenAccount(id) ==
  /\ Unprocessed(id)
  /\ ConsumeNonce(Openings[id])
  /\ Process(id)
  /\ UNCHANGED <<usdt0, usdt0Reserved, fxrp, fxrpReserved, loanOf, mandates, loans, price,
                 activeDebt, poolVars, clock>>

Deposit(id) ==
  LET d == Deposits[id]
  IN /\ Unprocessed(id)
     /\ d.amount > 0
     /\ usdt0' = IF d.asset = "USDT0" THEN [usdt0 EXCEPT ![d.owner] = @ + d.amount] ELSE usdt0
     /\ fxrp' = IF d.asset = "FXRP" THEN [fxrp EXCEPT ![d.owner] = @ + d.amount] ELSE fxrp
     /\ Process(id)
     /\ UNCHANGED <<usdt0Reserved, fxrpReserved, nonce, loanOf, mandates, loans, price,
                    activeDebt, poolVars, clock>>

SeedBackstop(id) ==
  /\ Unprocessed(id)
  /\ BackstopDeposits[id] > 0
  /\ backstopUsdt0' = backstopUsdt0 + BackstopDeposits[id]
  /\ Process(id)
  /\ UNCHANGED <<accountVars, mandates, loans, price, activeDebt, protocolReserve, backstopFxrp,
                 clock>>

(***************************************************************************)
(* Mandates and withdrawals                                                *)
(***************************************************************************)
\* The shape of a mandate the code accepts: anything else is an "invalid mandate".
ValidMandate(t) ==
  /\ t.amount > 0 /\ t.minAPR \in 600..2000 /\ t.cap > 0
  /\ t.terms # {} /\ t.terms \subseteq Terms

SetMandate(m) ==
  LET t == MandateTerms[m]
  IN /\ m \notin DOMAIN mandates
     /\ ValidMandate(t)
     /\ t.amount <= usdt0[t.lender]
     /\ usdt0' = [usdt0 EXCEPT ![t.lender] = @ - t.amount]
     /\ usdt0Reserved' = [usdt0Reserved EXCEPT ![t.lender] = @ + t.amount]
     /\ mandates' = With(mandates, m, [available |-> t.amount, allocated |-> 0,
                                       active |-> TRUE, createdAt |-> clock])
     /\ ConsumeNonce(t.lender)
     /\ UNCHANGED <<fxrp, fxrpReserved, loanOf, loans, processed, price, activeDebt, poolVars,
                    clock>>

\* Definitions named Faulty* are variants with a bug, none of them part of the
\* specification: the properties are shown to tell them from the code.
\* Also returns what the mandate has lent.
FaultyCancelMandate(m) ==
  LET lender == MandateTerms[m].lender
      all == mandates[m].available + mandates[m].allocated
  IN /\ mandates[m].active
     /\ usdt0Reserved' = [usdt0Reserved EXCEPT ![lender] = @ - all]
     /\ usdt0' = [usdt0 EXCEPT ![lender] = @ + all]
     /\ mandates' = [mandates EXCEPT ![m].available = 0, ![m].active = FALSE]
     /\ ConsumeNonce(lender)
     /\ UNCHANGED <<fxrp, fxrpReserved, loanOf, loans, processed, price, activeDebt, poolVars,
                    clock>>

CancelMandate(m) ==
  LET lender == MandateTerms[m].lender
  IN /\ mandates[m].active
     /\ usdt0Reserved' = [usdt0Reserved EXCEPT ![lender] = @ - mandates[m].available]
     /\ usdt0' = [usdt0 EXCEPT ![lender] = @ + mandates[m].available]
     /\ mandates' = [mandates EXCEPT ![m].available = 0, ![m].active = FALSE]
     /\ ConsumeNonce(lender)
     /\ UNCHANGED <<fxrp, fxrpReserved, loanOf, loans, processed, price, activeDebt, poolVars,
                    clock>>

\* A mandate with nothing available and nothing lent stops matching.
Retire(m) == [m EXCEPT !.active = @ /\ ~(m.available = 0 /\ m.allocated = 0)]

\* mandatesByCreatedAt
Older(m, n) == \/ mandates[m].createdAt < mandates[n].createdAt
               \/ mandates[m].createdAt = mandates[n].createdAt /\ m < n

Withdraw(id) ==
  LET o == Withdrawals[id].owner
      amount == Withdrawals[id].amount
      rest == Positive(amount - usdt0[o])  \* what the private balance does not cover
      unlent == [m \in {n \in MandatesOf(o) : mandates[n].active} |-> mandates[m].available]
      taken == [m \in DOMAIN unlent |->
                  Min2(unlent[m],
                       Positive(rest - Total(unlent, {n \in DOMAIN unlent : Older(n, m)})))]
  IN /\ Unprocessed(id)
     /\ amount > 0
     /\ \/ /\ Withdrawals[id].asset = "FXRP"
           /\ amount <= fxrp[o]
           /\ fxrp' = [fxrp EXCEPT ![o] = @ - amount]
           /\ UNCHANGED <<usdt0, usdt0Reserved, mandates>>
        \/ /\ Withdrawals[id].asset = "USDT0"
           /\ rest = Total(taken, DOMAIN unlent)
           /\ usdt0' = [usdt0 EXCEPT ![o] = Positive(@ - amount)]
           /\ usdt0Reserved' = [usdt0Reserved EXCEPT ![o] = @ - rest]
           /\ mandates' = [m \in DOMAIN mandates |->
                             IF rest = 0 \/ m \notin MandatesOf(o) THEN mandates[m]
                             ELSE IF m \notin DOMAIN unlent THEN Retire(mandates[m])
                             ELSE Retire([mandates[m] EXCEPT !.available = @ - taken[m]])]
           /\ UNCHANGED fxrp
     /\ ConsumeNonce(o)
     /\ Process(id)
     /\ UNCHANGED <<fxrpReserved, loanOf, loans, price, activeDebt, poolVars, clock>>

\* Compares the amount with the account's reserve, not with the mandate.
FaultyWithdrawFromMandate(id) ==
  LET m == MandateWithdrawals[id].mandate
      amount == MandateWithdrawals[id].amount
      lender == MandateTerms[m].lender
  IN /\ Unprocessed(id)
     /\ m \in DOMAIN mandates
     /\ mandates[m].active
     /\ amount > 0
     /\ amount <= usdt0Reserved[lender]
     /\ usdt0Reserved' = [usdt0Reserved EXCEPT ![lender] = @ - amount]
     /\ mandates' = [mandates EXCEPT ![m] = Retire([mandates[m] EXCEPT !.available = @ - amount])]
     /\ ConsumeNonce(lender)
     /\ Process(id)
     /\ UNCHANGED <<usdt0, fxrp, fxrpReserved, loanOf, loans, price, activeDebt, poolVars,
                    clock>>

WithdrawFromMandate(id) ==
  LET m == MandateWithdrawals[id].mandate
      amount == MandateWithdrawals[id].amount
      lender == MandateTerms[m].lender
  IN /\ Unprocessed(id)
     /\ m \in DOMAIN mandates
     /\ mandates[m].active
     /\ amount > 0
     /\ amount <= mandates[m].available
     /\ usdt0Reserved' = [usdt0Reserved EXCEPT ![lender] = @ - amount]
     /\ mandates' = [mandates EXCEPT ![m] = Retire([mandates[m] EXCEPT !.available = @ - amount])]
     /\ ConsumeNonce(lender)
     /\ Process(id)
     /\ UNCHANGED <<usdt0, fxrp, fxrpReserved, loanOf, loans, price, activeDebt, poolVars,
                    clock>>

(***************************************************************************)
(* Loans                                                                   *)
(***************************************************************************)
\* sameQuote: every economic term is compared; the price is not part of them.
FaultySameQuote(a, b) == a.amount = b.amount
SameQuote(a, b) == a = b

\* One active loan per account.
FaultyMayBorrow(b) == TRUE
MayBorrow(b) == loanOf[b] = None

\* AcceptQuote at a fresh observation p.  The quote is the one in the client's payload: the
\* engine keeps none, and compares it with what it would quote now.
AcceptQuote(q, p) ==
  LET r == BorrowRequests[q]
      b == r.borrower
      loan(quote) ==
        [principal |-> quote.amount, collateral |-> quote.collateral, apr |-> quote.apr,
         tranches |-> quote.tranches, maturesAt |-> clock + r.term * Day,
         lastAccruedAt |-> clock, accrued |-> 0, status |-> "healthy"]
  IN /\ Unprocessed(q)
     /\ Quotable(q, p)
     /\ MayBorrow(b)
     /\ \E quote \in ClientQuotes \cup {QuoteOf(q)} :
          /\ SameQuote(QuoteOf(q), quote)
          /\ quote.collateral <= fxrp[b]
          /\ \A m \in MandateIds : quote.tranches[m] > 0 =>
               m \in DOMAIN mandates /\ quote.tranches[m] <= mandates[m].available
          /\ fxrp' = [fxrp EXCEPT ![b] = @ - quote.collateral]
          /\ fxrpReserved' = [fxrpReserved EXCEPT ![b] = @ + quote.collateral]
          /\ mandates' = [m \in DOMAIN mandates |->
                            [mandates[m] EXCEPT !.available = @ - quote.tranches[m],
                                                !.allocated = @ + quote.tranches[m]]]
          /\ loans' = With(loans, q, [loan(quote) EXCEPT !.status = Status(loan(quote), p, clock)])
          /\ activeDebt' = activeDebt + quote.amount
     /\ loanOf' = [loanOf EXCEPT ![b] = q]
     /\ price' = p
     /\ ConsumeNonce(b)
     /\ Process(q)
     /\ UNCHANGED <<usdt0, usdt0Reserved, poolVars, clock>>

\* A lender's part of the interest that loan l has accrued, through mandate m.
LenderInterest(l, m) ==
  (((Interest(l) * l.tranches[m]) \div l.principal) * MandateTerms[m].minAPR) \div l.apr

LendersInterest(l) == Total([m \in MandateIds |-> LenderInterest(l, m)], MandateIds)

\* What the loans of S, as they stand in ls, return to mandate m.
Returned(S, ls, m) == Total([i \in S |-> ls[i].tranches[m]], S)

FaultyRefund(S, ls, o) == 0

\* The part of it that goes to o's balance, because the mandate is cancelled.
Refund(S, ls, o) ==
  Total([m \in MandatesOf(o) |-> IF mandates[m].active THEN 0 ELSE Returned(S, ls, m)],
        MandatesOf(o))

FaultyCredit(S, ls, o) ==
  Total([i \in S |-> Total([m \in MandatesOf(o) |-> LenderInterest(ls[i], m)], MandatesOf(o))], S)

\* What lender o's available balance receives.
Credit(S, ls, o) ==
  Refund(S, ls, o)
  + Total([i \in S |-> Total([m \in MandatesOf(o) |-> LenderInterest(ls[i], m)],
                             MandatesOf(o))], S)

\* The checks of distributeRepayment, none of which may fail.
Distributable(S, ls) ==
  /\ \A m \in DOMAIN mandates : Returned(S, ls, m) <= mandates[m].allocated
  /\ \A o \in Owners : Refund(S, ls, o) <= usdt0Reserved[o]
  /\ \A i \in S : /\ Total(ls[i].tranches, MandateIds) = ls[i].principal
                  /\ LendersInterest(ls[i]) <= Interest(ls[i])

\* distributeRepayment for every loan of S, when o has paid charge[o] for them.
Distribute(S, ls, charge) ==
  /\ Distributable(S, ls)
  /\ usdt0' = [o \in Owners |-> usdt0[o] - charge[o] + Credit(S, ls, o)]
  /\ usdt0Reserved' = [o \in Owners |-> usdt0Reserved[o] - Refund(S, ls, o)]
  /\ mandates' = [m \in DOMAIN mandates |->
                    IF Returned(S, ls, m) = 0 THEN mandates[m]
                    ELSE Retire([mandates[m] EXCEPT
                           !.allocated = @ - Returned(S, ls, m),
                           !.available = IF mandates[m].active THEN @ + Returned(S, ls, m) ELSE @])]
  /\ protocolReserve' = protocolReserve
                        + Total([i \in S |-> Interest(ls[i]) - LendersInterest(ls[i])], S)
  /\ activeDebt' = activeDebt - Total([i \in S |-> ls[i].principal], S)

Repay(id) ==
  LET o == Repayments[id].owner
      i == loanOf[o]
      l == Accrue(loans[i], clock)
      ls == [loans EXCEPT ![i] = l]
  IN /\ Unprocessed(id)
     /\ i # None
     /\ Debt(l) <= Repayments[id].amount
     /\ Debt(l) <= usdt0[o]
     /\ Distribute({i}, ls, [x \in Owners |-> IF x = o THEN Debt(l) ELSE 0])
     /\ fxrpReserved' = [fxrpReserved EXCEPT ![o] = @ - l.collateral]
     /\ fxrp' = [fxrp EXCEPT ![o] = @ + l.collateral]
     /\ loans' = [ls EXCEPT ![i].status = "closed"]
     /\ loanOf' = [loanOf EXCEPT ![o] = None]
     /\ ConsumeNonce(o)
     /\ Process(id)
     /\ UNCHANGED <<price, backstopUsdt0, backstopFxrp, clock>>

FaultySeized(l, p) == (Debt(l) * Scale * BPS) \div (p * 9500)

\* The collateral the backstop takes for a loan, at a discount.
Seized(l, p) == Min2((Debt(l) * Scale * BPS) \div (p * 9500), l.collateral)

\* Range over the map of loans has no order, so L is any of the sets the
\* backstop can pay for, such that it can pay for none of the others after.
Liquidated(L, ls) ==
  LET liquidatable == {i \in OpenLoans : ls[i].status = "liquidatable"}
      spent == Total([i \in L |-> Debt(ls[i])], L)
  IN /\ L \subseteq liquidatable
     /\ spent <= backstopUsdt0
     /\ \A i \in liquidatable \ L : Debt(ls[i]) > backstopUsdt0 - spent

RiskTick(id, p) ==
  LET accrued == [i \in DOMAIN loans |->
                    IF IsOpen(loans[i]) THEN Accrue(loans[i], clock) ELSE loans[i]]
      ls == [i \in DOMAIN loans |->
               IF IsOpen(loans[i])
               THEN [accrued[i] EXCEPT !.status = Status(accrued[i], p, clock)] ELSE loans[i]]
      collateral(L, o) == {i \in L : BorrowRequests[i].borrower = o}
  IN /\ Unprocessed(id)
     /\ \E L \in SUBSET OpenLoans :
          /\ Liquidated(L, ls)
          /\ Distribute(L, ls, [o \in Owners |-> 0])
          /\ backstopUsdt0' = backstopUsdt0 - Total([i \in L |-> Debt(ls[i])], L)
          /\ backstopFxrp' = backstopFxrp + Total([i \in L |-> Seized(ls[i], p)], L)
          /\ fxrpReserved' =
               [o \in Owners |->
                  fxrpReserved[o] - Total([i \in L |-> ls[i].collateral], collateral(L, o))]
          /\ fxrp' =
               [o \in Owners |->
                  fxrp[o] + Total([i \in L |-> ls[i].collateral - Seized(ls[i], p)],
                                  collateral(L, o))]
          /\ loans' = [i \in DOMAIN loans |->
                         IF i \in L THEN [ls[i] EXCEPT !.status = "liquidated"] ELSE ls[i]]
          /\ loanOf' = [o \in Owners |-> IF loanOf[o] \in L THEN None ELSE loanOf[o]]
     /\ price' = p
     /\ Process(id)
     /\ UNCHANGED <<nonce, clock>>

Tick(t) ==
  /\ clock < t
  /\ clock' = t
  /\ UNCHANGED <<accountVars, mandates, loans, processed, price, activeDebt, poolVars>>
-----------------------------------------------------------------------------
Request(id) ==
  \/ id \in DOMAIN Openings /\ OpenAccount(id)
  \/ id \in DOMAIN Deposits /\ Deposit(id)
  \/ id \in DOMAIN BackstopDeposits /\ SeedBackstop(id)
  \/ id \in DOMAIN Withdrawals /\ Withdraw(id)
  \/ id \in DOMAIN MandateWithdrawals /\ WithdrawFromMandate(id)
  \/ id \in LoanIds /\ \E p \in Prices : AcceptQuote(id, p)
  \/ id \in DOMAIN Repayments /\ Repay(id)
  \/ id \in RiskTicks /\ \E p \in Prices : RiskTick(id, p)

Next ==
  /\ \/ \E id \in scenario.requests : Request(id)
     \/ \E m \in scenario.mandates : SetMandate(m)
     \/ \E m \in DOMAIN mandates : CancelMandate(m)
     \/ \E t \in Times : Tick(t)
  /\ UNCHANGED scenario

Spec == Init /\ [][Next]_vars
-----------------------------------------------------------------------------
(***************************************************************************)
(* Properties                                                              *)
(***************************************************************************)
Mandate == [available : Nat, allocated : Nat, active : BOOLEAN, createdAt : Times]

Quote == [amount : Nat, collateral : Nat, apr : Nat, tranches : [MandateIds -> Nat]]

Loan == [principal : Nat, collateral : Nat, apr : Nat, tranches : [MandateIds -> Nat],
         maturesAt : Nat, lastAccruedAt : Times, accrued : Nat,
         status : {"healthy", "restricted", "warning", "liquidatable", "closed", "liquidated"}]

\* Every variable has its type.  Amounts are naturals: none of the subtractions
\* the engine does without a check (Reserved, ActiveDebt) ever wraps around.
TypeOK ==
  /\ usdt0 \in [Owners -> Nat] /\ usdt0Reserved \in [Owners -> Nat]
  /\ fxrp \in [Owners -> Nat] /\ fxrpReserved \in [Owners -> Nat]
  /\ nonce \in [Owners -> Nat]
  /\ loanOf \in [Owners -> LoanIds \cup {None}]
  /\ DOMAIN mandates \subseteq MandateIds /\ \A m \in DOMAIN mandates : mandates[m] \in Mandate
  /\ DOMAIN loans \subseteq LoanIds /\ \A i \in DOMAIN loans : loans[i] \in Loan
  /\ processed \subseteq OperationIds
  /\ price \in Prices \cup {0}
  /\ activeDebt \in Nat /\ protocolReserve \in Nat
  /\ backstopUsdt0 \in Nat /\ backstopFxrp \in Nat
  /\ clock \in Times
  /\ scenario \in Scenarios

\* The tokens the processed requests have brought to the vault, less those they
\* have paid out.
Moved(table, asset) ==
  LET ids == {id \in DOMAIN table \cap processed : table[id].asset = asset}
  IN Total([id \in ids |-> table[id].amount], ids)

HeldUsdt0 ==
  LET backed == DOMAIN BackstopDeposits \cap processed
      drawn == DOMAIN MandateWithdrawals \cap processed
  IN Moved(Deposits, "USDT0") + Total(BackstopDeposits, backed)
     - Moved(Withdrawals, "USDT0")
     - Total([id \in drawn |-> MandateWithdrawals[id].amount], drawn)
     - Total([i \in DOMAIN loans |-> loans[i].principal], DOMAIN loans)

HeldFxrp == Moved(Deposits, "FXRP") - Moved(Withdrawals, "FXRP")

\* Every unit of USDT0 the vault holds or has lent belongs to exactly one
\* balance, mandate or pool, whatever is deposited, lent, repaid with interest,
\* liquidated or withdrawn (distributeRepayment's "conservation", Withdraw).
\* So a signed payout never exceeds what the vault holds.
Usdt0Solvent ==
  /\ HeldUsdt0 + activeDebt = Total(usdt0, Owners) + Total(usdt0Reserved, Owners)
                              + protocolReserve + backstopUsdt0
  /\ activeDebt <= Total(usdt0Reserved, Owners)

\* The same of FXRP: collateral is reserved, returned or seized, never created
\* (AcceptQuote, Repay, liquidateInState).
FxrpSolvent ==
  HeldFxrp = Total(fxrp, Owners) + Total(fxrpReserved, Owners) + backstopFxrp

\* No money of either token is created or lost, in the accounts or in the vault.
Solvent == Usdt0Solvent /\ FxrpSolvent

\* What an account has reserved is what its mandates offer and have lent, and a
\* cancelled mandate offers nothing (SetMandate, CancelMandate, Withdraw,
\* WithdrawFromMandate, distributeRepayment keep four fields in step).
ReservedIsMandates ==
  /\ \A o \in Owners :
       usdt0Reserved[o] = Total([m \in MandatesOf(o) |-> mandates[m].available
                                                         + mandates[m].allocated], MandatesOf(o))
  /\ \A m \in DOMAIN mandates : mandates[m].active \/ mandates[m].available = 0

\* What a mandate has lent is what the open loans have borrowed from it, and
\* the active debt is their principal (AcceptQuote, distributeRepayment).
AllocatedIsLent ==
  /\ \A m \in DOMAIN mandates : mandates[m].allocated = Returned(OpenLoans, loans, m)
  /\ activeDebt = Total([i \in OpenLoans |-> loans[i].principal], OpenLoans)

\* The lenders' reserves, their mandates and the open loans tell the same story,
\* though each operation changes them one by one.
MandatesInStep == ReservedIsMandates /\ AllocatedIsLent

\* An account has at most one open loan, knows it, and has reserved exactly its
\* collateral (AcceptQuote, Repay, liquidateInState).
CollateralBacksLoan ==
  /\ \A i \in OpenLoans : loanOf[BorrowRequests[i].borrower] = i
  /\ \A o \in Owners : /\ loanOf[o] # None => /\ loanOf[o] \in OpenLoans
                                            /\ BorrowRequests[loanOf[o]].borrower = o
                       /\ fxrpReserved[o] = IF loanOf[o] = None THEN 0
                                            ELSE loans[loanOf[o]].collateral

\* Whatever the open loans owe by now, all of them can be closed together: no
\* check of distributeRepayment fails, which would make a loan impossible to
\* repay and, as RiskTick returns its first error, stop every liquidation.
LoansCanClose ==
  LET ls == [i \in DOMAIN loans |-> Accrue(loans[i], clock)] IN Distributable(OpenLoans, ls)

\* Only an account's own withdrawal or repayment makes it poorer: lenders get
\* principal and interest back from a repayment and from a liquidation alike
\* (docs/ARCHITECTURE.md, "Lender principal and interest are conserved").
LendersKeepTheirMoney ==
  [][\A o \in Owners :
       nonce'[o] = nonce[o] =>
         usdt0'[o] + usdt0Reserved'[o] >= usdt0[o] + usdt0Reserved[o]]_vars

\* The terms under which the loan of request q opens in this step.
OpensWithinTerms(q) ==
  LET l == loans'[q]
      r == BorrowRequests[q]
      lending(m) == l.tranches[m] > 0
      fits(m) == mandates[m].active /\ r.term \in MandateTerms[m].terms
                 /\ MandateTerms[m].minAPR + 50 <= r.maxAPR
      asked == [m \in MandateIds |-> l.tranches[m] * MandateTerms[m].minAPR]
  IN /\ l.principal <= r.amount
     /\ l.collateral * r.amount >= r.collateral * l.principal
     /\ l.apr <= r.maxAPR
     /\ clock < r.expiresAt
     /\ Total(asked, MandateIds) <= l.apr * l.principal
     /\ \A m \in MandateIds : lending(m) => /\ m \in DOMAIN mandates /\ fits(m)
                                           /\ l.tranches[m] <= Room(m)
     /\ \A m \in MandateIds, n \in DOMAIN mandates :
          /\ lending(m) /\ fits(n) /\ mandates[n].available > 0
          /\ MandateTerms[n].minAPR < MandateTerms[m].minAPR
          => l.tranches[n] = Room(n)

\* Whatever quote the client signs, however old, a loan opens on terms that hold at that
\* moment: below the borrower's maximum rate, for no less than its share of the collateral,
\* from active mandates within their lenders' terms, at a rate that covers what the lenders
\* ask, and past no cheaper mandate that still has room (AcceptQuote, sameQuote, quote).
LoansOpenWithinTerms ==
  [][\A q \in DOMAIN loans' \ DOMAIN loans : OpensWithinTerms(q)]_vars
=============================================================================
