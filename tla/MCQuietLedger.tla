---------------------------- MODULE MCQuietLedger ----------------------------
(***************************************************************************)
(* Instances of QuietLedger for TLC.  Two lenders, ann and ben, and two    *)
(* borrowers, cy and dan, in two scenarios.  Amounts, rates and times are  *)
(* small and chosen so that fills are partial, interest and its split are  *)
(* rounded, one loan runs late and the backstop cannot pay for every       *)
(* liquidation.                                                            *)
(***************************************************************************)
EXTENDS QuietLedger, TLC

CONSTANTS ann, ben, cy, dan

Usdt0(o, n) == [owner |-> o, asset |-> "USDT0", amount |-> n]
Fxrp(o, n) == [owner |-> o, asset |-> "FXRP", amount |-> n]

MCOwners == {ann, ben, cy, dan}
MCPrices == {6, 10}
MCTimes == {0, 2, 9}
MCTieBreak == [q \in LoanIds |-> [m \in MandateIds |-> IF q = "q1" THEN m ELSE 5 - m]]

\* Lending: one borrower, two lenders who also cancel and withdraw.
LendingDeposits == "d1" :> Usdt0(ann, 4) @@ "d2" :> Usdt0(ben, 3) @@ "d3" :> Usdt0(cy, 4)
                   @@ "d4" :> Fxrp(cy, 13)
LendingBorrows ==
  "q1" :> [borrower |-> cy, amount |-> 6, collateral |-> 13, term |-> 7, maxAPR |-> 2050,
           expiresAt |-> 3]
  @@ "q2" :> [borrower |-> cy, amount |-> 1, collateral |-> 5, term |-> 7, maxAPR |-> 2000,
              expiresAt |-> 3]
\* What cy may send for q1: the quotes of both mandates, of ben's and of ann's alone, all of
\* which are out of date at some moment, and two that were never given, with a rate below the
\* lenders' and with ann's dearer money first.
Offer(amount, collateral, apr, tranches) ==
  [amount |-> amount, collateral |-> collateral, apr |-> apr, tranches |-> tranches]
MCClientQuotes ==
  {Offer(5, 11, 1990, <<2, 3, 0, 0>>), Offer(3, 7, 1950, <<0, 3, 0, 0>>),
   Offer(2, 5, 2050, <<2, 0, 0, 0>>), Offer(3, 7, 1, <<0, 3, 0, 0>>),
   Offer(3, 7, 2016, <<2, 1, 0, 0>>)}

MCOpenings == "o1" :> cy
MCRepayments == "r1" :> [owner |-> cy, amount |-> 9]
MCWithdrawals == "w1" :> Usdt0(ann, 3) @@ "w2" :> Fxrp(cy, 5)
MCMandateWithdrawals == "v1" :> [mandate |-> 2, amount |-> 2]

Lending ==
  [requests |-> {"o1", "d1", "d2", "d3", "d4", "q1", "q2", "r1", "w1", "w2", "v1", "t1"},
   mandates |-> {1, 2}]

\* Liquidation: two borrowers, a backstop deposit that may come before or after
\* the price falls and pays for either loan but not for both, and a lender who
\* may have cancelled.
LiquidationDeposits ==
  "d5" :> Usdt0(ann, 8) @@ "d6" :> Fxrp(cy, 11) @@ "d7" :> Fxrp(dan, 8)
LiquidationBorrows ==
  "q3" :> [borrower |-> cy, amount |-> 4, collateral |-> 9, term |-> 7, maxAPR |-> 2050,
           expiresAt |-> 3]
  @@ "q4" :> [borrower |-> dan, amount |-> 3, collateral |-> 7, term |-> 7, maxAPR |-> 2050,
              expiresAt |-> 3]
MCBackstopDeposits == "k1" :> 6

Liquidation == [requests |-> {"d5", "d6", "d7", "k1", "q3", "q4", "t2", "t3"},
                mandates |-> {3, 4}]

MCDeposits == LendingDeposits @@ LiquidationDeposits
MCBorrowRequests == LendingBorrows @@ LiquidationBorrows
MCMandateTerms ==
  <<[lender |-> ann, amount |-> 3, minAPR |-> 2000, terms |-> {7, 14}, cap |-> 2],
    [lender |-> ben, amount |-> 3, minAPR |-> 1900, terms |-> {7}, cap |-> 3],
    [lender |-> ann, amount |-> 3, minAPR |-> 2000, terms |-> {7}, cap |-> 3],
    [lender |-> ann, amount |-> 4, minAPR |-> 1000, terms |-> {7}, cap |-> 3]>>
MCRiskTicks == {"t1", "t2", "t3"}
MCScenarios == {Lending, Liquidation}
=============================================================================
