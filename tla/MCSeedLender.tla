---------------------------- MODULE MCSeedLender ----------------------------
(***************************************************************************)
(* Instances of SeedLender for TLC.                                        *)
(***************************************************************************)
EXTENDS SeedLender

Balances(usdt0, fxrp) ==
  [a \in Accounts |-> [usdt0 |-> IF a = "lender" THEN usdt0 ELSE 0,
                       fxrp |-> IF a = "lender" THEN 0 ELSE fxrp]]

\* A lender alone, interrupted three times.
Lending == [borrower |-> FALSE, runs |-> {{"reset"}}, wallet |-> Balances(2, 0),
            mandates |-> 0, flagged |-> 2, faults |-> 3, byHand |-> 0]

\* A borrower who opens and closes a loan, interrupted twice.
Borrowing == [borrower |-> TRUE, runs |-> {{"borrow"}, {"close"}}, wallet |-> Balances(1, 2),
              mandates |-> 0, flagged |-> 3, faults |-> 2, byHand |-> 1]

\* Every option, for accounts with several mandates and a script that is not interrupted.
Quoting == [borrower |-> TRUE,
            runs |-> {{"borrow", "many"}, {"borrow", "partial"}, {"close"}, {"reset"}},
            wallet |-> Balances(1, 2), mandates |-> 2, flagged |-> 3, faults |-> 0, byHand |-> 2]

MCOperators == {Lending, Borrowing, Quoting}
=============================================================================
