---------------------------- MODULE MCWebSession ----------------------------
(***************************************************************************)
(* Instances of WebSession for TLC.                                        *)
(***************************************************************************)
EXTENDS WebSession, TLC

CONSTANTS a1, a2, o1, o2, o3, o4, o5

\* A lender's visit: a mandate, its withdrawal and a payout.
Lender == (o1 :> "CONNECT") @@ (o2 :> "SET_MANDATE") @@ (o3 :> "WITHDRAW_FROM_MANDATE")
          @@ (o4 :> "WITHDRAW_REQUEST") @@ (o5 :> "NONE")

\* A borrower's visit: a quote accepted twice around a refresh and the repayment.
Borrower == (o1 :> "CONNECT") @@ (o2 :> "BORROW_ACCEPT") @@ (o3 :> "BORROW_ACCEPT")
            @@ (o4 :> "APPLY_REPAYMENT") @@ (o5 :> "REFRESH")

\* A quote accepted around a second connection.
Returning == (o1 :> "CONNECT") @@ (o2 :> "BORROW_ACCEPT") @@ (o3 :> "CONNECT")
             @@ (o4 :> "NONE") @@ (o5 :> "NONE")

\* The user's refresh and AppShell's beside a mutation.
RefreshingVisit == (o1 :> "CONNECT") @@ (o2 :> "SET_MANDATE") @@ (o3 :> "REFRESH")
                   @@ (o4 :> "RECONCILE") @@ (o5 :> "NONE")

\* A deposit, which is not queued, beside a mutation.
Depositing == (o1 :> "CONNECT") @@ (o2 :> "SET_MANDATE") @@ (o3 :> "DEPOSIT")
              @@ (o4 :> "RECONCILE") @@ (o5 :> "NONE")

MCVisits == {Lender, Borrower, Returning, RefreshingVisit, Depositing}
=============================================================================
