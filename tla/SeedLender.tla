----------------------------- MODULE SeedLender -----------------------------
(***************************************************************************)
(* The operator's script seed-lender.mjs: it opens the lender's account,   *)
(* deposits and sets one mandate; then, with a borrower's key, it verifies *)
(* a quote, borrows, or closes the borrower's loan.                        *)
(*                                                                         *)
(* The script waits for each job with a time limit and sends no command    *)
(* twice.  Where it gives up, fails or is stopped, what it has sent goes   *)
(* on by itself, and the operator runs the script again.  The relayer and  *)
(* the enclave are the service: it commits the commands that are in        *)
(* flight in any order, and settles one on the vault before the next.      *)
(* Amounts are small units; one unit of FXRP may borrow one of USDT0.      *)
(***************************************************************************)
EXTENDS Integers, FiniteSets, FiniteSetsExt

CONSTANTS
  Operators,     \* what an operator has and may do: see Operator
  DepositSize, BorrowSize, WithdrawSize,
  None

Accounts == {"lender", "borrower"}
Options == {"reset", "borrow", "close", "partial", "many"}

Operator ==
  [borrower : BOOLEAN,           \* TEST_WALLET is set
   runs : SUBSET SUBSET Options, \* the options the script is run with
   wallet : [Accounts -> [usdt0 : Nat, fxrp : Nat]],
   mandates : Nat,               \* set by the borrower in the web application
   flagged : Nat,                \* bound on runs with options
   faults : Nat,                 \* bound on interrupted runs and lost commands
   byHand : Nat]                 \* bound on deposits from the web application

\* What the script sees of an account.
Views == [nonce : Nat, usdt0 : Nat, fxrp : Nat, loan : BOOLEAN, active : SUBSET Nat]

ASSUME ConstantsAssumption ==
  /\ Operators \subseteq Operator
  /\ {DepositSize, BorrowSize, WithdrawSize} \subseteq Nat \ {0}
  /\ None \notin Views

VARIABLES
  acct,      \* the enclave's accounts
  mandates,  \* the enclave's mandates, by id
  wallet,    \* public balances
  inflight,  \* commands that were sent and are neither committed nor refused
  unsettled, \* the committed command whose anchor is pending
  pc,        \* where the script is
  run,       \* what the script holds
  answer,    \* of the job the script waits for
  serial,    \* the id of the last command
  operator,  \* who runs the script
  flagged, faults, byHand

ledger == <<acct, mandates>>
service == <<acct, mandates, inflight, unsettled>>
bounds == <<operator, flagged, faults, byHand>>
vars == <<acct, mandates, wallet, inflight, unsettled, pc, run, answer, serial,
          operator, flagged, faults, byHand>>

-----------------------------------------------------------------------------
Blank == [flags |-> {}, who |-> "lender", view |-> None, todo |-> {},
          next |-> "idle", own |-> 0, before |-> None, quote |-> None]

ActiveOf(a) == {m \in DOMAIN mandates : mandates[m].owner = a /\ mandates[m].active}

\* The answer of ACCOUNT_QUERY.
View(a) == [nonce |-> acct[a].nonce, usdt0 |-> acct[a].usdt0, fxrp |-> acct[a].fxrp,
            loan |-> acct[a].loan # None, active |-> ActiveOf(a)]

\* The sum of f over a finite set, counted in units.
Total(f, S) == Cardinality(UNION {{i} \X (1..f[i]) : i \in S})
Funded(tranches) == Total([t \in tranches |-> t.principal], tranches)

\* The funding of a request: mandates in one order, each as far as it goes.
Eligible == {m \in DOMAIN mandates : mandates[m].active /\ mandates[m].left > 0}
Left(m) == mandates[m].left
Take(m, amount) ==
  LET before == Total([n \in Eligible |-> Left(n)], {n \in Eligible : n < m})
  IN  Max({0, Min({Left(m), amount - before})})

\* The quote of a request; the collateral of a partial fill is rounded up.
QuoteOf(amount, collateral) ==
  LET tranches == {t \in [mandate : Eligible, principal : 1..amount] :
                     t.principal = Take(t.mandate, amount)}
      funded == Funded(tranches)
  IN  [amount |-> funded, requested |-> amount, tranches |-> tranches, fxrp |-> collateral,
       collateral |-> (collateral * funded + amount - 1) \div amount]

Init ==
  /\ operator \in Operators
  /\ acct = [a \in Accounts |-> [open |-> a = "borrower" /\ operator.mandates > 0, nonce |-> 0,
                                 usdt0 |-> 0, fxrp |-> 0, loan |-> None]]
  /\ mandates = [m \in 1..operator.mandates |-> [owner |-> "borrower", left |-> 1, active |-> TRUE]]
  /\ wallet = operator.wallet
  /\ inflight = {} /\ unsettled = None
  /\ pc = "idle" /\ run = Blank /\ answer = "none"
  /\ serial = operator.mandates
  /\ flagged = 0 /\ faults = 0 /\ byHand = 0

-----------------------------------------------------------------------------
\* Sending and waiting

Command(kind, arg) == [id |-> serial + 1, kind |-> kind, by |-> run.who,
                       nonce |-> IF run.view = None THEN 0 ELSE run.view.nonce, arg |-> arg]

\* Posts a command, or sends the transaction that carries it, and waits for its job.
Send(kind, arg, r) ==
  /\ inflight' = inflight \cup {Command(kind, arg)}
  /\ serial' = serial + 1
  /\ run' = [r EXCEPT !.own = serial + 1]
  /\ answer' = "none"
  /\ pc' = "wait"
  /\ UNCHANGED <<ledger, unsettled, bounds>>

Throw == pc' = "idle" /\ run' = Blank /\ UNCHANGED <<service, wallet, answer, serial, bounds>>

GoTo(p) == pc' = p /\ UNCHANGED <<service, wallet, run, answer, serial, bounds>>

\* Faulty: the account is not read again after a command.
FaultyAnswered ==
  /\ pc = "wait" /\ answer = "confirmed"
  /\ GoTo(IF run.view = None THEN "view" ELSE run.next)

Answered ==
  /\ pc = "wait" /\ answer = "confirmed"
  /\ GoTo("view")

JobFailed ==
  /\ pc = "wait" /\ answer = "failed"
  /\ Throw

ReadView ==
  /\ pc \in {"account", "view"} /\ acct[run.who].open
  /\ run' = [run EXCEPT !.view = View(run.who)]
  /\ pc' = run.next
  /\ UNCHANGED <<service, wallet, answer, serial, bounds>>

\* accountOrCreate
CreateAccount ==
  /\ pc = "account" /\ ~acct[run.who].open
  /\ Send("OPEN", None, run)
  /\ UNCHANGED wallet

Begin(flags) ==
  /\ pc \in {"idle", "done"}
  /\ flags = {} \/ (flags \in operator.runs /\ flagged < operator.flagged)
  /\ flagged' = IF flags = {} THEN flagged ELSE flagged + 1
  /\ pc' = "account"
  /\ run' = [Blank EXCEPT !.flags = flags, !.next = "lender"]
  /\ UNCHANGED <<service, wallet, answer, serial, operator, faults, byHand>>

\* The time limit of a wait, an answer that reports a failure of what goes on, a
\* rejected request, or an operator who stops the script.
Stop ==
  /\ pc \notin {"idle", "done"} /\ faults < operator.faults
  /\ faults' = faults + 1
  /\ pc' = "idle" /\ run' = Blank
  /\ UNCHANGED <<service, wallet, answer, serial, operator, flagged, byHand>>

-----------------------------------------------------------------------------
\* The lender

StartLender ==
  /\ pc = "lender"
  /\ IF run.view.active # {} /\ "reset" \notin run.flags
     THEN pc' = "lent" /\ UNCHANGED run
     ELSE pc' = "cancel" /\ run' = [run EXCEPT !.todo = run.view.active]
  /\ UNCHANGED <<service, wallet, answer, serial, bounds>>

CancelNext(p, after) ==
  /\ pc = p
  /\ IF run.todo = {} THEN GoTo(after)
     ELSE LET m == Min(run.todo) IN
          /\ Send("CANCEL", m, [run EXCEPT !.todo = @ \ {m}, !.next = p])
          /\ UNCHANGED wallet

CancelLenderMandates == CancelNext("cancel", "fund")

\* Approves and deposits an amount of an account's public balance.
Deposit(asset, amount, next) ==
  /\ wallet' = [wallet EXCEPT ![run.who][asset] = @ - amount]
  /\ Send("DEPOSIT", [asset |-> asset, amount |-> amount], [run EXCEPT !.next = next])

\* Faulty: deposits whatever the private balance is.
FaultyFundAgain ==
  /\ pc = "fund"
  /\ LET amount == Min({DepositSize, wallet.lender.usdt0}) IN
     IF amount = 0 THEN Throw ELSE Deposit("usdt0", amount, "lend")

Fund ==
  /\ pc = "fund"
  /\ LET amount == Min({DepositSize, wallet.lender.usdt0}) IN
     IF run.view.usdt0 > 0 THEN GoTo("lend")
     ELSE IF amount = 0 THEN Throw
     ELSE Deposit("usdt0", amount, "lend")

Lend ==
  /\ pc = "lend"
  /\ IF run.view.usdt0 = 0 THEN Throw
     ELSE Send("SET", run.view.usdt0, [run EXCEPT !.next = "set"]) /\ UNCHANGED wallet

MandateSet ==
  /\ pc = "set"
  /\ IF run.own \in run.view.active THEN GoTo("lent") ELSE Throw

Lent ==
  /\ pc = "lent"
  /\ IF operator.borrower
     THEN pc' = "account" /\ run' = [Blank EXCEPT !.flags = run.flags, !.who = "borrower",
                                                  !.next = "borrower"]
     ELSE pc' = "done" /\ run' = Blank
  /\ UNCHANGED <<service, wallet, answer, serial, bounds>>

-----------------------------------------------------------------------------
\* The borrower

Done == pc' = "done" /\ run' = Blank /\ UNCHANGED <<service, wallet, answer, serial, bounds>>

DepositCollateral ==
  /\ pc = "borrower"
  /\ IF "borrow" \notin run.flags \/ run.view.fxrp > 0 THEN GoTo("loan")
     ELSE IF wallet.borrower.fxrp = 0 THEN Throw
     ELSE Deposit("fxrp", wallet.borrower.fxrp, "loan")

CloseOrQuote ==
  /\ pc = "loan"
  /\ IF "close" \in run.flags /\ run.view.loan
     THEN pc' = "clear" /\ run' = [run EXCEPT !.todo = run.view.active]
     ELSE pc' = "quote" /\ UNCHANGED run
  /\ UNCHANGED <<service, wallet, answer, serial, bounds>>

CancelBorrowerMandates == CancelNext("clear", "repay")

ApplyRepayment ==
  /\ pc = "repay"
  /\ IF run.view.usdt0 = 0 THEN Throw
     ELSE Send("REPAY", run.view.usdt0, [run EXCEPT !.next = "closed"]) /\ UNCHANGED wallet

RequestWithdrawal ==
  /\ pc = "closed"
  /\ LET amount == Min({WithdrawSize, run.view.fxrp}) IN
     IF run.view.loan \/ amount = 0 THEN Throw
     ELSE /\ Send("WITHDRAW", amount,
                  [run EXCEPT !.next = "withdrawn",
                              !.before = [wallet |-> wallet.borrower.fxrp,
                                          fxrp |-> run.view.fxrp, amount |-> amount]])
          /\ UNCHANGED wallet

Withdrawn ==
  /\ pc = "withdrawn"
  /\ IF /\ wallet.borrower.fxrp - run.before.wallet = run.before.amount
        /\ run.before.fxrp - run.view.fxrp = run.before.amount
     THEN Done ELSE Throw

\* QUOTE_REQUEST, a read, and what the script expects of its answer.
VerifyQuote ==
  /\ pc = "quote"
  /\ LET q == QuoteOf(Min({BorrowSize, run.view.fxrp}), run.view.fxrp) IN
     IF \/ run.view.fxrp = 0
        \/ q.amount = 0
        \/ "partial" \in run.flags /\ q.amount = q.requested
        \/ "many" \in run.flags /\ Cardinality(q.tranches) < 2
     THEN Throw
     ELSE IF "borrow" \notin run.flags \/ run.view.loan THEN Done
     ELSE /\ pc' = "accept"
          /\ run' = [run EXCEPT !.quote = q]
          /\ UNCHANGED <<service, wallet, answer, serial, bounds>>

RequestBorrow ==
  /\ pc = "accept"
  /\ Send("BORROW", run.quote, [run EXCEPT !.next = "borrowed",
                                           !.before = [wallet |-> wallet.borrower.usdt0]])
  /\ UNCHANGED wallet

Borrowed ==
  /\ pc = "borrowed"
  /\ IF run.view.loan /\ wallet.borrower.usdt0 - run.before.wallet = run.quote.amount
     THEN Done ELSE Throw

-----------------------------------------------------------------------------
\* The service

\* Faulty: a command's nonce is not compared.
FaultyCurrent(o) == TRUE

\* consumeNonce; a deposit has none, and a withdrawal takes the account's.
Current(o) == o.kind \in {"DEPOSIT", "WITHDRAW"} \/ o.nonce = acct[o.by].nonce

Possible(o) ==
  LET a == acct[o.by] IN
  \/ o.kind \in {"OPEN", "DEPOSIT"}
  \/ o.kind = "SET" /\ a.usdt0 >= o.arg
  \/ o.kind = "CANCEL" /\ o.arg \in ActiveOf(o.by)
  \/ o.kind = "REPAY" /\ a.loan # None /\ a.loan.principal <= Min({o.arg, a.usdt0})
  \/ o.kind = "WITHDRAW" /\ a.fxrp >= o.arg
  \/ /\ o.kind = "BORROW" /\ a.loan = None
     /\ o.arg = QuoteOf(o.arg.requested, o.arg.fxrp)
     /\ a.fxrp >= o.arg.collateral

Principal(tranches, m) == Funded({t \in tranches : t.mandate = m})
Returned(tranches, a) ==
  Funded({t \in tranches : mandates[t.mandate].owner = a /\ ~mandates[t.mandate].active})

NextNonce(o) == acct[o.by].nonce + (IF o.kind = "DEPOSIT" THEN 0 ELSE 1)

\* What a command does to its own account, and to the mandates and lenders.
Applied(o) ==
  LET a == [acct[o.by] EXCEPT !.open = TRUE, !.nonce = NextNonce(o)] IN
  CASE o.kind = "OPEN" -> a
    [] o.kind = "DEPOSIT" -> [a EXCEPT ![o.arg.asset] = @ + o.arg.amount]
    [] o.kind = "SET" -> [a EXCEPT !.usdt0 = @ - o.arg]
    [] o.kind = "CANCEL" -> [a EXCEPT !.usdt0 = @ + mandates[o.arg].left]
    [] o.kind = "WITHDRAW" -> [a EXCEPT !.fxrp = @ - o.arg]
    [] o.kind = "BORROW" -> [a EXCEPT !.fxrp = @ - o.arg.collateral,
                                      !.loan = [id |-> o.id, principal |-> o.arg.amount,
                                                collateral |-> o.arg.collateral,
                                                tranches |-> o.arg.tranches]]
    [] o.kind = "REPAY" -> [a EXCEPT !.usdt0 = @ - a.loan.principal,
                                     !.fxrp = @ + a.loan.collateral, !.loan = None]

MandatesAfter(o) ==
  CASE o.kind = "SET" -> [m \in DOMAIN mandates \cup {o.id} |->
           IF m = o.id THEN [owner |-> o.by, left |-> o.arg, active |-> TRUE] ELSE mandates[m]]
    [] o.kind = "CANCEL" -> [mandates EXCEPT ![o.arg].left = 0, ![o.arg].active = FALSE]
    [] o.kind = "BORROW" -> [m \in DOMAIN mandates |->
           [mandates[m] EXCEPT !.left = @ - Principal(o.arg.tranches, m)]]
    [] o.kind = "REPAY" -> [m \in DOMAIN mandates |->
           IF mandates[m].active
           THEN [mandates[m] EXCEPT !.left = @ + Principal(acct[o.by].loan.tranches, m)]
           ELSE mandates[m]]
    [] OTHER -> mandates

\* A repayment returns to its lender what it cannot return to a mandate.
AccountsAfter(o) ==
  LET own == [acct EXCEPT ![o.by] = Applied(o)] IN
  IF o.kind # "REPAY" THEN own
  ELSE [a \in Accounts |-> [own[a] EXCEPT !.usdt0 = @ + Returned(acct[o.by].loan.tranches, a)]]

Commit(o) ==
  /\ o \in inflight /\ unsettled = None
  /\ Current(o) /\ Possible(o)
  /\ acct' = AccountsAfter(o)
  /\ mandates' = MandatesAfter(o)
  /\ inflight' = inflight \ {o}
  /\ unsettled' = o
  /\ UNCHANGED <<wallet, pc, run, answer, serial, bounds>>

Report(o, a) == answer' = IF pc = "wait" /\ run.own = o.id THEN a ELSE answer

\* The vault executes the settlement, with its payout, and the job is confirmed.
Settle ==
  /\ unsettled # None
  /\ wallet' = CASE unsettled.kind = "WITHDRAW" ->
                      [wallet EXCEPT ![unsettled.by].fxrp = @ + unsettled.arg]
                 [] unsettled.kind = "BORROW" ->
                      [wallet EXCEPT ![unsettled.by].usdt0 = @ + unsettled.arg.amount]
                 [] OTHER -> wallet
  /\ unsettled' = None
  /\ Report(unsettled, "confirmed")
  /\ UNCHANGED <<ledger, inflight, pc, run, serial, bounds>>

Refuse(o) ==
  /\ o \in inflight /\ unsettled = None
  /\ ~(Current(o) /\ Possible(o))
  /\ inflight' = inflight \ {o}
  /\ Report(o, "failed")
  /\ UNCHANGED <<ledger, wallet, unsettled, pc, run, serial, bounds>>

\* A command does not arrive.  A deposit is taken to arrive in the end: the relayer tries
\* to recover it once (recoverDeposit), and after that somebody has to retry its job.
Lose(o) ==
  /\ o \in inflight /\ o.kind # "DEPOSIT" /\ faults < operator.faults
  /\ faults' = faults + 1
  /\ inflight' = inflight \ {o}
  /\ Report(o, "failed")
  /\ UNCHANGED <<ledger, wallet, unsettled, pc, run, serial, operator, flagged, byHand>>

\* The borrower deposits USDT0 in the web application.
DepositByHand ==
  /\ byHand < operator.byHand /\ acct.borrower.open /\ wallet.borrower.usdt0 > 0
  /\ byHand' = byHand + 1
  /\ wallet' = [wallet EXCEPT !.borrower.usdt0 = @ - 1]
  /\ inflight' = inflight \cup {[id |-> serial + 1, kind |-> "DEPOSIT", by |-> "borrower",
                                 nonce |-> 0, arg |-> [asset |-> "usdt0", amount |-> 1]]}
  /\ serial' = serial + 1
  /\ UNCHANGED <<ledger, unsettled, pc, run, answer, operator, flagged, faults>>

-----------------------------------------------------------------------------
Script ==
  \/ Answered \/ JobFailed \/ ReadView \/ CreateAccount
  \/ StartLender \/ CancelLenderMandates \/ Fund \/ Lend \/ MandateSet \/ Lent
  \/ DepositCollateral \/ CloseOrQuote
  \/ CancelBorrowerMandates \/ ApplyRepayment \/ RequestWithdrawal \/ Withdrawn
  \/ VerifyQuote \/ RequestBorrow \/ Borrowed

Next ==
  \/ Script
  \/ \E flags \in operator.runs \cup {{}} : Begin(flags)
  \/ Stop
  \/ \E o \in inflight : Commit(o) \/ Refuse(o) \/ Lose(o)
  \/ Settle
  \/ DepositByHand

Spec == Init /\ [][Next]_vars

\* The operator runs the script again and again, and the service answers.
FairSpec ==
  /\ Spec
  /\ WF_vars(Script) /\ WF_vars(Begin({}))
  /\ WF_vars(\E o \in inflight : Commit(o) \/ Refuse(o)) /\ WF_vars(Settle)

-----------------------------------------------------------------------------
Places == {"idle", "done", "account", "view", "wait", "lender", "cancel", "fund", "lend", "set",
           "lent", "borrower", "loan", "clear", "repay", "closed", "withdrawn", "quote",
           "accept", "borrowed"}

\* The variables have their types: no balance, mandate or wallet falls below zero,
\* and a view is there wherever the script decides by it.
TypeOK ==
  /\ \A a \in Accounts : /\ acct[a].nonce \in Nat /\ acct[a].usdt0 \in Nat /\ acct[a].fxrp \in Nat
                         /\ wallet[a].usdt0 \in Nat /\ wallet[a].fxrp \in Nat
  /\ \A m \in DOMAIN mandates : mandates[m].left \in Nat
  /\ \A o \in inflight : o.id \in 1..serial
  /\ pc \in Places
  /\ run.next \in Places /\ run.own \in 0..serial
  /\ pc \notin {"idle", "done", "account", "wait", "view"} => run.view # None
  /\ answer \in {"none", "confirmed", "failed"}

\* However often the script is interrupted and run again, the lender has one active
\* mandate at most, though each run sets one when it sees none and the mandate of an
\* earlier run may still be in flight.
OneMandate == Cardinality(ActiveOf("lender")) <= 1

\* Until a run is interrupted, the nonce a command is signed with is the
\* account's: what the script sends never fails for a nonce it has got wrong.
NoncesAgree ==
  faults = 0 => \A o \in inflight : run.own = o.id => o.nonce = acct[o.by].nonce

\* What the runs of the script send fits together, in whatever order it is committed:
\* balances stay in range, one mandate is active, and nonces are right (sendDirect).
CommandsInvariant == TypeOK /\ OneMandate /\ NoncesAgree

\* When the script reports the released collateral as withdrawn, the borrower has no
\* loan: none of an earlier run has been opened behind its back.
CloseReported ==
  [][pc = "withdrawn" /\ pc' = "done" => acct.borrower.loan = None]_vars

\* An operator who runs the script until it succeeds has a mandate for good, whatever
\* was interrupted before, if its deposits arrive (Lose).  (With a borrower, a loan may
\* keep the lender's funds.)
LiquidityComesBack == ~operator.borrower => <>[](ActiveOf("lender") # {})

=============================================================================
