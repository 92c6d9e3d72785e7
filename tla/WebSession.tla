----------------------------- MODULE WebSession -----------------------------
(***************************************************************************)
(* One browser tab: the persisted store, the wallet, the queue that        *)
(* serializes private mutations, and the operations the pages start.       *)
(*                                                                         *)
(* An operation is used once.  Its steps are the awaits of its handler: a  *)
(* wallet prompt, a job at the relayer, an ACCOUNT_QUERY, the hydration of *)
(* the store from the answer.  What the handler captured when the page     *)
(* rendered (the account, its token) is kept in its record; the nonce is   *)
(* read from the store when the action is prepared.                        *)
(*                                                                         *)
(* The confidential ledger is the environment: an account is a nonce, a    *)
(* version that counts its changes, and three small balances.              *)
(***************************************************************************)
EXTENDS Integers, Sequences, FiniteSets

CONSTANTS
  Accounts,      \* wallet accounts
  Ops,           \* operations the user, or the page, starts
  Visits,        \* what the operations of a visit may be: functions from Ops to Kinds
  None,          \* no account, no view, no answer
  Funds,         \* private USDT0 of an account that is not new, in units
  MaxTroubles    \* bound on failed steps, locks, reloads and wallet changes together

Signed == {"SET_MANDATE", "APPLY_REPAYMENT", "WITHDRAW_FROM_MANDATE", "BORROW_ACCEPT"}
Serialized == Signed \cup {"WITHDRAW_REQUEST"}
Mutations == Serialized \cup {"DEPOSIT"}
Kinds == Mutations \cup {"CONNECT", "REFRESH", "RECONCILE", "NONE"}

ASSUME ConstantsAssumption ==
  /\ None \notin Accounts
  /\ Visits \subseteq [Ops -> Kinds]
  /\ {Funds, MaxTroubles} \subseteq Nat

VARIABLES
  store,       \* the persisted store
  reconciled,  \* AppShell's reconciledOnLoad
  quote,       \* the quote on the borrow page
  wallet,      \* the account selected in the wallet
  queue,       \* mutationQueue
  op,          \* the operations
  job,         \* what became of the job an operation submitted
  ledger,      \* the confidential accounts
  kind,        \* what each operation of this visit does
  troubles

bounds == <<kind, troubles>>
vars == <<store, reconciled, quote, wallet, queue, op, job, ledger, kind, troubles>>

-----------------------------------------------------------------------------
\* The store

Store(mode, addr, nonce, view, flag) ==
  [mode |-> mode, addr |-> addr, nonce |-> nonce, view |-> view, flag |-> flag]

InitialStore == Store("disconnected", None, 0, None, FALSE)

Live == store.mode = "live"

\* connectLive: the nonce and the view are reset, pendingSettlementRefresh is not.
Connected(a) == Store("live", a, 0, None, store.flag)

\* lock: the address stays, and so does pendingSettlementRefresh.
Locked == Store("disconnected", store.addr, 0, None, store.flag)

\* disconnect: the address and the flag go, the nonce stays.
Disconnected == Store("disconnected", None, store.nonce, None, FALSE)

\* hydratePrivateAccount looks at neither the mode nor the address.
Hydrated(s, answer) ==
  [s EXCEPT !.nonce = answer.nonce, !.view = answer, !.flag = FALSE]

\* Faulty: the nonce is left to the next refresh.
FaultyIncrementNonce(s) == s

IncrementNonce(s) == [s EXCEPT !.nonce = @ + 1]

\* Faulty: a failed refresh is swallowed.
FaultyMarkPending(s) == s

MarkSettlementRefreshPending(s) == [s EXCEPT !.flag = TRUE]

-----------------------------------------------------------------------------
\* The confidential accounts

NoAccount == [exists |-> FALSE, nonce |-> 0, version |-> 0,
              usdt0 |-> 0, mandate |-> 0, loan |-> FALSE]

\* OPEN_ACCOUNT; whatever else reaches an account creates it too.
Opened(l) == [l EXCEPT !.exists = TRUE, !.nonce = @ + 1, !.version = @ + 1]

FundedAccount == [Opened(NoAccount) EXCEPT !.usdt0 = Funds]

\* The balances an operation needs, and what it does to them.
Covered(k, l) ==
  CASE k = "SET_MANDATE"           -> l.usdt0 > 0
    [] k = "APPLY_REPAYMENT"       -> l.loan /\ l.usdt0 > 0
    [] k = "WITHDRAW_FROM_MANDATE" -> l.mandate > 0
    [] k = "BORROW_ACCEPT"         -> l.exists /\ ~l.loan
    [] k = "WITHDRAW_REQUEST"      -> l.usdt0 > 0
    [] OTHER                       -> TRUE

Changed(k, l) ==
  LET m == [l EXCEPT !.exists = TRUE, !.version = @ + 1,
                     !.nonce = IF k = "DEPOSIT" THEN @ ELSE @ + 1]
  IN CASE k = "SET_MANDATE"           -> [m EXCEPT !.usdt0 = @ - 1, !.mandate = @ + 1]
       [] k = "APPLY_REPAYMENT"       -> [m EXCEPT !.usdt0 = @ - 1, !.loan = FALSE]
       [] k = "WITHDRAW_FROM_MANDATE" -> [m EXCEPT !.mandate = @ - 1]
       [] k = "BORROW_ACCEPT"         -> [m EXCEPT !.loan = TRUE]
       [] k = "WITHDRAW_REQUEST"      -> [m EXCEPT !.usdt0 = @ - 1]
       [] OTHER                       -> [m EXCEPT !.usdt0 = @ + 1]

\* The command is signed with a nonce.
Signs(o) == op[o].creates \/ kind[o] \in Signed

\* Faulty: processed operations are not remembered.
FaultyVerdict(o) ==
  LET l == ledger[op[o].acct]
  IN CASE Signs(o) /\ op[o].nonce # l.nonce             -> "stale"
       [] op[o].creates                                 -> "applied"
       [] ~Covered(kind[o], l)                          -> "refused"
       [] OTHER                                         -> "applied"

\* The nonce is checked before the operation is looked up, and that before the
\* balances.  A withdrawal's nonce is the account's own, read by the handler.
Verdict(o) ==
  LET l == ledger[op[o].acct]
  IN CASE Signs(o) /\ op[o].nonce # l.nonce             -> "stale"
       [] op[o].creates                                 -> "applied"
       [] kind[o] = "BORROW_ACCEPT"
            /\ \E p \in Ops : /\ kind[p] = "BORROW_ACCEPT"
                              /\ op[p].acct = op[o].acct
                              /\ job[p].status = "applied" -> "processed"
       [] ~Covered(kind[o], l)                          -> "refused"
       [] OTHER                                         -> "applied"

-----------------------------------------------------------------------------
\* Operations

NewOp == [stage |-> "new", acct |-> None, nonce |-> 0, creates |-> FALSE,
          purpose |-> "none", answer |-> None]
NoJob == [status |-> "none", version |-> 0]

Stages == {"new", "queued", "prompt", "job", "query", "answered",
           "done", "failed", "gone"}
Purposes == {"none", "plain", "open", "settled", "prior", "processed"}
Statuses == {"none", "posted", "applied", "stale", "processed", "refused"}
Ended == {"done", "failed", "gone"}

Started(o) == op[o].stage \notin {"new"} \cup Ended

\* Faulty: a task that fails breaks the chain of promises.
FaultyEnds(o, stage) ==
  /\ op' = [op EXCEPT ![o].stage = stage, ![o].answer = None]
  /\ queue' = IF queue # <<>> /\ Head(queue) = o /\ stage = "done" THEN Tail(queue) ELSE queue

\* The head of the queue is the task that runs; a task that ends, in whatever
\* way, lets the next one start.
Ends(o, stage) ==
  /\ op' = [op EXCEPT ![o].stage = stage, ![o].answer = None]
  /\ queue' = IF queue # <<>> /\ Head(queue) = o THEN Tail(queue) ELSE queue

Moves(o, stage) ==
  /\ op' = [op EXCEPT ![o].stage = stage]
  /\ UNCHANGED queue

\* Faulty: every mutation runs at once.
FaultyMayRun(o) == op[o].stage = "queued"

MayRun(o) == op[o].stage = "queued" /\ Head(queue) = o

\* refreshAccount, from any of its callers.
Queries(o, purpose) ==
  /\ op' = [op EXCEPT ![o].stage = "query", ![o].purpose = purpose]
  /\ UNCHANGED queue

-----------------------------------------------------------------------------
\* The pages: what each form checks against the view before it calls its action

Shown == Live /\ store.view # None

RefreshReady == Live
MandateFormReady == Shown /\ store.view.usdt0 > 0
MandateWithdrawFormReady == Shown /\ store.view.mandate > 0
RepayFormReady == Shown /\ store.view.loan /\ store.view.usdt0 > 0
WithdrawFormReady == Shown /\ store.view.usdt0 > 0
DepositFormReady == Shown

\* accept: the page is at step 2 while a quote is shown that is not being accepted
\* and has not been accepted.  BorrowPage also drops the workflow, with its quote, when
\* it shows a position or the tab is disconnected; the quote is kept here, so that more
\* acceptances are possible than in the code.
AcceptReady ==
  /\ Shown
  /\ quote = "offered"
  /\ \A p \in Ops : kind[p] = "BORROW_ACCEPT" => op[p].stage \in {"new", "failed", "gone"}

Ready(k) ==
  CASE k = "SET_MANDATE"           -> MandateFormReady
    [] k = "WITHDRAW_FROM_MANDATE" -> MandateWithdrawFormReady
    [] k = "APPLY_REPAYMENT"       -> RepayFormReady
    [] k = "WITHDRAW_REQUEST"      -> WithdrawFormReady
    [] k = "DEPOSIT"               -> DepositFormReady
    [] k = "BORROW_ACCEPT"         -> AcceptReady
    [] k = "REFRESH"               -> RefreshReady
    [] OTHER                       -> FALSE

-----------------------------------------------------------------------------
Init ==
  /\ store = InitialStore
  /\ reconciled = FALSE
  /\ quote = "none"
  /\ wallet \in Accounts
  /\ queue = <<>>
  /\ op = [o \in Ops |-> NewOp]
  /\ job = [o \in Ops |-> NoJob]
  /\ ledger \in [Accounts -> {NoAccount, FundedAccount}]
  /\ kind \in Visits
  /\ troubles = 0

\* connect: the challenge is signed and verified, the session starts, and
\* openOrRefresh asks for the account with nonce 0.
Connect(o) ==
  /\ kind[o] = "CONNECT" /\ op[o].stage = "new"
  /\ ~Live
  /\ wallet \in Accounts
  /\ store' = Connected(wallet)
  /\ op' = [op EXCEPT ![o].stage = "query", ![o].acct = wallet, ![o].purpose = "open"]
  /\ UNCHANGED <<reconciled, quote, wallet, queue, job, ledger, bounds>>

\* A serialized action is appended to the queue, in whatever state that is.
InvokeSerialized(o) ==
  /\ kind[o] \in Serialized /\ op[o].stage = "new"
  /\ Ready(kind[o])
  /\ op' = [op EXCEPT ![o].stage = "queued", ![o].acct = store.addr]
  /\ queue' = Append(queue, o)
  /\ UNCHANGED <<store, reconciled, quote, wallet, job, ledger, bounds>>

\* deposit is not serialized: its approval and its transfer are prompted at once.
InvokeDeposit(o) ==
  /\ kind[o] = "DEPOSIT" /\ op[o].stage = "new"
  /\ Ready(kind[o])
  /\ op' = [op EXCEPT ![o].stage = "prompt", ![o].acct = store.addr]
  /\ UNCHANGED <<store, reconciled, quote, wallet, queue, job, ledger, bounds>>

InvokeRefresh(o) ==
  /\ kind[o] = "REFRESH" /\ op[o].stage = "new"
  /\ Ready(kind[o])
  /\ op' = [op EXCEPT ![o].stage = "query", ![o].acct = store.addr, ![o].purpose = "plain"]
  /\ UNCHANGED <<store, reconciled, quote, wallet, queue, job, ledger, bounds>>

\* AppShell's effect: once in a page's life, when the flag is seen raised.
ReconcileOnLoad(o) ==
  /\ kind[o] = "RECONCILE" /\ op[o].stage = "new"
  /\ ~reconciled
  /\ Live /\ store.flag /\ wallet = store.addr
  /\ reconciled' = TRUE
  /\ op' = [op EXCEPT ![o].stage = "query", ![o].acct = store.addr, ![o].purpose = "plain"]
  /\ UNCHANGED <<store, quote, wallet, queue, job, ledger, bounds>>

\* requestQuote: the account is only read.
RequestQuote ==
  /\ quote = "none"
  /\ Shown /\ ~store.view.loan
  /\ wallet = store.addr
  /\ quote' = "offered"
  /\ UNCHANGED <<store, reconciled, wallet, queue, op, job, ledger, bounds>>

\* A quote is valid for five minutes.
QuoteExpires ==
  /\ quote = "offered"
  /\ ~\E p \in Ops : kind[p] = "BORROW_ACCEPT" /\ Started(p)
  /\ quote' = "gone"
  /\ UNCHANGED <<store, reconciled, wallet, queue, op, job, ledger, bounds>>

\* findConfirmedBorrowForQuote: a job that was applied is taken for confirmed, though
\* the relayer confirms it only after its settlement.
ConfirmedBorrow(a) ==
  \E p \in Ops : /\ kind[p] = "BORROW_ACCEPT" /\ op[p].acct = a
                 /\ job[p].status = "applied"

Prompts(o, n) ==
  /\ op' = [op EXCEPT ![o].stage = "prompt", ![o].nonce = n, ![o].purpose = "none",
                      ![o].answer = None]
  /\ UNCHANGED queue

\* The queue reaches a task: it reads the nonce and prompts, except for a borrow
\* whose quote has a confirmed job, which first looks for the loan.  The list of jobs
\* is asked for and the nonce read in one step, with the await between them left out.
StartNext(o) ==
  /\ MayRun(o)
  /\ IF kind[o] = "BORROW_ACCEPT" /\ ConfirmedBorrow(op[o].acct)
     THEN Queries(o, "prior")
     ELSE Prompts(o, store.nonce)
  /\ UNCHANGED <<store, reconciled, quote, wallet, job, ledger, bounds>>

\* The wallet signs, and the ciphertext or the transaction goes out.
Post(o) ==
  /\ op[o].stage = "prompt"
  /\ wallet = op[o].acct
  /\ job' = [job EXCEPT ![o].status = "posted"]
  /\ Moves(o, "job")
  /\ UNCHANGED <<store, reconciled, quote, wallet, ledger, bounds>>

\* The job reaches the ledger, whether or not the tab still waits for it.
Apply(o) ==
  /\ job[o].status = "posted"
  /\ LET a == op[o].acct
         l == ledger[a]
         new == IF op[o].creates THEN Opened(l) ELSE Changed(kind[o], l)
     IN /\ ledger' = IF Verdict(o) = "applied" THEN [ledger EXCEPT ![a] = new] ELSE ledger
        /\ job' = [job EXCEPT ![o] = [status |-> Verdict(o), version |-> ledger'[a].version]]
  /\ UNCHANGED <<store, reconciled, quote, wallet, queue, op, bounds>>

\* waitForJob returns: every mutation but a deposit advances the store's nonce.
Settled(o) ==
  /\ op[o].stage = "job" /\ job[o].status = "applied"
  /\ store' = IF kind[o] = "DEPOSIT" THEN store ELSE IncrementNonce(store)
  /\ Queries(o, IF op[o].creates THEN "plain" ELSE "settled")
  /\ UNCHANGED <<reconciled, quote, wallet, job, ledger, bounds>>

\* waitForJob throws.  Only a borrow that is already processed looks further.
JobFailed(o) ==
  /\ op[o].stage = "job" /\ job[o].status \in {"stale", "processed", "refused"}
  /\ IF job[o].status = "processed" THEN Queries(o, "processed") ELSE Ends(o, "failed")
  /\ UNCHANGED <<store, reconciled, quote, wallet, job, ledger, bounds>>

\* What an ACCOUNT_QUERY answers.
AccountView(a) ==
  [owner |-> a, exists |-> ledger[a].exists, nonce |-> ledger[a].nonce,
   version |-> ledger[a].version, usdt0 |-> ledger[a].usdt0,
   mandate |-> ledger[a].mandate, loan |-> ledger[a].loan]

\* The ACCOUNT_QUERY is signed and answered.  An account that does not exist is
\* created by openOrRefresh, with nonce 0.
Answer(o) ==
  /\ op[o].stage = "query" /\ wallet = op[o].acct
  /\ ledger[op[o].acct].exists
  /\ op' = [op EXCEPT ![o].stage = "answered", ![o].answer = AccountView(op[o].acct)]
  /\ UNCHANGED <<store, reconciled, quote, wallet, queue, job, ledger, bounds>>

OpenAccount(o) ==
  /\ op[o].stage = "query" /\ op[o].purpose = "open" /\ wallet = op[o].acct
  /\ ~ledger[op[o].acct].exists
  /\ op' = [op EXCEPT ![o].stage = "prompt", ![o].creates = TRUE]
  /\ UNCHANGED <<store, reconciled, quote, wallet, queue, job, ledger, bounds>>

\* Faulty: a processed borrow is taken for an open loan.
FaultyLoanShown(answer) == TRUE

\* accountContainsQuoteLoan: one loan at a time, with the terms of the quote.
LoanShown(answer) == answer.loan

\* The answer is decrypted and shown; then the caller goes on.
Hydrate(o) ==
  /\ op[o].stage = "answered"
  /\ store' = Hydrated(store, op[o].answer)
  /\ CASE op[o].purpose = "prior" /\ ~LoanShown(op[o].answer)     -> Prompts(o, store'.nonce)
       [] op[o].purpose = "processed" /\ ~LoanShown(op[o].answer) -> Ends(o, "failed")
       [] OTHER                                                   -> Ends(o, "done")
  /\ UNCHANGED <<reconciled, quote, wallet, job, ledger, bounds>>

\* A step of an operation throws.  A refresh that follows a settlement raises the
\* flag and the operation is reported done; any other failure is reported.
Throws(o) ==
  IF op[o].stage \in {"query", "answered"} /\ op[o].purpose = "settled"
  THEN store' = MarkSettlementRefreshPending(store) /\ Ends(o, "done")
  ELSE UNCHANGED store /\ Ends(o, "failed")

Trouble == troubles < MaxTroubles /\ troubles' = troubles + 1

\* A rejection, a timeout, an expired token, a failed request.
Fails(o) ==
  /\ Trouble
  /\ op[o].stage \in {"prompt", "job", "query", "answered"}
  /\ Throws(o)
  /\ UNCHANGED <<reconciled, quote, wallet, job, ledger, kind>>

\* The wallet has another account, and what it signs is not accepted for this one;
\* or the account that is read does not exist.
Rejected(o) ==
  /\ \/ op[o].stage \in {"prompt", "query"} /\ wallet # op[o].acct
     \/ op[o].stage = "query" /\ op[o].purpose # "open" /\ ~ledger[op[o].acct].exists
  /\ Throws(o)
  /\ UNCHANGED <<reconciled, quote, wallet, job, ledger, bounds>>

Lock ==
  /\ Live /\ Trouble
  /\ store' = Locked
  /\ UNCHANGED <<reconciled, quote, wallet, queue, op, job, ledger, kind>>

Disconnect ==
  /\ Live /\ Trouble
  /\ wallet' = None
  /\ store' = Disconnected
  /\ UNCHANGED <<reconciled, quote, queue, op, job, ledger, kind>>

\* AppShell's effect on the wallet's account.
AccountChanged ==
  /\ store.addr # None /\ wallet # store.addr
  /\ store' = Disconnected
  /\ UNCHANGED <<reconciled, quote, wallet, queue, op, job, ledger, bounds>>

SwitchWallet(a) ==
  /\ wallet # a /\ Trouble
  /\ wallet' = a
  /\ UNCHANGED <<store, reconciled, quote, queue, op, job, ledger, kind>>

\* The store is restored from sessionStorage; promises, queue and pages are gone.
Reload ==
  /\ Trouble
  /\ op' = [o \in Ops |-> IF Started(o)
                          THEN [op[o] EXCEPT !.stage = "gone", !.answer = None] ELSE op[o]]
  /\ queue' = <<>>
  /\ reconciled' = FALSE
  /\ quote' = IF quote = "offered" THEN "gone" ELSE quote
  /\ UNCHANGED <<store, wallet, job, ledger, kind>>

Progress(o) ==
  \/ StartNext(o) \/ Post(o) \/ Apply(o) \/ Settled(o) \/ JobFailed(o)
  \/ Answer(o) \/ OpenAccount(o) \/ Hydrate(o) \/ Rejected(o)

Next ==
  \/ \E o \in Ops :
       \/ Connect(o) \/ InvokeSerialized(o) \/ InvokeDeposit(o) \/ InvokeRefresh(o)
       \/ ReconcileOnLoad(o) \/ Progress(o) \/ Fails(o)
  \/ RequestQuote \/ QuoteExpires
  \/ Lock \/ Disconnect \/ AccountChanged
  \/ \E a \in Accounts : SwitchWallet(a)
  \/ Reload

Spec == Init /\ [][Next]_vars

\* The user answers the prompts, the relayer and the ledger answer the requests.
FairSpec == Spec /\ \A o \in Ops : WF_vars(Progress(o))

-----------------------------------------------------------------------------
AnswerType == [owner : Accounts, exists : {TRUE}, nonce : Nat, version : Nat,
               usdt0 : Nat, mandate : Nat, loan : BOOLEAN]

\* The variables have their types; a balance of the ledger is never negative.
TypeOK ==
  /\ store.mode \in {"disconnected", "live"}
  /\ store.addr \in Accounts \cup {None}
  /\ store.nonce \in Nat
  /\ store.view \in AnswerType \cup {None}
  /\ store.flag \in BOOLEAN
  /\ Live => store.addr # None
  /\ wallet \in Accounts \cup {None}
  /\ quote \in {"none", "offered", "gone"}
  /\ \A i \in DOMAIN queue : op[queue[i]].stage \notin {"new"} \cup Ended
  /\ \A o \in Ops :
       /\ op[o].stage \in Stages
       /\ op[o].purpose \in Purposes
       /\ op[o].answer \in AnswerType \cup {None}
       /\ job[o].status \in Statuses
  /\ \A a \in Accounts : ledger[a].usdt0 \in Nat /\ ledger[a].mandate \in Nat

Mutating(o) == kind[o] \in Mutations
Refreshing(o) == op[o].stage \in {"query", "answered"}

\* Every operation of the visit was of the account that is connected.
OneAccount == \A o \in Ops : op[o].acct \in {None, store.addr}

\* One connection, and then nothing beside the queue.
Sequential == \E c \in Ops : {o \in Ops : kind[o] \notin Serialized \cup {"NONE"}} = {c}

\* A mutation that the tab has reported as done is in the view it shows, or the
\* recovery flag is raised: the refresh that follows a settlement, its failure and
\* the refreshes of later mutations keep to that (refreshSettlementView,
\* hydratePrivateAccount).  This is for a Sequential visit: one connection and serialized
\* mutations, with no refresh of the page, reconciliation, deposit or second connection.
\* Where refreshes run side by side an older answer may be shown last.
SettlementShown ==
  Sequential => \A o \in Ops :
    Mutating(o) /\ op[o].stage = "done" /\ job[o].status = "applied" /\ Shown
      /\ store.view.owner = op[o].acct
    => store.flag \/ store.view.version >= job[o].version

\* When nothing runs and nothing was given up, the nonce the next action will be
\* signed with is the ledger's: the increments of the tab follow those of the
\* enclave, operation by operation (incrementAccountNonce).  This too is for a
\* Sequential visit, whose operations are all of the account that is connected
\* (OneAccount): the answers of other refreshes, deposits and connections may leave an
\* older nonce, for which see NonceAheadIsFlagged.
NonceInSync ==
  Sequential /\ Shown /\ OneAccount /\ (\A o \in Ops : op[o].stage \in {"new", "done"})
  => store.nonce = ledger[store.addr].nonce

\* A borrow is reported as settled, by its own job or by the recovery of an earlier
\* one, only if its quote was paid out; and a quote is paid out once, however many
\* times it is accepted (acceptBorrow, refreshProcessedBorrow).
AcceptedIsPaidOnce ==
  \A o \in Ops : kind[o] = "BORROW_ACCEPT" /\ op[o].stage = "done"
    => Cardinality({p \in Ops : /\ kind[p] = "BORROW_ACCEPT" /\ op[p].acct = op[o].acct
                                /\ job[p].status = "applied"}) = 1

\* A borrow is reported as settled when its own job has settled it, or on the sight
\* of the open loan: never because its quote was used (refreshProcessedBorrow,
\* accountContainsQuoteLoan).  The loan of an earlier acceptance is mostly seen on the way
\* to the prompt (StartNext); a job answered "processed" while the loan is still open is
\* hardly reached here, and looks at the same view.
ReportedBorrowIsOpen ==
  [][\A o \in Ops :
       kind[o] = "BORROW_ACCEPT" /\ op[o].stage # "done" /\ op'[o].stage = "done"
       => job[o].status = "applied" \/ store'.view.loan]_vars

\* The tab runs one serialized mutation at a time: the nonce of the next one is
\* read only when the one before it has ended (serializeMutation).
OneMutationAtATime ==
  Cardinality({o \in Ops : kind[o] \in Serialized /\ Started(o) /\ op[o].stage # "queued"}) <= 1

\* The types, the enclave's balances, and the queue that keeps mutations apart
\* (serializeMutation).
QueueInvariant == TypeOK /\ OneMutationAtATime

\* The nonce runs ahead of the ledger's only while the operation that advanced it
\* still refreshes, or with the flag raised: a refresh that was answered after a
\* settlement may be shown before it, and then the increment counts it twice.
\* (The creation of an account has no flag to raise, nor has a tab that is reloaded
\* before its operation has refreshed.)
NonceAheadIsFlagged ==
  Shown /\ OneAccount /\ ~store.flag
    /\ (\A o \in Ops : /\ ~(Mutating(o) /\ (Refreshing(o) \/ op[o].stage = "gone"))
                       /\ ~op[o].creates \/ op[o].stage = "done")
  => store.nonce <= ledger[store.addr].nonce

\* Every mutation that is queued ends, whatever happens to those queued before it.
OpsEnd == \A o \in Ops : op[o].stage = "queued" ~> op[o].stage \in Ended

=============================================================================
