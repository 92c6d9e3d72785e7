--------------------------- MODULE WebSessionProofs ---------------------------
(***************************************************************************)
(* Proofs about WebSession, for any accounts, operations and visits.       *)
(*                                                                         *)
(* The inductive invariant IInv says of each operation what its stage      *)
(* tells (Fitting), that the queue holds the serialized operations in      *)
(* order and runs its head (QueueOrder), that a quote is paid once and     *)
(* reported after (PaidOnce, Settling), that nothing seen of an account is *)
(* newer than the account (NotNewer), and that the tab's nonce is ahead    *)
(* only while somebody still refreshes (NonceNotAhead).                    *)
(*                                                                         *)
(* Two of the properties are about visits with one connection and nothing  *)
(* beside the queue: Visit(c) names the connection, ConnectsFirst says     *)
(* that it goes before everything else, so that one operation at a time is *)
(* beyond the queue (BeyondAlone).  With it, what is answered after a job  *)
(* was applied, and what is shown after its operation was reported, is not *)
(* older than the job (NewerThanDone), and the two nonces differ by the    *)
(* one job the tab does not know yet (InStep).                             *)
(*                                                                         *)
(* Each step has a lemma that says what it does to the components of its   *)
(* operation (ConnectDoes, ..., ReloadDoes); each part of IInv has a lemma *)
(* for a step of one operation, and one for Next.                          *)
(***************************************************************************)
EXTENDS WebSession, FiniteSetTheorems, TLAPS

-----------------------------------------------------------------------------
(***************************************************************************)
(* The parts of the inductive invariant                                    *)
(***************************************************************************)
StoreType == [mode : {"disconnected", "live"}, addr : Accounts \cup {None}, nonce : Nat,
              view : AnswerType \cup {None}, flag : BOOLEAN]
OpType == [stage : Stages, acct : Accounts \cup {None}, nonce : Nat, creates : BOOLEAN,
           purpose : Purposes, answer : AnswerType \cup {None}]
JobType == [status : Statuses, version : Nat]
AccountType == [exists : BOOLEAN, nonce : Nat, version : Nat, usdt0 : Nat, mandate : Nat,
                loan : BOOLEAN]

Typed ==
  /\ store \in StoreType /\ (Live => store.addr # None)
  /\ wallet \in Accounts \cup {None} /\ quote \in {"none", "offered", "gone"}
  /\ op \in [Ops -> OpType] /\ job \in [Ops -> JobType]
  /\ ledger \in [Accounts -> AccountType] /\ kind \in [Ops -> Kinds]

\* What an operation asks the account for, and what became of its job by then.
Asks(o) ==
  \/ kind[o] \notin Mutations /\ op[o].purpose = "open" /\ job[o].status = "none"
  \/ kind[o] \notin Mutations /\ op[o].purpose = "plain" /\ job[o].status # "posted"
  \/ kind[o] \in Mutations /\ op[o].purpose = "settled" /\ job[o].status = "applied"
  \/ kind[o] = "BORROW_ACCEPT" /\ op[o].purpose = "prior" /\ job[o].status = "none"
  \/ kind[o] = "BORROW_ACCEPT" /\ op[o].purpose = "processed" /\ job[o].status = "processed"

\* What the stage of an operation says of the rest of it.
Fits(o) ==
  /\ kind[o] = "NONE" => op[o].stage = "new"
  /\ op[o].stage = "new" => op[o].acct = None
  /\ op[o].stage # "new" => op[o].acct \in Accounts
  /\ op[o].creates \/ op[o].purpose = "open" => kind[o] = "CONNECT"
  /\ op[o].stage = "queued" => kind[o] \in Serialized
  /\ op[o].stage \in {"prompt", "job"} \/ job[o].status # "none"
     => kind[o] \in Mutations \/ op[o].creates
  /\ op[o].stage \in {"new", "queued", "prompt"} => job[o].status = "none"
  /\ job[o].status = "posted" => op[o].stage \in {"job", "failed", "gone"}
  /\ job[o].status = "processed" => kind[o] = "BORROW_ACCEPT"
  /\ op[o].stage = "job" => job[o].status # "none"
  /\ op[o].stage \in {"query", "answered"} => Asks(o)
  /\ op[o].stage = "answered" => op[o].answer \in AnswerType /\ op[o].answer.owner = op[o].acct

Fitting == \A o \in Ops : Fits(o)

QueueOrder ==
  /\ queue \in Seq(Ops)
  /\ \A i, j \in 1..Len(queue) : queue[i] = queue[j] => i = j
  /\ \A i \in 1..Len(queue) : Started(queue[i]) /\ kind[queue[i]] \in Serialized
  /\ \A i \in 2..Len(queue) : op[queue[i]].stage = "queued"
  /\ \A o \in Ops : kind[o] \in Serialized /\ Started(o) => \E i \in 1..Len(queue) : queue[i] = o

PaidOnce ==
  \A p, q \in Ops : /\ kind[p] = "BORROW_ACCEPT" /\ kind[q] = "BORROW_ACCEPT"
                    /\ op[p].acct = op[q].acct
                    /\ job[p].status = "applied" /\ job[q].status = "applied"
                    => p = q

Settling == \A o \in Ops :
  kind[o] = "BORROW_ACCEPT" /\ (\/ job[o].status \in {"applied", "processed"}
                                \/ op[o].stage \in {"query", "answered", "done"})
  => ConfirmedBorrow(op[o].acct)

\* What was seen of an account is not newer than the account.
NotNewer == \A o \in Ops :
  /\ job[o].status = "applied" => job[o].version <= ledger[op[o].acct].version
  /\ op[o].stage = "answered" => /\ op[o].answer.version <= ledger[op[o].acct].version
                                 /\ op[o].answer.nonce <= ledger[op[o].acct].nonce

\* No settlement of the operation waits for its refresh, or was given up.
Quiet(o) ==
  /\ ~(Mutating(o) /\ Refreshing(o) /\ op[o].purpose = "settled")
  /\ ~(Mutating(o) /\ op[o].stage = "gone")
  /\ ~op[o].creates \/ op[o].stage = "done"

NonceNotAhead ==
  Live /\ OneAccount /\ ~store.flag /\ (\A o \in Ops : Quiet(o))
  => store.nonce <= ledger[store.addr].nonce

\* A visit with one connection, and nothing beside the queue.
Visit(c) ==
  /\ kind[c] \notin Serialized \cup {"NONE"}
  /\ \A o \in Ops \ {c} : kind[o] \in Serialized \cup {"NONE"}

ConnectsFirst == \A c \in Ops : Visit(c) =>
  /\ op[c].stage = "new" => ~Live
  /\ op[c].stage # "new" => kind[c] = "CONNECT"
  /\ op[c].stage # "done" => store.view = None /\ \A o \in Ops \ {c} : op[o].stage = "new"
  /\ Live => OneAccount

NewerThanDone == \A c \in Ops : Visit(c) => \A o \in Ops :
  Mutating(o) /\ job[o].status = "applied" =>
  /\ \A p \in Ops : /\ op[p].stage = "answered" /\ op[p].acct = op[o].acct
                    /\ p = o \/ op[o].stage = "done"
                    => op[p].answer.version >= job[o].version
  /\ op[o].stage = "done" /\ store.view # None /\ store.view.owner = op[o].acct
     => store.flag \/ store.view.version >= job[o].version

\* The job of an operation is applied and the tab does not know yet.
Due(o) == op[o].stage = "job" /\ job[o].status = "applied"

NothingGivenUp == \A o \in Ops : op[o].stage \notin {"failed", "gone"}

InStep == \A c \in Ops : Visit(c) /\ NothingGivenUp =>
  /\ \A o \in Ops : op[o].stage = "answered" => op[o].answer.nonce = ledger[op[o].acct].nonce
  /\ Live /\ op[c].stage = "done" =>
       /\ (\E o \in Ops : Due(o)) => ledger[store.addr].nonce = store.nonce + 1
       /\ (\A o \in Ops : ~Due(o)) => ledger[store.addr].nonce = store.nonce

IInv ==
  /\ Typed /\ Fitting /\ QueueOrder
  /\ PaidOnce /\ Settling
  /\ NotNewer /\ NonceNotAhead
  /\ ConnectsFirst /\ NewerThanDone /\ InStep

\* The steps by what they are about: one operation, the page and the wallet, or the tab.
StepOf(o) ==
  \/ Connect(o) \/ InvokeSerialized(o) \/ InvokeDeposit(o) \/ InvokeRefresh(o)
  \/ ReconcileOnLoad(o) \/ Progress(o) \/ Fails(o)

StepBeside ==
  \/ RequestQuote \/ QuoteExpires \/ Lock \/ Disconnect \/ AccountChanged
  \/ \E a \in Accounts : SwitchWallet(a)

LEMMA NextCases == Next <=> (\E o \in Ops : StepOf(o)) \/ StepBeside \/ Reload
BY DEF Next, StepOf, StepBeside

-----------------------------------------------------------------------------
(***************************************************************************)
(* Types                                                                   *)
(***************************************************************************)
LEMMA KindFacts ==
  /\ Kinds = {"SET_MANDATE", "APPLY_REPAYMENT", "WITHDRAW_FROM_MANDATE", "BORROW_ACCEPT",
              "WITHDRAW_REQUEST", "DEPOSIT", "CONNECT", "REFRESH", "RECONCILE", "NONE"}
  /\ \A k : k \in Serialized <=> k \in {"SET_MANDATE", "APPLY_REPAYMENT", "WITHDRAW_FROM_MANDATE",
                                        "BORROW_ACCEPT", "WITHDRAW_REQUEST"}
  /\ \A k : k \in Mutations <=> k \in Serialized \/ k = "DEPOSIT"
BY DEF Kinds, Mutations, Serialized, Signed

LEMMA OpenedAccount ==
  ASSUME NEW l \in AccountType
  PROVE  /\ Opened(l) \in AccountType /\ Opened(l).version = l.version + 1
         /\ Opened(l).nonce = l.nonce + 1
<1>1. PICK m : m = Opened(l)
  OBVIOUS
<1>2. m = [exists |-> TRUE, nonce |-> l.nonce + 1, version |-> l.version + 1,
           usdt0 |-> l.usdt0, mandate |-> l.mandate, loan |-> l.loan]
  BY <1>1 DEF Opened, AccountType
<1> QED
  BY <1>1, <1>2 DEF AccountType

\* A command the ledger takes leaves the account with its types, and counts.
LEMMA ChangedAccount ==
  ASSUME NEW l \in AccountType, NEW k \in Mutations, Covered(k, l)
  PROVE  /\ Changed(k, l) \in AccountType /\ Changed(k, l).version = l.version + 1
         /\ k = "DEPOSIT" => Changed(k, l).nonce = l.nonce
         /\ k # "DEPOSIT" => Changed(k, l).nonce = l.nonce + 1
<1> DEFINE n == IF k = "DEPOSIT" THEN l.nonce ELSE l.nonce + 1
           m == [l EXCEPT !.exists = TRUE, !.version = @ + 1,
                          !.nonce = IF k = "DEPOSIT" THEN @ ELSE @ + 1]
<1>1. n \in Nat /\ (k = "DEPOSIT" => n = l.nonce) /\ (k # "DEPOSIT" => n = l.nonce + 1)
  BY DEF AccountType
<1>2. m = [exists |-> TRUE, nonce |-> n, version |-> l.version + 1,
           usdt0 |-> l.usdt0, mandate |-> l.mandate, loan |-> l.loan]
  <2>1. PICK x : x = m
    OBVIOUS
  <2>2. x = [exists |-> TRUE, nonce |-> n, version |-> l.version + 1,
             usdt0 |-> l.usdt0, mandate |-> l.mandate, loan |-> l.loan]
    BY <2>1 DEF AccountType
  <2> QED
    BY <2>1, <2>2
<1>3. Changed(k, l) =
        CASE k = "SET_MANDATE"           -> [m EXCEPT !.usdt0 = @ - 1, !.mandate = @ + 1]
          [] k = "APPLY_REPAYMENT"       -> [m EXCEPT !.usdt0 = @ - 1, !.loan = FALSE]
          [] k = "WITHDRAW_FROM_MANDATE" -> [m EXCEPT !.mandate = @ - 1]
          [] k = "BORROW_ACCEPT"         -> [m EXCEPT !.loan = TRUE]
          [] k = "WITHDRAW_REQUEST"      -> [m EXCEPT !.usdt0 = @ - 1]
          [] OTHER                       -> [m EXCEPT !.usdt0 = @ + 1]
  BY DEF Changed
<1> HIDE DEF m, n
<1>4. PICK c : c = Changed(k, l)
  OBVIOUS
<1>5. m \in AccountType /\ m.nonce = n /\ m.version = l.version + 1 /\ m.usdt0 = l.usdt0
      /\ m.mandate = l.mandate
  BY <1>1, <1>2 DEF AccountType
<1> SUFFICES c \in AccountType /\ c.version = m.version /\ c.nonce = m.nonce
  BY <1>1, <1>4, <1>5
<1>6. CASE k = "SET_MANDATE"
  <2>1. c = [m EXCEPT !.usdt0 = @ - 1, !.mandate = @ + 1] /\ m.usdt0 > 0
    BY <1>3, <1>4, <1>5, <1>6 DEF Covered
  <2>2. c = [exists |-> m.exists, nonce |-> m.nonce, version |-> m.version,
             usdt0 |-> m.usdt0 - 1, mandate |-> m.mandate + 1, loan |-> m.loan]
    BY <1>5, <2>1 DEF AccountType
  <2> QED
    BY <1>5, <2>1, <2>2 DEF AccountType
<1>7. CASE k = "APPLY_REPAYMENT"
  <2>1. c = [m EXCEPT !.usdt0 = @ - 1, !.loan = FALSE] /\ m.usdt0 > 0
    BY <1>3, <1>4, <1>5, <1>7 DEF Covered
  <2>2. c = [exists |-> m.exists, nonce |-> m.nonce, version |-> m.version,
             usdt0 |-> m.usdt0 - 1, mandate |-> m.mandate, loan |-> FALSE]
    BY <1>5, <2>1 DEF AccountType
  <2>3. c.version = m.version /\ c.nonce = m.nonce
    BY <2>2
  <2>4. m.usdt0 - 1 \in Nat /\ m.exists \in BOOLEAN /\ m.nonce \in Nat /\ m.version \in Nat
        /\ m.mandate \in Nat
    BY <1>5, <2>1 DEF AccountType
  <2> QED
    BY <2>2, <2>3, <2>4 DEF AccountType
<1>8. CASE k = "WITHDRAW_FROM_MANDATE"
  <2>1. c = [m EXCEPT !.mandate = @ - 1] /\ m.mandate > 0
    BY <1>3, <1>4, <1>5, <1>8 DEF Covered
  <2> QED
    BY <1>5, <2>1 DEF AccountType
<1>9. CASE k = "BORROW_ACCEPT"
  <2>1. c = [m EXCEPT !.loan = TRUE]
    BY <1>3, <1>4, <1>9
  <2> QED
    BY <1>5, <2>1 DEF AccountType
<1>10. CASE k = "WITHDRAW_REQUEST"
  <2>1. c = [m EXCEPT !.usdt0 = @ - 1] /\ m.usdt0 > 0
    BY <1>3, <1>4, <1>5, <1>10 DEF Covered
  <2> QED
    BY <1>5, <2>1 DEF AccountType
<1>11. CASE k = "DEPOSIT"
  <2>1. c = [m EXCEPT !.usdt0 = @ + 1]
    BY <1>3, <1>4, <1>11
  <2> QED
    BY <1>5, <2>1 DEF AccountType
<1> QED
  BY <1>6, <1>7, <1>8, <1>9, <1>10, <1>11, KindFacts

LEMMA InitIsTyped == Init => Typed
<1> SUFFICES ASSUME Init PROVE Typed
  OBVIOUS
<1>1. store \in StoreType /\ (Live => store.addr # None)
  BY DEF Init, InitialStore, Store, StoreType, Live
<1>2. op \in [Ops -> OpType] /\ job \in [Ops -> JobType]
  BY DEF Init, NewOp, NoJob, OpType, JobType, Stages, Purposes, Statuses
<1>3. NoAccount \in AccountType /\ FundedAccount \in AccountType
  <2>1. NoAccount \in AccountType
    BY DEF NoAccount, AccountType
  <2>2. Opened(NoAccount) \in AccountType
    BY <2>1, OpenedAccount
  <2> QED
    BY <2>1, <2>2, ConstantsAssumption DEF FundedAccount, AccountType
<1>4. ledger \in [Accounts -> AccountType]
  BY <1>3 DEF Init
<1> QED
  BY <1>1, <1>2, <1>4, ConstantsAssumption DEF Init, Typed

LEMMA VerdictFacts ==
  ASSUME NEW o \in Ops
  PROVE  /\ Verdict(o) \in {"applied", "stale", "processed", "refused"}
         /\ Verdict(o) = "applied" /\ ~op[o].creates => Covered(kind[o], ledger[op[o].acct])
         /\ Verdict(o) = "applied" /\ kind[o] = "BORROW_ACCEPT" /\ ~op[o].creates
            => ~ConfirmedBorrow(op[o].acct)
         /\ Verdict(o) = "processed" => kind[o] = "BORROW_ACCEPT" /\ ConfirmedBorrow(op[o].acct)
BY DEF Verdict, ConfirmedBorrow

\* One component of an operation is set.
LEMMA SetStage ==
  ASSUME NEW f \in [Ops -> OpType], NEW o \in Ops, NEW s \in Stages
  PROVE  [f EXCEPT ![o].stage = s] \in [Ops -> OpType]
BY DEF OpType

LEMMA SetAcct ==
  ASSUME NEW f \in [Ops -> OpType], NEW o \in Ops, NEW a \in Accounts \cup {None}
  PROVE  [f EXCEPT ![o].acct = a] \in [Ops -> OpType]
BY DEF OpType

LEMMA SetPurpose ==
  ASSUME NEW f \in [Ops -> OpType], NEW o \in Ops, NEW p \in Purposes
  PROVE  [f EXCEPT ![o].purpose = p] \in [Ops -> OpType]
BY DEF OpType

LEMMA SetAnswer ==
  ASSUME NEW f \in [Ops -> OpType], NEW o \in Ops, NEW w \in AnswerType \cup {None}
  PROVE  [f EXCEPT ![o].answer = w] \in [Ops -> OpType]
BY DEF OpType

LEMMA SetNonce ==
  ASSUME NEW f \in [Ops -> OpType], NEW o \in Ops, NEW n \in Nat
  PROVE  [f EXCEPT ![o].nonce = n] \in [Ops -> OpType]
BY DEF OpType

LEMMA SetCreates ==
  ASSUME NEW f \in [Ops -> OpType], NEW o \in Ops
  PROVE  [f EXCEPT ![o].creates = TRUE] \in [Ops -> OpType]
BY DEF OpType

\* The ways in which the steps set several of them.
LEMMA SetStageAcct ==
  ASSUME NEW f \in [Ops -> OpType], NEW o \in Ops, NEW s \in Stages,
         NEW a \in Accounts \cup {None}
  PROVE  [f EXCEPT ![o].stage = s, ![o].acct = a] \in [Ops -> OpType]
<1>1. PICK g : g = [f EXCEPT ![o].stage = s]
  OBVIOUS
<1>2. g \in [Ops -> OpType]
  BY <1>1, SetStage
<1>3. [g EXCEPT ![o].acct = a] \in [Ops -> OpType]
  BY <1>2, SetAcct
<1>4. [g EXCEPT ![o].acct = a]
      = [f EXCEPT ![o].stage = s, ![o].acct = a]
  BY <1>1
<1> QED
  BY <1>3, <1>4

LEMMA SetStageAcctPurpose ==
  ASSUME NEW f \in [Ops -> OpType], NEW o \in Ops, NEW s \in Stages,
         NEW a \in Accounts \cup {None},
         NEW p \in Purposes
  PROVE  [f EXCEPT ![o].stage = s, ![o].acct = a, ![o].purpose = p] \in [Ops -> OpType]
<1>1. PICK g : g = [f EXCEPT ![o].stage = s]
  OBVIOUS
<1>2. g \in [Ops -> OpType]
  BY <1>1, SetStage
<1>3. PICK h : h = [g EXCEPT ![o].acct = a]
  OBVIOUS
<1>4. h \in [Ops -> OpType]
  BY <1>3, <1>2, SetAcct
<1>5. [h EXCEPT ![o].purpose = p] \in [Ops -> OpType]
  BY <1>4, SetPurpose
<1>6. [h EXCEPT ![o].purpose = p]
      = [f EXCEPT ![o].stage = s, ![o].acct = a, ![o].purpose = p]
  BY <1>1, <1>3
<1> QED
  BY <1>5, <1>6

LEMMA SetStagePurpose ==
  ASSUME NEW f \in [Ops -> OpType], NEW o \in Ops, NEW s \in Stages,
         NEW p \in Purposes
  PROVE  [f EXCEPT ![o].stage = s, ![o].purpose = p] \in [Ops -> OpType]
<1>1. PICK g : g = [f EXCEPT ![o].stage = s]
  OBVIOUS
<1>2. g \in [Ops -> OpType]
  BY <1>1, SetStage
<1>3. [g EXCEPT ![o].purpose = p] \in [Ops -> OpType]
  BY <1>2, SetPurpose
<1>4. [g EXCEPT ![o].purpose = p]
      = [f EXCEPT ![o].stage = s, ![o].purpose = p]
  BY <1>1
<1> QED
  BY <1>3, <1>4

LEMMA SetStageAnswer ==
  ASSUME NEW f \in [Ops -> OpType], NEW o \in Ops, NEW s \in Stages,
         NEW w \in AnswerType \cup {None}
  PROVE  [f EXCEPT ![o].stage = s, ![o].answer = w] \in [Ops -> OpType]
<1>1. PICK g : g = [f EXCEPT ![o].stage = s]
  OBVIOUS
<1>2. g \in [Ops -> OpType]
  BY <1>1, SetStage
<1>3. [g EXCEPT ![o].answer = w] \in [Ops -> OpType]
  BY <1>2, SetAnswer
<1>4. [g EXCEPT ![o].answer = w]
      = [f EXCEPT ![o].stage = s, ![o].answer = w]
  BY <1>1
<1> QED
  BY <1>3, <1>4

LEMMA SetStageCreates ==
  ASSUME NEW f \in [Ops -> OpType], NEW o \in Ops, NEW s \in Stages
  PROVE  [f EXCEPT ![o].stage = s, ![o].creates = TRUE] \in [Ops -> OpType]
<1>1. PICK g : g = [f EXCEPT ![o].stage = s]
  OBVIOUS
<1>2. g \in [Ops -> OpType]
  BY <1>1, SetStage
<1>3. [g EXCEPT ![o].creates = TRUE] \in [Ops -> OpType]
  BY <1>2, SetCreates
<1>4. [g EXCEPT ![o].creates = TRUE]
      = [f EXCEPT ![o].stage = s, ![o].creates = TRUE]
  BY <1>1
<1> QED
  BY <1>3, <1>4

LEMMA SetPrompt ==
  ASSUME NEW f \in [Ops -> OpType], NEW o \in Ops, NEW s \in Stages,
         NEW n \in Nat,
         NEW p \in Purposes,
         NEW w \in AnswerType \cup {None}
  PROVE  [f EXCEPT ![o].stage = s, ![o].nonce = n, ![o].purpose = p, ![o].answer = w] \in [Ops -> OpType]
<1>1. PICK g : g = [f EXCEPT ![o].stage = s]
  OBVIOUS
<1>2. g \in [Ops -> OpType]
  BY <1>1, SetStage
<1>3. PICK h : h = [g EXCEPT ![o].nonce = n]
  OBVIOUS
<1>4. h \in [Ops -> OpType]
  BY <1>3, <1>2, SetNonce
<1>5. PICK i : i = [h EXCEPT ![o].purpose = p]
  OBVIOUS
<1>6. i \in [Ops -> OpType]
  BY <1>5, <1>4, SetPurpose
<1>7. [i EXCEPT ![o].answer = w] \in [Ops -> OpType]
  BY <1>6, SetAnswer
<1>8. [i EXCEPT ![o].answer = w]
      = [f EXCEPT ![o].stage = s, ![o].nonce = n, ![o].purpose = p, ![o].answer = w]
  BY <1>1, <1>3, <1>5
<1> QED
  BY <1>7, <1>8

\* What is read of an account that exists, and what becomes of the store.
LEMMA ViewType ==
  ASSUME Typed, NEW a \in Accounts, ledger[a].exists
  PROVE  /\ AccountView(a) \in AnswerType /\ AccountView(a).owner = a
         /\ AccountView(a).nonce = ledger[a].nonce /\ AccountView(a).version = ledger[a].version
<1>1. ledger[a] \in AccountType
  BY DEF Typed
<1>2. ledger[a].exists \in {TRUE}
  BY <1>1 DEF AccountType
<1> QED
  BY <1>1, <1>2 DEF AccountView, AnswerType, AccountType

LEMMA StoreChanges ==
  ASSUME Typed, NEW a \in Accounts, NEW w \in AnswerType
  PROVE  /\ Connected(a) \in StoreType /\ Locked \in StoreType /\ Disconnected \in StoreType
         /\ IncrementNonce(store) \in StoreType
         /\ MarkSettlementRefreshPending(store) \in StoreType
         /\ Hydrated(store, w) \in StoreType
<1> USE DEF StoreType
<1>1. store \in StoreType
  BY DEF Typed
<1>2. Connected(a) \in StoreType /\ Locked \in StoreType /\ Disconnected \in StoreType
  BY <1>1 DEF Connected, Locked, Disconnected, Store
<1>3. IncrementNonce(store) \in StoreType
  BY <1>1 DEF IncrementNonce
<1>4. MarkSettlementRefreshPending(store) \in StoreType
  BY <1>1 DEF MarkSettlementRefreshPending
<1>5. Hydrated(store, w) \in StoreType
  <2>1. PICK h : h = Hydrated(store, w)
    OBVIOUS
  <2>2. h = [mode |-> store.mode, addr |-> store.addr, nonce |-> w.nonce, view |-> w,
             flag |-> FALSE]
    BY <1>1, <2>1 DEF Hydrated
  <2>3. w.nonce \in Nat
    BY DEF AnswerType
  <2> QED
    BY <1>1, <2>1, <2>2, <2>3
<1> QED
  BY <1>2, <1>3, <1>4, <1>5

-----------------------------------------------------------------------------
(***************************************************************************)
(* What each step does to the operation it is about, component by          *)
(* component                                                               *)
(***************************************************************************)
Keeps(o) == kind' = kind /\ \A p \in Ops \ {o} : op'[p] = op[p] /\ job'[p] = job[p]

Same(o) == op'[o].acct = op[o].acct /\ op'[o].creates = op[o].creates

LEMMA OpFields ==
  ASSUME Typed, NEW o \in Ops
  PROVE  /\ op[o] \in OpType /\ op[o].stage \in Stages /\ op[o].acct \in Accounts \cup {None}
         /\ op[o].nonce \in Nat /\ op[o].creates \in BOOLEAN /\ op[o].purpose \in Purposes
         /\ op[o].answer \in AnswerType \cup {None}
         /\ job[o] \in JobType /\ job[o].status \in Statuses /\ job[o].version \in Nat
         /\ store.nonce \in Nat /\ store.addr \in Accounts \cup {None}
BY DEF Typed, OpType, JobType, StoreType

LEMMA EndsDoes ==
  ASSUME Typed, NEW o \in Ops, NEW s \in Stages, Ends(o, s)
  PROVE  /\ op' \in [Ops -> OpType] /\ \A p \in Ops \ {o} : op'[p] = op[p]
         /\ op'[o].stage = s /\ op'[o].answer = None /\ op'[o].purpose = op[o].purpose
         /\ Same(o)
         /\ queue' = IF queue # <<>> /\ Head(queue) = o THEN Tail(queue) ELSE queue
<1>1. op \in [Ops -> OpType]
  BY DEF Typed
<1>2. [op EXCEPT ![o].stage = s, ![o].answer = None] \in [Ops -> OpType]
  BY <1>1, SetStageAnswer
<1> QED
  BY <1>1, <1>2 DEF Ends, OpType, Same

LEMMA MovesDoes ==
  ASSUME Typed, NEW o \in Ops, NEW s \in Stages, Moves(o, s)
  PROVE  /\ op' \in [Ops -> OpType] /\ \A p \in Ops \ {o} : op'[p] = op[p]
         /\ op'[o].stage = s /\ op'[o].answer = op[o].answer /\ op'[o].purpose = op[o].purpose
         /\ Same(o) /\ queue' = queue
<1>1. op \in [Ops -> OpType]
  BY DEF Typed
<1>2. [op EXCEPT ![o].stage = s] \in [Ops -> OpType]
  BY <1>1, SetStage
<1> QED
  BY <1>1, <1>2 DEF Moves, OpType, Same

LEMMA QueriesDoes ==
  ASSUME Typed, NEW o \in Ops, NEW p \in Purposes, Queries(o, p)
  PROVE  /\ op' \in [Ops -> OpType] /\ \A q \in Ops \ {o} : op'[q] = op[q]
         /\ op'[o].stage = "query" /\ op'[o].answer = op[o].answer /\ op'[o].purpose = p
         /\ Same(o) /\ queue' = queue
<1>1. op \in [Ops -> OpType] /\ "query" \in Stages
  BY DEF Typed, Stages
<1>2. [op EXCEPT ![o].stage = "query", ![o].purpose = p] \in [Ops -> OpType]
  BY <1>1, SetStagePurpose
<1> QED
  BY <1>1, <1>2 DEF Queries, OpType, Same

LEMMA PromptsDoes ==
  ASSUME Typed, NEW o \in Ops, NEW n \in Nat, Prompts(o, n)
  PROVE  /\ op' \in [Ops -> OpType] /\ \A q \in Ops \ {o} : op'[q] = op[q]
         /\ op'[o].stage = "prompt" /\ op'[o].answer = None /\ op'[o].purpose = "none"
         /\ Same(o) /\ queue' = queue
<1>1. op \in [Ops -> OpType] /\ "prompt" \in Stages /\ "none" \in Purposes
  BY DEF Typed, Stages, Purposes
<1>2. [op EXCEPT ![o].stage = "prompt", ![o].nonce = n, ![o].purpose = "none",
                 ![o].answer = None] \in [Ops -> OpType]
  BY <1>1, SetPrompt
<1> QED
  BY <1>1, <1>2 DEF Prompts, OpType, Same

LEMMA ConnectDoes ==
  ASSUME Typed, NEW o \in Ops, Connect(o)
  PROVE  /\ Keeps(o) /\ op' \in [Ops -> OpType] /\ wallet \in Accounts
         /\ op[o].stage = "new" /\ kind[o] = "CONNECT" /\ ~Live
         /\ op'[o].stage = "query" /\ op'[o].purpose = "open" /\ op'[o].acct = wallet
         /\ op'[o].answer = op[o].answer /\ op'[o].creates = op[o].creates
         /\ store' = Connected(wallet)
         /\ UNCHANGED <<reconciled, quote, wallet, queue, job, ledger, kind>>
<1>1. op \in [Ops -> OpType] /\ "query" \in Stages /\ "open" \in Purposes
  BY DEF Typed, Stages, Purposes
<1>2. [op EXCEPT ![o].stage = "query", ![o].acct = wallet, ![o].purpose = "open"]
      \in [Ops -> OpType]
  BY <1>1, SetStageAcctPurpose DEF Connect
<1> QED
  BY <1>1, <1>2 DEF Connect, Keeps, OpType, bounds

LEMMA InvokeSerializedDoes ==
  ASSUME Typed, NEW o \in Ops, InvokeSerialized(o)
  PROVE  /\ Keeps(o) /\ op' \in [Ops -> OpType]
         /\ op[o].stage = "new" /\ kind[o] \in Serialized /\ Live /\ store.view # None
         /\ op'[o].stage = "queued" /\ op'[o].purpose = op[o].purpose
         /\ op'[o].acct = store.addr /\ store.addr \in Accounts
         /\ op'[o].answer = op[o].answer /\ op'[o].creates = op[o].creates
         /\ queue' = Append(queue, o)
         /\ UNCHANGED <<store, reconciled, quote, wallet, job, ledger, kind>>
<1>1. Shown
  BY KindFacts DEF InvokeSerialized, Ready, MandateFormReady, MandateWithdrawFormReady,
                   RepayFormReady, WithdrawFormReady, AcceptReady
<1>2. op \in [Ops -> OpType] /\ "queued" \in Stages /\ store.addr \in Accounts
  BY <1>1 DEF Typed, Stages, Shown, StoreType
<1>3. [op EXCEPT ![o].stage = "queued", ![o].acct = store.addr] \in [Ops -> OpType]
  BY <1>2, SetStageAcct
<1> QED
  BY <1>1, <1>2, <1>3 DEF InvokeSerialized, Keeps, OpType, bounds, Shown

LEMMA InvokeDepositDoes ==
  ASSUME Typed, NEW o \in Ops, InvokeDeposit(o)
  PROVE  /\ Keeps(o) /\ op' \in [Ops -> OpType]
         /\ op[o].stage = "new" /\ kind[o] = "DEPOSIT" /\ Live
         /\ op'[o].stage = "prompt" /\ op'[o].purpose = op[o].purpose
         /\ op'[o].acct = store.addr /\ store.addr \in Accounts
         /\ op'[o].answer = op[o].answer /\ op'[o].creates = op[o].creates
         /\ UNCHANGED <<store, reconciled, quote, wallet, queue, job, ledger, kind>>
<1>1. Shown
  BY DEF InvokeDeposit, Ready, DepositFormReady
<1>2. op \in [Ops -> OpType] /\ "prompt" \in Stages /\ store.addr \in Accounts
  BY <1>1 DEF Typed, Stages, Shown, StoreType
<1>3. [op EXCEPT ![o].stage = "prompt", ![o].acct = store.addr] \in [Ops -> OpType]
  BY <1>2, SetStageAcct
<1> QED
  BY <1>1, <1>2, <1>3 DEF InvokeDeposit, Keeps, OpType, bounds, Shown

LEMMA InvokeRefreshDoes ==
  ASSUME Typed, NEW o \in Ops, InvokeRefresh(o) \/ ReconcileOnLoad(o)
  PROVE  /\ Keeps(o) /\ op' \in [Ops -> OpType]
         /\ op[o].stage = "new" /\ kind[o] \in {"REFRESH", "RECONCILE"} /\ Live
         /\ op'[o].stage = "query" /\ op'[o].purpose = "plain"
         /\ op'[o].acct = store.addr /\ store.addr \in Accounts
         /\ op'[o].answer = op[o].answer /\ op'[o].creates = op[o].creates
         /\ UNCHANGED <<store, quote, wallet, queue, job, ledger, kind>>
<1>1. Live
  BY DEF InvokeRefresh, Ready, RefreshReady, ReconcileOnLoad
<1>2. op \in [Ops -> OpType] /\ "query" \in Stages /\ "plain" \in Purposes
      /\ store.addr \in Accounts
  BY <1>1 DEF Typed, Stages, Purposes, StoreType
<1>3. [op EXCEPT ![o].stage = "query", ![o].acct = store.addr, ![o].purpose = "plain"]
      \in [Ops -> OpType]
  BY <1>2, SetStageAcctPurpose
<1>4. op' = [op EXCEPT ![o].stage = "query", ![o].acct = store.addr, ![o].purpose = "plain"]
  BY DEF InvokeRefresh, ReconcileOnLoad
<1> QED
  BY <1>1, <1>2, <1>3, <1>4 DEF InvokeRefresh, ReconcileOnLoad, Keeps, OpType, bounds

LEMMA StartNextDoes ==
  ASSUME Typed, NEW o \in Ops, StartNext(o)
  PROVE  /\ Keeps(o) /\ op' \in [Ops -> OpType] /\ Same(o)
         /\ op[o].stage = "queued" /\ Head(queue) = o
         /\ \/ /\ kind[o] = "BORROW_ACCEPT" /\ ConfirmedBorrow(op[o].acct)
               /\ op'[o].stage = "query" /\ op'[o].purpose = "prior"
            \/ op'[o].stage = "prompt" /\ op'[o].purpose = "none"
         /\ UNCHANGED <<store, reconciled, quote, wallet, queue, job, ledger, kind>>
<1>1. /\ op[o].stage = "queued" /\ Head(queue) = o
      /\ UNCHANGED <<store, reconciled, quote, wallet, job, ledger, kind>>
      /\ store.nonce \in Nat /\ "prior" \in Purposes
  BY OpFields DEF StartNext, MayRun, bounds, Purposes
<1>2. CASE kind[o] = "BORROW_ACCEPT" /\ ConfirmedBorrow(op[o].acct)
  <2>1. Queries(o, "prior")
    BY <1>2 DEF StartNext
  <2> QED
    BY <1>1, <1>2, <2>1, QueriesDoes DEF Keeps
<1>3. CASE ~(kind[o] = "BORROW_ACCEPT" /\ ConfirmedBorrow(op[o].acct))
  <2>1. Prompts(o, store.nonce)
    BY <1>3 DEF StartNext
  <2> QED
    BY <1>1, <2>1, PromptsDoes DEF Keeps
<1> QED
  BY <1>2, <1>3

LEMMA PostDoes ==
  ASSUME Typed, NEW o \in Ops, Post(o)
  PROVE  /\ Keeps(o) /\ op' \in [Ops -> OpType] /\ Same(o)
         /\ op[o].stage = "prompt" /\ op'[o].stage = "job"
         /\ op'[o].purpose = op[o].purpose /\ op'[o].answer = op[o].answer
         /\ job' \in [Ops -> JobType] /\ job'[o].status = "posted"
         /\ UNCHANGED <<store, reconciled, quote, wallet, queue, ledger, kind>>
<1>1. Moves(o, "job") /\ "job" \in Stages
  BY DEF Post, Stages
<1>2. job \in [Ops -> JobType]
  BY DEF Typed
<1> QED
  BY <1>1, <1>2, MovesDoes DEF Post, Keeps, bounds, JobType, Statuses

\* The ledger applies a command, or leaves the account alone.
LEMMA ApplyDoes ==
  ASSUME Typed, Fitting, NEW o \in Ops, Apply(o)
  PROVE  /\ Keeps(o) /\ UNCHANGED <<store, reconciled, quote, wallet, queue, op, kind>>
         /\ job[o].status = "posted" /\ job' \in [Ops -> JobType] /\ op[o].acct \in Accounts
         /\ job'[o].status = Verdict(o) /\ job'[o].version = ledger'[op[o].acct].version
         /\ ledger' \in [Accounts -> AccountType]
         /\ \A a \in Accounts : a # op[o].acct \/ Verdict(o) # "applied" => ledger'[a] = ledger[a]
         /\ Verdict(o) = "applied" =>
              /\ ledger'[op[o].acct].version = ledger[op[o].acct].version + 1
              /\ ledger'[op[o].acct].nonce \in {ledger[op[o].acct].nonce,
                                                ledger[op[o].acct].nonce + 1}
              /\ kind[o] # "DEPOSIT"
                 => ledger'[op[o].acct].nonce = ledger[op[o].acct].nonce + 1
<1>1. /\ job[o].status = "posted" /\ UNCHANGED <<store, reconciled, quote, wallet, queue, op, kind>>
  BY DEF Apply, bounds
<1>2. op[o].acct \in Accounts /\ op[o].stage \in {"job", "failed", "gone"}
  BY <1>1 DEF Fitting, Fits
<1>3. PICK a \in Accounts : a = op[o].acct
  BY <1>2
<1>4. PICK l \in AccountType : l = ledger[a]
  BY DEF Typed
<1>5. PICK new : new = IF op[o].creates THEN Opened(l) ELSE Changed(kind[o], l)
  OBVIOUS
<1>6. /\ ledger' = IF Verdict(o) = "applied" THEN [ledger EXCEPT ![a] = new] ELSE ledger
      /\ job' = [job EXCEPT ![o] = [status |-> Verdict(o), version |-> ledger'[a].version]]
  BY <1>3, <1>4, <1>5 DEF Apply
<1>7. Verdict(o) \in {"applied", "stale", "processed", "refused"}
  BY VerdictFacts
<1>8. ASSUME Verdict(o) = "applied"
      PROVE  /\ new \in AccountType /\ new.version = l.version + 1
             /\ new.nonce \in {l.nonce, l.nonce + 1}
             /\ kind[o] # "DEPOSIT" => new.nonce = l.nonce + 1
  <2>1. CASE op[o].creates
    BY <1>5, <2>1, OpenedAccount
  <2>2. CASE ~op[o].creates
    <3>1. Covered(kind[o], l)
      BY <1>3, <1>4, <1>8, <2>2, VerdictFacts
    <3>2. kind[o] \in Mutations
      BY <1>1, <2>2 DEF Fitting, Fits
    <3>3. new = Changed(kind[o], l)
      BY <1>5, <2>2
    <3> QED
      BY <3>1, <3>2, <3>3, ChangedAccount
  <2> QED
    BY <2>1, <2>2
<1>9. /\ ledger' \in [Accounts -> AccountType]
      /\ \A b \in Accounts : b # a \/ Verdict(o) # "applied" => ledger'[b] = ledger[b]
      /\ Verdict(o) = "applied" => ledger'[a] = new
  BY <1>4, <1>6, <1>8 DEF Typed
<1>10. ledger'[a].version \in Nat
  BY <1>9 DEF AccountType
<1>11. /\ job' \in [Ops -> JobType] /\ job'[o].status = Verdict(o)
       /\ job'[o].version = ledger'[a].version /\ \A p \in Ops \ {o} : job'[p] = job[p]
  BY <1>6, <1>7, <1>10 DEF Typed, JobType, Statuses
<1> QED
  BY <1>1, <1>2, <1>3, <1>4, <1>8, <1>9, <1>11 DEF Keeps

LEMMA SettledDoes ==
  ASSUME Typed, NEW o \in Ops, Settled(o)
  PROVE  /\ Keeps(o) /\ op' \in [Ops -> OpType] /\ Same(o)
         /\ op[o].stage = "job" /\ job[o].status = "applied"
         /\ op'[o].stage = "query" /\ op'[o].answer = op[o].answer
         /\ op[o].creates => op'[o].purpose = "plain"
         /\ ~op[o].creates => op'[o].purpose = "settled"
         /\ kind[o] = "DEPOSIT" => store' = store
         /\ kind[o] # "DEPOSIT" => store' = IncrementNonce(store)
         /\ UNCHANGED <<reconciled, quote, wallet, queue, job, ledger, kind>>
<1>1. PICK p \in Purposes : p = IF op[o].creates THEN "plain" ELSE "settled"
  BY DEF Purposes
<1>2. Queries(o, p)
  BY <1>1 DEF Settled
<1> QED
  BY <1>1, <1>2, QueriesDoes DEF Settled, Keeps, bounds

LEMMA JobFailedDoes ==
  ASSUME Typed, NEW o \in Ops, JobFailed(o)
  PROVE  /\ Keeps(o) /\ op' \in [Ops -> OpType] /\ Same(o)
         /\ op[o].stage = "job" /\ job[o].status \in {"stale", "processed", "refused"}
         /\ \/ /\ job[o].status = "processed"
               /\ op'[o].stage = "query" /\ op'[o].purpose = "processed" /\ queue' = queue
            \/ Ends(o, "failed") /\ op'[o].stage = "failed" /\ op'[o].purpose = op[o].purpose
         /\ UNCHANGED <<store, reconciled, quote, wallet, job, ledger, kind>>
<1>1. "processed" \in Purposes /\ "failed" \in Stages
  BY DEF Purposes, Stages
<1>2. CASE job[o].status = "processed"
  <2>1. Queries(o, "processed")
    BY <1>2 DEF JobFailed
  <2> QED
    BY <1>1, <1>2, <2>1, QueriesDoes DEF JobFailed, Keeps, bounds
<1>3. CASE job[o].status # "processed"
  <2>1. Ends(o, "failed")
    BY <1>3 DEF JobFailed
  <2> QED
    BY <1>1, <1>3, <2>1, EndsDoes DEF JobFailed, Keeps, bounds
<1> QED
  BY <1>2, <1>3

LEMMA AnswerDoes ==
  ASSUME Typed, NEW o \in Ops, Answer(o), op[o].acct \in Accounts
  PROVE  /\ Keeps(o) /\ op' \in [Ops -> OpType] /\ Same(o)
         /\ op[o].stage = "query" /\ op'[o].stage = "answered"
         /\ op'[o].purpose = op[o].purpose
         /\ op'[o].answer \in AnswerType /\ op'[o].answer.owner = op[o].acct
         /\ op'[o].answer.nonce = ledger[op[o].acct].nonce
         /\ op'[o].answer.version = ledger[op[o].acct].version
         /\ UNCHANGED <<store, reconciled, quote, wallet, queue, job, ledger, kind>>
<1>1. PICK w \in AnswerType : /\ w = AccountView(op[o].acct) /\ w.owner = op[o].acct
                              /\ w.nonce = ledger[op[o].acct].nonce
                              /\ w.version = ledger[op[o].acct].version
  BY ViewType DEF Answer
<1>2. op' = [op EXCEPT ![o].stage = "answered", ![o].answer = w]
  BY <1>1 DEF Answer
<1>3. op \in [Ops -> OpType] /\ "answered" \in Stages
  BY DEF Typed, Stages
<1>4. op' \in [Ops -> OpType]
  BY <1>2, <1>3, SetStageAnswer
<1>5. /\ op'[o].stage = "answered" /\ op'[o].answer = w /\ op'[o].purpose = op[o].purpose
      /\ Same(o) /\ \A p \in Ops \ {o} : op'[p] = op[p]
  BY <1>2, <1>3 DEF OpType, Same
<1> QED
  BY <1>1, <1>4, <1>5 DEF Answer, Keeps, bounds

LEMMA OpenAccountDoes ==
  ASSUME Typed, NEW o \in Ops, OpenAccount(o)
  PROVE  /\ Keeps(o) /\ op' \in [Ops -> OpType] /\ op'[o].acct = op[o].acct
         /\ op[o].stage = "query" /\ op[o].purpose = "open"
         /\ op'[o].stage = "prompt" /\ op'[o].purpose = "open" /\ op'[o].creates
         /\ op'[o].answer = op[o].answer
         /\ UNCHANGED <<store, reconciled, quote, wallet, queue, job, ledger, kind>>
<1>1. op \in [Ops -> OpType] /\ "prompt" \in Stages
  BY DEF Typed, Stages
<1>2. [op EXCEPT ![o].stage = "prompt", ![o].creates = TRUE] \in [Ops -> OpType]
  BY <1>1, SetStageCreates
<1>3. op' = [op EXCEPT ![o].stage = "prompt", ![o].creates = TRUE]
  BY DEF OpenAccount
<1>4. op'[o].creates
  BY <1>1, <1>3 DEF OpType
<1>5. /\ op'[o].acct = op[o].acct /\ op'[o].stage = "prompt" /\ op'[o].purpose = op[o].purpose
      /\ op'[o].answer = op[o].answer /\ \A p \in Ops \ {o} : op'[p] = op[p]
  BY <1>1, <1>3 DEF OpType
<1> QED
  BY <1>2, <1>3, <1>4, <1>5 DEF OpenAccount, Keeps, bounds

\* The answer is shown, whatever the operation does then.
LEMMA HydrateDoes ==
  ASSUME Typed, Fitting, NEW o \in Ops, Hydrate(o)
  PROVE  /\ Keeps(o) /\ op' \in [Ops -> OpType] /\ Same(o)
         /\ op[o].stage = "answered" /\ op[o].answer \in AnswerType
         /\ op[o].answer.owner = op[o].acct
         /\ store' = Hydrated(store, op[o].answer)
         /\ \/ /\ op[o].purpose = "prior" /\ queue' = queue
               /\ op'[o].stage = "prompt" /\ op'[o].purpose = "none"
            \/ /\ op[o].purpose = "processed" /\ Ends(o, "failed")
               /\ op'[o].stage = "failed" /\ op'[o].purpose = op[o].purpose
            \/ /\ op[o].purpose \in {"prior", "processed"} => op[o].answer.loan
               /\ Ends(o, "done")
               /\ op'[o].stage = "done" /\ op'[o].purpose = op[o].purpose
         /\ UNCHANGED <<reconciled, quote, wallet, job, ledger, kind>>
<1>1. /\ op[o].stage = "answered" /\ store' = Hydrated(store, op[o].answer)
      /\ UNCHANGED <<reconciled, quote, wallet, job, ledger, kind>>
  BY DEF Hydrate, bounds
<1>2. op[o].answer \in AnswerType /\ op[o].answer.owner = op[o].acct
  BY <1>1, OpFields DEF Fitting, Fits
<1>3. "failed" \in Stages /\ "done" \in Stages /\ store'.nonce \in Nat
  <2>1. store' \in StoreType
    BY <1>1, <1>2, StoreChanges, ConstantsAssumption DEF AnswerType
  <2> QED
    BY <2>1 DEF Stages, StoreType
<1>4. CASE op[o].purpose = "prior" /\ ~LoanShown(op[o].answer)
  <2>1. Prompts(o, store'.nonce)
    BY <1>4 DEF Hydrate
  <2> QED
    BY <1>1, <1>2, <1>3, <1>4, <2>1, PromptsDoes DEF Keeps
<1>5. CASE op[o].purpose = "processed" /\ ~LoanShown(op[o].answer)
  <2>1. Ends(o, "failed")
    BY <1>5 DEF Hydrate
  <2> QED
    BY <1>1, <1>2, <1>3, <1>5, <2>1, EndsDoes DEF Keeps
<1>6. CASE op[o].purpose \in {"prior", "processed"} => LoanShown(op[o].answer)
  <2>1. Ends(o, "done")
    BY <1>6 DEF Hydrate
  <2> QED
    BY <1>1, <1>2, <1>3, <1>6, <2>1, EndsDoes DEF Keeps, LoanShown
<1> QED
  BY <1>4, <1>5, <1>6

\* A step that throws ends the operation; after a settlement it only raises the flag.
LEMMA ThrowsDoes ==
  ASSUME Typed, NEW o \in Ops, Fails(o) \/ Rejected(o)
  PROVE  /\ Keeps(o) /\ op' \in [Ops -> OpType] /\ Same(o)
         /\ op[o].stage \in {"prompt", "job", "query", "answered"}
         /\ op'[o].purpose = op[o].purpose
         /\ \/ /\ op[o].stage \in {"query", "answered"} /\ op[o].purpose = "settled"
               /\ Ends(o, "done") /\ op'[o].stage = "done"
               /\ store' = MarkSettlementRefreshPending(store)
            \/ Ends(o, "failed") /\ op'[o].stage = "failed" /\ store' = store
         /\ UNCHANGED <<reconciled, quote, wallet, job, ledger, kind>>
<1>1. /\ op[o].stage \in {"prompt", "job", "query", "answered"} /\ Throws(o)
      /\ UNCHANGED <<reconciled, quote, wallet, job, ledger, kind>>
  BY DEF Fails, Rejected, bounds
<1>2. "failed" \in Stages /\ "done" \in Stages
  BY DEF Stages
<1>3. CASE op[o].stage \in {"query", "answered"} /\ op[o].purpose = "settled"
  <2>1. store' = MarkSettlementRefreshPending(store) /\ Ends(o, "done")
    BY <1>1, <1>3 DEF Throws
  <2> QED
    BY <1>1, <1>2, <1>3, <2>1, EndsDoes DEF Keeps
<1>4. CASE ~(op[o].stage \in {"query", "answered"} /\ op[o].purpose = "settled")
  <2>1. UNCHANGED store /\ Ends(o, "failed")
    BY <1>1, <1>4 DEF Throws
  <2> QED
    BY <1>1, <1>2, <2>1, EndsDoes DEF Keeps
<1> QED
  BY <1>3, <1>4

LEMMA BesideDoes ==
  ASSUME Typed, StepBeside
  PROVE  /\ UNCHANGED <<queue, op, job, ledger, kind>>
         /\ \/ store' = store
            \/ Live /\ store' = Locked
            \/ store' = Disconnected
         /\ wallet' \in Accounts \cup {None} /\ quote' \in {"none", "offered", "gone"}
<1>1. CASE RequestQuote \/ QuoteExpires
  BY <1>1 DEF RequestQuote, QuoteExpires, bounds, Typed
<1>2. CASE Lock \/ Disconnect \/ AccountChanged
  BY <1>2 DEF Lock, Disconnect, AccountChanged, bounds, Typed
<1>3. ASSUME NEW a \in Accounts, SwitchWallet(a)
      PROVE  /\ UNCHANGED <<queue, op, job, ledger, kind, store, quote>>
             /\ wallet' \in Accounts \cup {None}
  BY <1>3 DEF SwitchWallet
<1>4. quote \in {"none", "offered", "gone"}
  BY DEF Typed
<1> QED
  BY <1>1, <1>2, <1>3, <1>4 DEF StepBeside

LEMMA ReloadDoes ==
  ASSUME Typed, Reload
  PROVE  /\ op' \in [Ops -> OpType] /\ queue' = <<>>
         /\ UNCHANGED <<store, wallet, job, ledger, kind>>
         /\ quote' \in {"none", "offered", "gone"}
         /\ \A o \in Ops :
              /\ op'[o].acct = op[o].acct /\ op'[o].creates = op[o].creates
              /\ op'[o].purpose = op[o].purpose
              /\ Started(o) => op'[o].stage = "gone"
              /\ ~Started(o) => op'[o].stage = op[o].stage
<1>1. /\ op' = [o \in Ops |-> IF Started(o)
                              THEN [op[o] EXCEPT !.stage = "gone", !.answer = None] ELSE op[o]]
      /\ queue' = <<>> /\ UNCHANGED <<store, wallet, job, ledger, kind>>
      /\ quote' \in {"none", "offered", "gone"}
  BY DEF Reload, Typed
<1>2. ASSUME NEW o \in Ops
      PROVE  /\ op'[o] \in OpType
             /\ op'[o].acct = op[o].acct /\ op'[o].creates = op[o].creates
             /\ op'[o].purpose = op[o].purpose
             /\ Started(o) => op'[o].stage = "gone"
             /\ ~Started(o) => op'[o].stage = op[o].stage
  <2>1. op[o] \in OpType /\ "gone" \in Stages
    BY DEF Typed, Stages
  <2>2. CASE Started(o)
    <3>1. PICK r : r = [op[o] EXCEPT !.stage = "gone", !.answer = None]
      OBVIOUS
    <3>2. r = [stage |-> "gone", acct |-> op[o].acct, nonce |-> op[o].nonce,
               creates |-> op[o].creates, purpose |-> op[o].purpose, answer |-> None]
      BY <2>1, <3>1 DEF OpType
    <3>3. op'[o] = r
      BY <1>1, <2>2, <3>1
    <3>4. r \in OpType
      BY <2>1, <3>2 DEF OpType
    <3> QED
      BY <2>2, <3>2, <3>3, <3>4
  <2>3. CASE ~Started(o)
    BY <1>1, <2>1, <2>3
  <2> QED
    BY <2>2, <2>3
<1>3. op' \in [Ops -> OpType]
  <2>1. \A o \in Ops : op'[o] \in OpType
    BY <1>2
  <2>2. PICK f : f = op'
    OBVIOUS
  <2> QED
    BY <1>1, <2>1
<1> QED
  BY <1>1, <1>2, <1>3

-----------------------------------------------------------------------------
(***************************************************************************)
(* Types, stages and the queue                                             *)
(***************************************************************************)
\* How a step may change the store.
StoreGoes ==
  \/ store' = store
  \/ \E a \in Accounts : ~Live /\ store' = Connected(a)
  \/ Live /\ store' = Locked
  \/ store' = Disconnected
  \/ store' = IncrementNonce(store)
  \/ store' = MarkSettlementRefreshPending(store)
  \/ \E w \in AnswerType : store' = Hydrated(store, w)

LEMMA StoreStep ==
  ASSUME Typed, StoreGoes
  PROVE  store' \in StoreType /\ (Live' => store'.addr # None)
<1>1. store \in StoreType /\ (Live => store.addr # None)
  BY DEF Typed
<1>2. CASE \E a \in Accounts : ~Live /\ store' = Connected(a)
  <2>1. PICK a \in Accounts : store' = Connected(a)
    BY <1>2
  <2>2. a # None /\ Connected(a) \in StoreType
    BY ConstantsAssumption DEF Connected, Store, StoreType, Typed
  <2> QED
    BY <2>1, <2>2 DEF Connected, Store
<1>3. CASE \E w \in AnswerType : store' = Hydrated(store, w)
  <2>1. PICK w \in AnswerType : store' = Hydrated(store, w)
    BY <1>3
  <2>2. PICK a : a \in Accounts
    BY <2>1 DEF AnswerType
  <2>3. store' \in StoreType
    BY <2>1, <2>2, StoreChanges
  <2> QED
    BY <1>1, <2>1, <2>3 DEF Hydrated, StoreType, Live
<1>4. CASE (Live /\ store' = Locked) \/ store' = Disconnected
  <2>1. Locked \in StoreType /\ Disconnected \in StoreType
    BY <1>1 DEF Locked, Disconnected, Store, StoreType
  <2>2. store'.mode = "disconnected"
    BY <1>4 DEF Locked, Disconnected, Store
  <2> QED
    BY <1>4, <2>1, <2>2 DEF Live
<1>5. CASE store' = IncrementNonce(store)
  BY <1>1, <1>5 DEF IncrementNonce, StoreType, Live
<1>6. CASE store' = MarkSettlementRefreshPending(store)
  BY <1>1, <1>6 DEF MarkSettlementRefreshPending, StoreType, Live
<1>7. CASE store' = store
  BY <1>1, <1>7 DEF Live
<1> QED
  BY <1>2, <1>3, <1>4, <1>5, <1>6, <1>7 DEF StoreGoes

LEMMA StepOfIsTyped ==
  ASSUME Typed, Fitting, NEW o \in Ops, StepOf(o)
  PROVE  Typed' /\ StoreGoes /\ Keeps(o)
<1>1. /\ store \in StoreType /\ op \in [Ops -> OpType] /\ job \in [Ops -> JobType]
      /\ ledger \in [Accounts -> AccountType] /\ kind \in [Ops -> Kinds]
      /\ wallet \in Accounts \cup {None} /\ quote \in {"none", "offered", "gone"}
  BY DEF Typed
<1> SUFFICES /\ op' \in [Ops -> OpType] /\ job' \in [Ops -> JobType]
             /\ ledger' \in [Accounts -> AccountType] /\ kind' = kind /\ wallet' = wallet
             /\ quote' = quote /\ StoreGoes /\ Keeps(o)
  BY <1>1, StoreStep DEF Typed
<1>2. CASE Connect(o)
  BY <1>1, <1>2, ConnectDoes DEF StoreGoes
<1>3. CASE InvokeSerialized(o)
  BY <1>1, <1>3, InvokeSerializedDoes DEF StoreGoes
<1>4. CASE InvokeDeposit(o)
  BY <1>1, <1>4, InvokeDepositDoes DEF StoreGoes
<1>5. CASE InvokeRefresh(o) \/ ReconcileOnLoad(o)
  BY <1>1, <1>5, InvokeRefreshDoes DEF StoreGoes
<1>6. CASE StartNext(o)
  BY <1>1, <1>6, StartNextDoes DEF StoreGoes
<1>7. CASE Post(o)
  BY <1>1, <1>7, PostDoes DEF StoreGoes
<1>8. CASE Apply(o)
  BY <1>1, <1>8, ApplyDoes DEF StoreGoes
<1>9. CASE Settled(o)
  BY <1>1, <1>9, SettledDoes DEF StoreGoes
<1>10. CASE JobFailed(o)
  BY <1>1, <1>10, JobFailedDoes DEF StoreGoes
<1>11. CASE Answer(o)
  <2>1. op[o].acct \in Accounts
    BY <1>11 DEF Answer, Fitting, Fits
  <2> QED
    BY <1>1, <1>11, <2>1, AnswerDoes DEF StoreGoes
<1>12. CASE OpenAccount(o)
  BY <1>1, <1>12, OpenAccountDoes DEF StoreGoes
<1>13. CASE Hydrate(o)
  BY <1>1, <1>13, HydrateDoes DEF StoreGoes
<1>14. CASE Fails(o) \/ Rejected(o)
  BY <1>1, <1>14, ThrowsDoes DEF StoreGoes
<1> QED
  BY <1>2, <1>3, <1>4, <1>5, <1>6, <1>7, <1>8, <1>9, <1>10, <1>11, <1>12, <1>13, <1>14
  DEF StepOf, Progress

LEMMA NextIsTyped ==
  ASSUME Typed, Fitting, Next
  PROVE  Typed'
<1>1. CASE StepBeside
  <2>1. /\ UNCHANGED <<queue, op, job, ledger, kind>>
        /\ wallet' \in Accounts \cup {None} /\ quote' \in {"none", "offered", "gone"}
    BY <1>1, BesideDoes
  <2>2. StoreGoes
    BY <1>1, BesideDoes DEF StoreGoes
  <2>3. store' \in StoreType /\ (Live' => store'.addr # None)
    BY <2>2, StoreStep
  <2> QED
    BY <2>1, <2>3 DEF Typed
<1>2. CASE Reload
  <2>1. /\ op' \in [Ops -> OpType] /\ quote' \in {"none", "offered", "gone"}
        /\ UNCHANGED <<store, wallet, job, ledger, kind>>
    BY <1>2, ReloadDoes
  <2> QED
    BY <2>1 DEF Typed, Live
<1>3. ASSUME NEW o \in Ops, StepOf(o) PROVE Typed'
  BY <1>3, StepOfIsTyped
<1> QED
  BY <1>1, <1>2, <1>3, NextCases

\* What the stage of an operation says of the rest of it stays true.
LEMMA FitsStep ==
  ASSUME Typed, Fitting, NEW o \in Ops, StepOf(o)
  PROVE  Fits(o)'
<1>1. Fits(o) /\ kind[o] \in Kinds /\ kind'[o] = kind[o]
  BY StepOfIsTyped DEF Fitting, Typed, Keeps
<1>2. (job[o].status = "none" \/ job[o].status = "posted") \/ job[o].status \in
      {"applied", "stale", "processed", "refused"}
  BY OpFields DEF Statuses
<1> USE KindFacts DEF Fits, Asks, Same
<1>3. CASE Connect(o)
  BY <1>1, <1>3, ConnectDoes
<1>4. CASE InvokeSerialized(o)
  BY <1>1, <1>4, InvokeSerializedDoes
<1>5. CASE InvokeDeposit(o)
  BY <1>1, <1>5, InvokeDepositDoes
<1>6. CASE InvokeRefresh(o) \/ ReconcileOnLoad(o)
  BY <1>1, <1>6, InvokeRefreshDoes
<1>7. CASE StartNext(o)
  BY <1>1, <1>7, StartNextDoes
<1>8. CASE Post(o)
  BY <1>1, <1>8, PostDoes
<1>9. CASE Apply(o)
  BY <1>1, <1>9, ApplyDoes, VerdictFacts
<1>10. CASE Settled(o)
  BY <1>1, <1>10, SettledDoes
<1>11. CASE JobFailed(o)
  BY <1>1, <1>11, JobFailedDoes
<1>12. CASE Answer(o)
  <2>1. op[o].acct \in Accounts
    BY <1>12 DEF Answer, Fitting
  <2> QED
    BY <1>1, <1>12, <2>1, AnswerDoes, ConstantsAssumption
<1>13. CASE OpenAccount(o)
  BY <1>1, <1>13, OpenAccountDoes
<1>14. CASE Hydrate(o)
  BY <1>1, <1>14, HydrateDoes
<1>15. CASE Fails(o) \/ Rejected(o)
  BY <1>1, <1>15, ThrowsDoes
<1> QED
  BY <1>3, <1>4, <1>5, <1>6, <1>7, <1>8, <1>9, <1>10, <1>11, <1>12, <1>13, <1>14, <1>15
  DEF StepOf, Progress

LEMMA FittingStep ==
  ASSUME Typed, Fitting, Next
  PROVE  Fitting'
<1>1. ASSUME NEW o \in Ops, StepOf(o), NEW p \in Ops PROVE Fits(p)'
  <2>1. CASE p = o
    BY <1>1, <2>1, FitsStep
  <2>2. CASE p # o
    <3>1. op'[p] = op[p] /\ job'[p] = job[p] /\ kind' = kind
      BY <1>1, <2>2, StepOfIsTyped DEF Keeps
    <3> QED
      BY <3>1 DEF Fitting, Fits, Asks
  <2> QED
    BY <2>1, <2>2
<1>2. CASE StepBeside
  BY <1>2, BesideDoes DEF Fitting, Fits, Asks
<1>3. CASE Reload
  BY <1>3, ReloadDoes, OpFields DEF Fitting, Fits, Asks, Started, Stages, Ended
<1> QED
  BY <1>1, <1>2, <1>3, NextCases DEF Fitting

\* The serialized operation that runs is the head of the queue.
Runs(o) == kind[o] \in Serialized /\ Started(o) /\ op[o].stage # "queued"

LEMMA RunsFirst ==
  ASSUME QueueOrder, NEW o \in Ops, Runs(o)
  PROVE  Len(queue) \in Nat /\ Len(queue) >= 1 /\ queue[1] = o /\ queue # <<>> /\ Head(queue) = o
<1>1. Len(queue) \in Nat /\ queue \in Seq(Ops)
  BY DEF QueueOrder
<1>2. PICK i \in 1..Len(queue) : queue[i] = o
  BY DEF QueueOrder, Runs
<1>3. i \notin 2..Len(queue)
  BY <1>2 DEF QueueOrder, Runs
<1>4. i = 1 /\ Len(queue) >= 1
  BY <1>1, <1>2, <1>3
<1>5. queue # <<>> /\ Head(queue) = queue[1]
  BY <1>1, <1>4
<1> QED
  BY <1>1, <1>2, <1>4, <1>5

LEMMA RunsAlone ==
  ASSUME QueueOrder, NEW o \in Ops, NEW p \in Ops, Runs(o), Runs(p)
  PROVE  o = p
BY RunsFirst

\* An operation starts beside the queue, or goes on at its head.
LEMMA QueueStays ==
  ASSUME QueueOrder, NEW o \in Ops, Keeps(o), queue' = queue,
         kind[o] \in Serialized => Started(o) /\ Started(o)',
         \A i \in 2..Len(queue) : queue[i] # o
  PROVE  QueueOrder'
<1>1. \A i \in 1..Len(queue) : queue[i] \in Ops /\ Started(queue[i]) /\ kind[queue[i]] \in Serialized
  BY DEF QueueOrder
<1>2. \A p \in Ops \ {o} : op'[p] = op[p] /\ kind' = kind
  BY DEF Keeps
<1>3. \A i \in 1..Len(queue) : Started(queue[i])' /\ kind'[queue[i]] \in Serialized
  <2> SUFFICES ASSUME NEW i \in 1..Len(queue)
               PROVE  Started(queue[i])' /\ kind'[queue[i]] \in Serialized
    OBVIOUS
  <2>1. CASE queue[i] = o
    BY <1>1, <2>1 DEF Keeps
  <2>2. CASE queue[i] # o
    BY <1>1, <1>2, <2>2 DEF Started
  <2> QED
    BY <2>1, <2>2
<1>4. \A i \in 2..Len(queue) : op'[queue[i]].stage = "queued"
  BY <1>1, <1>2 DEF QueueOrder
<1>5. \A p \in Ops : kind'[p] \in Serialized /\ Started(p)' => \E i \in 1..Len(queue) : queue[i] = p
  <2> SUFFICES ASSUME NEW p \in Ops, kind'[p] \in Serialized, Started(p)'
               PROVE  kind[p] \in Serialized /\ Started(p)
    BY DEF QueueOrder
  <2>1. CASE p = o
    BY <2>1 DEF Keeps
  <2>2. CASE p # o
    BY <1>2, <2>2 DEF Started
  <2> QED
    BY <2>1, <2>2
<1>6. queue \in Seq(Ops) /\ \A i, j \in 1..Len(queue) : queue[i] = queue[j] => i = j
  BY DEF QueueOrder
<1>7. PICK q : q = queue
  OBVIOUS
<1> QED
  BY <1>3, <1>4, <1>5, <1>6 DEF QueueOrder, Started

\* A task that ends leaves the queue.
LEMMA QueueEnds ==
  ASSUME QueueOrder, NEW o \in Ops, Keeps(o), Started(o), op[o].stage # "queued",
         op'[o].stage \in Ended,
         queue' = IF queue # <<>> /\ Head(queue) = o THEN Tail(queue) ELSE queue
  PROVE  QueueOrder'
<1>1. /\ \A i \in 1..Len(queue) : queue[i] \in Ops /\ Started(queue[i]) /\ kind[queue[i]] \in Serialized
      /\ queue \in Seq(Ops) /\ Len(queue) \in Nat
      /\ \A i, j \in 1..Len(queue) : queue[i] = queue[j] => i = j
      /\ \A i \in 2..Len(queue) : op[queue[i]].stage = "queued"
      /\ \A p \in Ops : kind[p] \in Serialized /\ Started(p)
           => \E i \in 1..Len(queue) : queue[i] = p
  BY DEF QueueOrder
<1>2. kind' = kind /\ \A p \in Ops \ {o} : op'[p] = op[p]
  BY DEF Keeps
<1>3. ~Started(o)'
  BY DEF Started
<1>4. CASE kind[o] \in Serialized
  <2>1. Len(queue) >= 1 /\ queue[1] = o /\ queue # <<>> /\ Head(queue) = o
    BY <1>4, RunsFirst DEF Runs
  <2>2. PICK t : t = Tail(queue)
    OBVIOUS
  <2>3. /\ queue' = t /\ t \in Seq(Ops) /\ Len(t) = Len(queue) - 1 /\ Len(t) \in Nat
        /\ \A i \in 1..Len(t) : t[i] = queue[i + 1]
    BY <1>1, <2>1, <2>2
  <2>4. \A i \in 1..Len(t) : i + 1 \in 2..Len(queue) /\ i + 1 \in 1..Len(queue) /\ queue[i + 1] # o
    BY <1>1, <2>1, <2>3
  <2>5. \A i \in 1..Len(t) : /\ t[i] \in Ops \ {o} /\ Started(t[i])' /\ kind'[t[i]] \in Serialized
                             /\ op'[t[i]].stage = "queued"
    <3> SUFFICES ASSUME NEW i \in 1..Len(t)
                 PROVE  /\ t[i] \in Ops \ {o} /\ Started(t[i])' /\ kind'[t[i]] \in Serialized
                        /\ op'[t[i]].stage = "queued"
      OBVIOUS
    <3>1. PICK p \in Ops \ {o} : p = t[i] /\ p = queue[i + 1]
      BY <1>1, <2>3, <2>4
    <3>2. Started(p) /\ kind[p] \in Serialized /\ op[p].stage = "queued"
      BY <1>1, <2>4, <3>1
    <3> QED
      BY <1>2, <3>1, <3>2 DEF Started
  <2>6. \A i, j \in 1..Len(t) : t[i] = t[j] => i = j
    BY <1>1, <2>3, <2>4
  <2>7. \A p \in Ops : kind'[p] \in Serialized /\ Started(p)' => \E i \in 1..Len(t) : t[i] = p
    <3> SUFFICES ASSUME NEW p \in Ops, kind'[p] \in Serialized, Started(p)'
                 PROVE  \E i \in 1..Len(t) : t[i] = p
      OBVIOUS
    <3>1. p # o /\ kind[p] \in Serialized /\ Started(p)
      BY <1>2, <1>3 DEF Started
    <3>2. PICK i \in 1..Len(queue) : queue[i] = p
      BY <1>1, <3>1
    <3>3. i # 1 /\ i - 1 \in 1..Len(t) /\ i - 1 + 1 = i
      BY <1>1, <2>1, <2>3, <3>1, <3>2
    <3>4. t[i - 1] = queue[i - 1 + 1]
      BY <2>3, <3>3
    <3> QED
      BY <3>2, <3>3, <3>4
  <2>8. /\ \A i \in 2..Len(t) : op'[t[i]].stage = "queued"
        /\ \A i \in 1..Len(t) : Started(t[i])' /\ kind'[t[i]] \in Serialized
    BY <2>3, <2>5
  <2>9. /\ queue' \in Seq(Ops)
        /\ \A i, j \in 1..Len(queue') : queue'[i] = queue'[j] => i = j
    BY <2>3, <2>6
  <2>10. /\ \A i \in 2..Len(queue') : op'[queue'[i]].stage = "queued"
         /\ \A i \in 1..Len(queue') : /\ op'[queue'[i]].stage \notin {"new"} \cup Ended
                                      /\ kind'[queue'[i]] \in Serialized
    BY <2>3, <2>8 DEF Started
  <2>11. \A p \in Ops : kind'[p] \in Serialized /\ op'[p].stage \notin {"new"} \cup Ended
                        => \E i \in 1..Len(queue') : queue'[i] = p
    BY <2>3, <2>7 DEF Started
  <2> QED
    BY <2>9, <2>10, <2>11 DEF QueueOrder, Started
<1>5. CASE kind[o] \notin Serialized
  <2>1. \A i \in 1..Len(queue) : queue[i] # o
    BY <1>1, <1>5
  <2>2. queue' = queue
    BY <1>1, <2>1
  <2> QED
    BY <1>1, <1>5, <2>1, <2>2, QueueStays
<1> QED
  BY <1>4, <1>5

\* A new task waits at the end.
LEMMA QueueGrows ==
  ASSUME QueueOrder, NEW o \in Ops, Keeps(o), op[o].stage = "new", op'[o].stage = "queued",
         kind[o] \in Serialized, queue' = Append(queue, o)
  PROVE  QueueOrder'
<1>1. /\ \A i \in 1..Len(queue) : queue[i] \in Ops /\ Started(queue[i]) /\ kind[queue[i]] \in Serialized
      /\ queue \in Seq(Ops) /\ Len(queue) \in Nat
      /\ \A i, j \in 1..Len(queue) : queue[i] = queue[j] => i = j
      /\ \A i \in 2..Len(queue) : op[queue[i]].stage = "queued"
      /\ \A p \in Ops : kind[p] \in Serialized /\ Started(p)
           => \E i \in 1..Len(queue) : queue[i] = p
  BY DEF QueueOrder
<1>2. kind' = kind /\ \A p \in Ops \ {o} : op'[p] = op[p]
  BY DEF Keeps
<1>3. PICK q : q = Append(queue, o)
  OBVIOUS
<1>4. PICK n \in Nat : n = Len(queue)
  BY <1>1
<1>5. /\ queue' = q /\ q \in Seq(Ops) /\ Len(q) = n + 1 /\ q[n + 1] = o
      /\ \A i \in 1..n : q[i] = queue[i]
  BY <1>1, <1>3, <1>4
<1>6. \A i \in 1..n : queue[i] # o
  BY <1>1, <1>4 DEF Started
<1>7. \A i \in 1..(n + 1) : i \in 1..n \/ i = n + 1
  BY <1>4
<1>8. Started(o)' /\ kind'[o] \in Serialized
  BY <1>2 DEF Started, Ended
<1>9. \A i \in 1..(n + 1) : Started(q[i])' /\ kind'[q[i]] \in Serialized
  <2> SUFFICES ASSUME NEW i \in 1..(n + 1) PROVE Started(q[i])' /\ kind'[q[i]] \in Serialized
    OBVIOUS
  <2>1. CASE i \in 1..n
    <3>1. PICK p \in Ops \ {o} : p = q[i] /\ Started(p) /\ kind[p] \in Serialized
      BY <1>1, <1>4, <1>5, <1>6, <2>1
    <3> QED
      BY <1>2, <3>1 DEF Started
  <2>2. CASE i = n + 1
    BY <1>5, <1>8, <2>2
  <2> QED
    BY <1>7, <2>1, <2>2
<1>10. \A i \in 2..(n + 1) : op'[q[i]].stage = "queued"
  <2> SUFFICES ASSUME NEW i \in 2..(n + 1) PROVE op'[q[i]].stage = "queued"
    OBVIOUS
  <2>1. CASE i \in 2..n
    <3>1. i \in 1..n /\ q[i] = queue[i] /\ queue[i] \in Ops \ {o} /\ op[queue[i]].stage = "queued"
      BY <1>1, <1>4, <1>5, <1>6, <2>1
    <3> QED
      BY <1>2, <3>1
  <2>2. CASE i = n + 1
    BY <1>5, <2>2
  <2> QED
    BY <2>1, <2>2
<1>11. \A i, j \in 1..(n + 1) : q[i] = q[j] => i = j
  BY <1>1, <1>4, <1>5, <1>6, <1>7
<1>12. \A p \in Ops : kind'[p] \in Serialized /\ Started(p)' => \E i \in 1..(n + 1) : q[i] = p
  <2> SUFFICES ASSUME NEW p \in Ops \ {o}, kind'[p] \in Serialized, Started(p)'
               PROVE  \E i \in 1..(n + 1) : q[i] = p
    BY <1>4, <1>5
  <2>1. PICK i \in 1..n : queue[i] = p
    BY <1>1, <1>2, <1>4 DEF Started
  <2> QED
    BY <1>4, <1>5, <2>1
<1> QED
  BY <1>5, <1>9, <1>10, <1>11, <1>12 DEF QueueOrder, Started

LEMMA QueueStep ==
  ASSUME Typed, Fitting, QueueOrder, NEW o \in Ops, StepOf(o)
  PROVE  QueueOrder'
<1>1. Keeps(o) /\ \A i \in 1..Len(queue) : Started(queue[i]) /\ kind[queue[i]] \in Serialized
  BY StepOfIsTyped DEF QueueOrder
<1>2. Len(queue) \in Nat
  BY DEF QueueOrder
<1>3. ASSUME queue' = queue, ~Started(o), kind[o] \notin Serialized PROVE QueueOrder'
  <2>1. \A i \in 2..Len(queue) : queue[i] # o
    BY <1>1, <1>2, <1>3
  <2> QED
    BY <1>1, <1>3, <2>1, QueueStays
<1>4. ASSUME queue' = queue, Started(o), Started(o)', op[o].stage # "queued" PROVE QueueOrder'
  <2>1. \A i \in 2..Len(queue) : queue[i] # o
    BY <1>4 DEF QueueOrder
  <2> QED
    BY <1>1, <1>4, <2>1, QueueStays
<1>5. ASSUME NEW s \in Ended, Ends(o, s), Started(o), op[o].stage # "queued" PROVE QueueOrder'
  <2>1. s \in Stages
    BY DEF Stages, Ended
  <2>2. op'[o].stage = s /\ queue' = IF queue # <<>> /\ Head(queue) = o THEN Tail(queue) ELSE queue
    BY <1>5, <2>1, EndsDoes
  <2> QED
    BY <1>1, <1>5, <2>2, QueueEnds
<1>6. "failed" \in Ended /\ "done" \in Ended
  BY DEF Ended
<1>7. CASE Connect(o)
  <2>1. queue' = queue /\ op[o].stage = "new" /\ kind[o] = "CONNECT"
    BY <1>7, ConnectDoes
  <2> QED
    BY <1>3, <2>1, KindFacts DEF Started
<1>8. CASE InvokeSerialized(o)
  <2>1. /\ op[o].stage = "new" /\ op'[o].stage = "queued" /\ kind[o] \in Serialized
        /\ queue' = Append(queue, o)
    BY <1>8, InvokeSerializedDoes
  <2> QED
    BY <1>1, <2>1, QueueGrows
<1>9. CASE InvokeDeposit(o) \/ InvokeRefresh(o) \/ ReconcileOnLoad(o)
  <2>1. /\ queue' = queue /\ op[o].stage = "new"
        /\ kind[o] \in {"DEPOSIT", "REFRESH", "RECONCILE"}
    BY <1>9, InvokeDepositDoes, InvokeRefreshDoes
  <2> QED
    BY <1>3, <2>1, KindFacts DEF Started
<1>10. CASE StartNext(o)
  <2>1. /\ queue' = queue /\ op[o].stage = "queued" /\ Head(queue) = o
        /\ op'[o].stage \in {"query", "prompt"}
    BY <1>10, StartNextDoes
  <2>2. Started(o) /\ Started(o)' /\ kind[o] \in Serialized
    BY <2>1 DEF Started, Ended, Fitting, Fits
  <2>3. \A i \in 2..Len(queue) : queue[i] # o
    <3>1. PICK n \in 1..Len(queue) : queue[n] = o
      BY <2>2 DEF QueueOrder
    <3>2. queue[1] = o /\ 1 \in 1..Len(queue) /\ queue \in Seq(Ops)
      BY <1>2, <2>1, <3>1 DEF QueueOrder
    <3>3. \A j, k \in 1..Len(queue) : queue[j] = queue[k] => j = k
      BY DEF QueueOrder
    <3> QED
      BY <1>2, <3>2, <3>3
  <2> QED
    BY <1>1, <2>1, <2>2, <2>3, QueueStays
<1>11. CASE Post(o) \/ Settled(o) \/ OpenAccount(o)
  <2>1. /\ queue' = queue /\ op[o].stage \in {"prompt", "job", "query"}
        /\ op'[o].stage \in {"prompt", "job", "query"}
    BY <1>11, PostDoes, SettledDoes, OpenAccountDoes
  <2> QED
    BY <1>4, <2>1 DEF Started, Ended
<1>12. CASE Apply(o)
  <2>1. queue' = queue /\ op' = op /\ kind' = kind
    BY <1>12, ApplyDoes
  <2> QED
    BY <2>1 DEF QueueOrder, Started
<1>13. CASE Answer(o)
  <2>1. op[o].acct \in Accounts /\ op[o].stage = "query"
    BY <1>13 DEF Answer, Fitting, Fits
  <2>2. queue' = queue /\ op'[o].stage = "answered"
    BY <1>13, <2>1, AnswerDoes
  <2> QED
    BY <1>4, <2>1, <2>2 DEF Started, Ended
<1>14. CASE JobFailed(o)
  <2>1. /\ op[o].stage = "job"
        /\ (queue' = queue /\ op'[o].stage = "query") \/ Ends(o, "failed")
    BY <1>14, JobFailedDoes
  <2> QED
    BY <1>4, <1>5, <1>6, <2>1 DEF Started, Ended
<1>15. CASE Hydrate(o)
  <2>1. /\ op[o].stage = "answered"
        /\ (queue' = queue /\ op'[o].stage = "prompt") \/ Ends(o, "failed") \/ Ends(o, "done")
    BY <1>15, HydrateDoes
  <2> QED
    BY <1>4, <1>5, <1>6, <2>1 DEF Started, Ended
<1>16. CASE Fails(o) \/ Rejected(o)
  <2>1. /\ op[o].stage \in {"prompt", "job", "query", "answered"}
        /\ Ends(o, "failed") \/ Ends(o, "done")
    BY <1>16, ThrowsDoes
  <2> QED
    BY <1>5, <1>6, <2>1 DEF Started, Ended
<1> QED
  BY <1>7, <1>8, <1>9, <1>10, <1>11, <1>12, <1>13, <1>14, <1>15, <1>16 DEF StepOf, Progress

LEMMA NextKeepsQueue ==
  ASSUME Typed, Fitting, QueueOrder, Next
  PROVE  QueueOrder'
<1>1. CASE StepBeside
  <2>1. queue' = queue /\ op' = op /\ kind' = kind
    BY <1>1, BesideDoes
  <2> QED
    BY <2>1 DEF QueueOrder, Started
<1>2. CASE Reload
  <2>1. queue' = <<>> /\ \A o \in Ops : ~Started(o)'
    BY <1>2, ReloadDoes DEF Started, Ended
  <2> QED
    BY <2>1 DEF QueueOrder
<1> QED
  BY <1>1, <1>2, QueueStep, NextCases

\* A borrow is applied once, and goes on only if one was.
LEMMA PaidStep ==
  ASSUME Typed, Fitting, PaidOnce, Settling, NEW o \in Ops, StepOf(o)
  PROVE  PaidOnce' /\ Settling'
<1>1. Keeps(o) /\ Fits(o)
  BY StepOfIsTyped DEF Fitting
<1>2. ASSUME op'[o].acct = op[o].acct \/ op[o].stage = "new", job' = job,
             kind[o] = "BORROW_ACCEPT" /\ op'[o].stage \in {"query", "answered", "done"}
             => ConfirmedBorrow(op[o].acct) /\ op[o].stage # "new"
      PROVE  PaidOnce' /\ Settling'
  <2>1. ASSUME NEW p \in Ops, job[p].status # "none" PROVE op'[p].acct = op[p].acct
    BY <1>1, <1>2, <2>1 DEF Keeps, Fits
  <2>2. ASSUME NEW a, ConfirmedBorrow(a) PROVE ConfirmedBorrow(a)'
    BY <1>1, <1>2, <2>1, <2>2 DEF ConfirmedBorrow, Keeps
  <2>3. PaidOnce'
    BY <1>1, <1>2, <2>1 DEF PaidOnce, Keeps
  <2>4. ASSUME NEW p \in Ops, kind'[p] = "BORROW_ACCEPT",
               \/ job'[p].status \in {"applied", "processed"}
               \/ op'[p].stage \in {"query", "answered", "done"}
        PROVE  ConfirmedBorrow(op[p].acct)'
    <3>1. CASE p # o
      BY <1>1, <1>2, <2>2, <2>4, <3>1 DEF Settling, Keeps
    <3>2. CASE p = o /\ job[p].status \in {"applied", "processed"}
      BY <1>1, <1>2, <2>1, <2>2, <2>4, <3>2 DEF Settling, Keeps
    <3>3. CASE p = o /\ job[p].status \notin {"applied", "processed"}
      BY <1>1, <1>2, <2>2, <2>4, <3>3 DEF Keeps
    <3> QED
      BY <3>1, <3>2, <3>3
  <2> QED
    BY <2>3, <2>4 DEF Settling, ConfirmedBorrow
<1> USE KindFacts DEF Same
<1>3. CASE Connect(o)
  BY <1>2, <1>3, ConnectDoes
<1>4. CASE InvokeSerialized(o)
  BY <1>2, <1>4, InvokeSerializedDoes
<1>5. CASE InvokeDeposit(o)
  BY <1>2, <1>5, InvokeDepositDoes
<1>6. CASE InvokeRefresh(o) \/ ReconcileOnLoad(o)
  BY <1>2, <1>6, InvokeRefreshDoes
<1>7. CASE StartNext(o)
  BY <1>2, <1>7, StartNextDoes
<1>8. CASE Settled(o)
  BY <1>2, <1>8, SettledDoes DEF Settling
<1>9. CASE JobFailed(o)
  BY <1>2, <1>9, JobFailedDoes DEF Settling
<1>10. CASE Answer(o)
  <2>1. op[o].acct \in Accounts
    BY <1>1, <1>10 DEF Answer, Fits
  <2> QED
    BY <1>2, <1>10, <2>1, AnswerDoes DEF Settling
<1>11. CASE OpenAccount(o)
  BY <1>2, <1>11, OpenAccountDoes
<1>12. CASE Hydrate(o)
  BY <1>2, <1>12, HydrateDoes DEF Settling
<1>13. CASE Fails(o) \/ Rejected(o)
  BY <1>2, <1>13, ThrowsDoes DEF Settling
<1>14. CASE Post(o)
  <2>1. /\ op'[o].acct = op[o].acct /\ op'[o].stage = "job" /\ job'[o].status = "posted"
        /\ job[o].status = "none" /\ kind' = kind
    BY <1>1, <1>14, PostDoes DEF Fits
  <2>2. ASSUME NEW p \in Ops, job'[p].status \in {"applied", "processed"}
        PROVE  job'[p] = job[p] /\ op'[p] = op[p] /\ p # o
    BY <1>1, <2>1, <2>2 DEF Keeps
  <2>3. ASSUME NEW p \in Ops, job[p].status = "applied"
        PROVE  job'[p] = job[p] /\ op'[p] = op[p]
    BY <1>1, <2>1, <2>3 DEF Keeps
  <2>4. ASSUME NEW a, ConfirmedBorrow(a) PROVE ConfirmedBorrow(a)'
    BY <2>1, <2>3, <2>4 DEF ConfirmedBorrow
  <2>5. PaidOnce'
    BY <2>1, <2>2 DEF PaidOnce
  <2>6. ASSUME NEW p \in Ops, kind'[p] = "BORROW_ACCEPT",
               \/ job'[p].status \in {"applied", "processed"}
               \/ op'[p].stage \in {"query", "answered", "done"}
        PROVE  ConfirmedBorrow(op[p].acct)'
    <3>1. p # o
      BY <2>1, <2>6
    <3>2. job'[p] = job[p] /\ op'[p] = op[p]
      BY <1>1, <3>1 DEF Keeps
    <3> QED
      BY <2>1, <2>4, <2>6, <3>2 DEF Settling
  <2> QED
    BY <2>5, <2>6 DEF Settling, ConfirmedBorrow
<1>15. CASE Apply(o)
  <2>1. /\ op' = op /\ kind' = kind /\ job'[o].status = Verdict(o) /\ job[o].status = "posted"
    BY <1>15, ApplyDoes
  <2>2. ASSUME NEW p \in Ops, job[p].status # "posted" PROVE job'[p] = job[p] /\ p # o
    BY <1>1, <2>1, <2>2 DEF Keeps
  <2>3. ASSUME NEW a, ConfirmedBorrow(a) PROVE ConfirmedBorrow(a)'
    BY <2>1, <2>2, <2>3 DEF ConfirmedBorrow
  <2>4. ASSUME kind[o] = "BORROW_ACCEPT", Verdict(o) = "applied"
        PROVE  ~ConfirmedBorrow(op[o].acct)
    BY <1>1, <2>4, VerdictFacts DEF Fits
  <2>5. PaidOnce'
    <3> SUFFICES ASSUME NEW p \in Ops, NEW q \in Ops, kind[p] = "BORROW_ACCEPT",
                        kind[q] = "BORROW_ACCEPT", op[p].acct = op[q].acct,
                        job'[p].status = "applied", job'[q].status = "applied"
                 PROVE  p = q
      BY <2>1 DEF PaidOnce
    <3>1. \A r \in Ops \ {o} : job'[r] = job[r]
      BY <1>1 DEF Keeps
    <3>2. CASE p = o /\ q # o
      BY <2>1, <2>4, <3>1, <3>2 DEF ConfirmedBorrow
    <3>3. CASE p # o /\ q = o
      BY <2>1, <2>4, <3>1, <3>3 DEF ConfirmedBorrow
    <3>4. CASE p # o /\ q # o
      BY <3>1, <3>4 DEF PaidOnce
    <3> QED
      BY <3>2, <3>3, <3>4
  <2>6. ASSUME NEW p \in Ops, kind'[p] = "BORROW_ACCEPT",
               \/ job'[p].status \in {"applied", "processed"}
               \/ op'[p].stage \in {"query", "answered", "done"}
        PROVE  ConfirmedBorrow(op[p].acct)'
    <3>1. CASE p # o
      BY <1>1, <2>1, <2>3, <2>6, <3>1 DEF Keeps, Settling
    <3>2. CASE p = o /\ Verdict(o) = "applied"
      BY <2>1, <2>6, <3>2 DEF ConfirmedBorrow
    <3>3. CASE p = o /\ Verdict(o) = "processed"
      BY <2>1, <2>3, <2>6, <3>3, VerdictFacts
    <3>4. CASE p = o /\ Verdict(o) \notin {"applied", "processed"}
      BY <1>1, <2>1, <2>6, <3>4 DEF Fits
    <3> QED
      BY <3>1, <3>2, <3>3, <3>4
  <2> QED
    BY <2>5, <2>6 DEF Settling, ConfirmedBorrow
<1> QED
  BY <1>3, <1>4, <1>5, <1>6, <1>7, <1>8, <1>9, <1>10, <1>11, <1>12, <1>13, <1>14, <1>15
  DEF StepOf, Progress

LEMMA NextPaysOnce ==
  ASSUME Typed, Fitting, PaidOnce, Settling, Next
  PROVE  PaidOnce' /\ Settling'
<1>1. CASE StepBeside
  <2>1. op' = op /\ job' = job /\ kind' = kind
    BY <1>1, BesideDoes
  <2> QED
    BY <2>1 DEF PaidOnce, Settling, ConfirmedBorrow
<1>2. CASE Reload
  <2>1. /\ job' = job /\ kind' = kind
        /\ \A o \in Ops : /\ op'[o].acct = op[o].acct
                          /\ op'[o].stage \in {op[o].stage, "gone"}
    BY <1>2, ReloadDoes
  <2>2. ASSUME NEW a, ConfirmedBorrow(a) PROVE ConfirmedBorrow(a)'
    BY <2>1, <2>2 DEF ConfirmedBorrow
  <2> QED
    BY <2>1, <2>2 DEF PaidOnce, Settling, ConfirmedBorrow
<1> QED
  BY <1>1, <1>2, PaidStep, NextCases

-----------------------------------------------------------------------------
(***************************************************************************)
(* What was seen of an account, and the nonce                              *)
(***************************************************************************)
LEMMA LedgerGrows ==
  ASSUME Typed, Fitting, Next
  PROVE  \A a \in Accounts : /\ ledger[a].version \in Nat /\ ledger[a].nonce \in Nat
                             /\ ledger'[a].version >= ledger[a].version
                             /\ ledger'[a].nonce >= ledger[a].nonce
<1>1. \A a \in Accounts : ledger[a].version \in Nat /\ ledger[a].nonce \in Nat
  BY DEF Typed, AccountType
<1>2. CASE ledger' = ledger
  BY <1>1, <1>2
<1>3. ASSUME NEW o \in Ops, Apply(o)
      PROVE  \A a \in Accounts : /\ ledger'[a].version >= ledger[a].version
                                 /\ ledger'[a].nonce >= ledger[a].nonce
  BY <1>1, <1>3, ApplyDoes
<1>4. ASSUME NEW o \in Ops, StepOf(o), ~Apply(o) PROVE ledger' = ledger
  BY <1>4 DEF StepOf, Progress, Connect, InvokeSerialized, InvokeDeposit, InvokeRefresh,
              ReconcileOnLoad, StartNext, Post, Settled, JobFailed, Answer, OpenAccount, Hydrate,
              Fails, Rejected
<1> QED
  BY <1>1, <1>2, <1>3, <1>4, NextCases, BesideDoes, ReloadDoes

\* An answer was there before, or is read now.
LEMMA AnsweredBefore ==
  ASSUME Typed, Fitting, NEW o \in Ops, StepOf(o), NEW p \in Ops, op'[p].stage = "answered"
  PROVE  \/ op[p].stage = "answered" /\ op'[p] = op[p]
         \/ p = o /\ Answer(o)
<1>1. CASE p # o
  BY <1>1, StepOfIsTyped DEF Keeps
<1>2. CASE p = o /\ ~Answer(o)
  <2>1. op' = op \/ op'[o].stage # "answered"
    BY <1>2, ConnectDoes, InvokeSerializedDoes, InvokeDepositDoes, InvokeRefreshDoes,
       StartNextDoes, PostDoes, ApplyDoes, SettledDoes, JobFailedDoes, OpenAccountDoes, HydrateDoes,
       ThrowsDoes DEF StepOf, Progress
  <2> QED
    BY <1>2, <2>1
<1> QED
  BY <1>1, <1>2

\* A job was applied before, or is now; its operation keeps its account.
LEMMA AppliedBefore ==
  ASSUME Typed, Fitting, NEW o \in Ops, StepOf(o), NEW p \in Ops, job'[p].status = "applied"
  PROVE  /\ \/ job[p].status = "applied" /\ job'[p] = job[p]
            \/ p = o /\ Apply(o)
         /\ op'[p].acct = op[p].acct
<1>1. CASE p # o
  BY <1>1, StepOfIsTyped DEF Keeps
<1>2. CASE p = o /\ ~Apply(o)
  <2>1. job' = job \/ job'[o].status # "applied"
    BY <1>2, ConnectDoes, InvokeSerializedDoes, InvokeDepositDoes, InvokeRefreshDoes,
       StartNextDoes, PostDoes, SettledDoes, JobFailedDoes, OpenAccountDoes, HydrateDoes,
       ThrowsDoes DEF StepOf, Progress, Answer
  <2>2. op[o].stage # "new"
    BY <1>2, <2>1 DEF Fitting, Fits
  <2>3. CASE Answer(o)
    BY <1>2, <2>1, <2>3, AnswerDoes DEF Fitting, Fits, Same
  <2>4. CASE ~Answer(o)
    BY <1>2, <2>1, <2>2, <2>4, ConnectDoes, InvokeSerializedDoes, InvokeDepositDoes,
       InvokeRefreshDoes,
       StartNextDoes, PostDoes, SettledDoes, JobFailedDoes, OpenAccountDoes, HydrateDoes,
       ThrowsDoes DEF StepOf, Progress, Same
  <2> QED
    BY <1>2, <2>1, <2>3, <2>4
<1>3. CASE p = o /\ Apply(o)
  BY <1>3, ApplyDoes
<1> QED
  BY <1>1, <1>2, <1>3

LEMMA NotNewerStep ==
  ASSUME Typed, Fitting, NotNewer, Next
  PROVE  NotNewer'
<1>1. \A p \in Ops : op[p].stage # "new" => op[p].acct \in Accounts
  BY DEF Fitting, Fits
<1>2. \A p \in Ops : job[p].status = "applied" => op[p].acct \in Accounts
  BY <1>1 DEF Fitting, Fits
<1>3. ASSUME NEW o \in Ops, StepOf(o), NEW p \in Ops, job'[p].status = "applied"
      PROVE  job'[p].version <= ledger'[op'[p].acct].version
  <2>1. CASE job[p].status = "applied" /\ job'[p] = job[p] /\ op'[p].acct = op[p].acct
    <3>1. job[p].version <= ledger[op[p].acct].version /\ job[p].version \in Nat
      BY <2>1, OpFields DEF NotNewer
    <3>2. PICK a \in Accounts : a = op[p].acct
      BY <1>2, <2>1
    <3>3. ledger'[a].version >= ledger[a].version /\ ledger[a].version \in Nat
          /\ ledger'[a].version \in Nat
      BY LedgerGrows, NextIsTyped DEF Typed, AccountType
    <3> QED
      BY <2>1, <3>1, <3>2, <3>3
  <2>2. CASE p = o /\ Apply(o)
    <3>1. job'[p].version = ledger'[op[p].acct].version /\ op'[p].acct = op[p].acct
      BY <2>2, ApplyDoes
    <3>2. job'[p].version \in Nat
      BY NextIsTyped DEF Typed, JobType
    <3> QED
      BY <3>1, <3>2
  <2> QED
    BY <1>3, <2>1, <2>2, AppliedBefore
<1>4. ASSUME NEW o \in Ops, StepOf(o), NEW p \in Ops, op'[p].stage = "answered"
      PROVE  /\ op'[p].answer.version <= ledger'[op'[p].acct].version
             /\ op'[p].answer.nonce <= ledger'[op'[p].acct].nonce
  <2>1. CASE op[p].stage = "answered" /\ op'[p] = op[p]
    <3>1. /\ op[p].answer.version <= ledger[op[p].acct].version
          /\ op[p].answer.nonce <= ledger[op[p].acct].nonce
      BY <2>1 DEF NotNewer
    <3>2. op[p].answer.version \in Nat /\ op[p].answer.nonce \in Nat
      BY <2>1 DEF Fitting, Fits, AnswerType
    <3>3. PICK a \in Accounts : a = op[p].acct
      BY <1>1, <2>1
    <3>4. /\ ledger'[a].version >= ledger[a].version /\ ledger[a].version \in Nat
          /\ ledger'[a].nonce >= ledger[a].nonce /\ ledger[a].nonce \in Nat
          /\ ledger'[a].version \in Nat /\ ledger'[a].nonce \in Nat
      BY LedgerGrows, NextIsTyped DEF Typed, AccountType
    <3> QED
      BY <2>1, <3>1, <3>2, <3>3, <3>4
  <2>2. CASE p = o /\ Answer(o)
    <3>1. op[p].acct \in Accounts
      BY <1>1, <2>2 DEF Answer
    <3>2. /\ op'[p].answer.version = ledger'[op'[p].acct].version
          /\ op'[p].answer.nonce = ledger'[op'[p].acct].nonce /\ op'[p].acct \in Accounts
      BY <2>2, <3>1, AnswerDoes DEF Same
    <3>3. ledger'[op'[p].acct].version \in Nat /\ ledger'[op'[p].acct].nonce \in Nat
      BY <3>2, NextIsTyped DEF Typed, AccountType
    <3> QED
      BY <3>2, <3>3
  <2> QED
    BY <1>4, <2>1, <2>2, AnsweredBefore
<1>5. CASE StepBeside
  <2>1. op' = op /\ job' = job /\ ledger' = ledger
    BY <1>5, BesideDoes
  <2> QED
    BY <2>1 DEF NotNewer
<1>6. CASE Reload
  <2>1. /\ job' = job /\ ledger' = ledger
        /\ \A p \in Ops : op'[p].acct = op[p].acct /\ op'[p].stage # "answered"
    BY <1>6, ReloadDoes DEF Started, Ended
  <2> QED
    BY <2>1 DEF NotNewer
<1> QED
  BY <1>3, <1>4, <1>5, <1>6, NextCases DEF NotNewer

\* A step that leaves the store alone, and does not quiet the operation it is about.
LEMMA NotAheadKept ==
  ASSUME Typed, Fitting, NonceNotAhead, NEW o \in Ops, StepOf(o), store' = store,
         Quiet(o)' => Quiet(o), op[o].stage = "new" \/ op'[o].acct = op[o].acct
  PROVE  NonceNotAhead'
<1> SUFFICES ASSUME Live', OneAccount', ~store'.flag, \A p \in Ops : Quiet(p)'
             PROVE  store'.nonce <= ledger'[store'.addr].nonce
  BY DEF NonceNotAhead
<1>1. Keeps(o) /\ Next
  BY StepOfIsTyped, NextCases
<1>2. \A p \in Ops : Quiet(p)
  <2> SUFFICES ASSUME NEW p \in Ops PROVE Quiet(p)
    OBVIOUS
  <2>1. Quiet(p)'
    OBVIOUS
  <2>2. CASE p = o
    BY <2>1, <2>2
  <2>3. CASE p # o
    BY <1>1, <2>1, <2>3 DEF Quiet, Mutating, Refreshing, Keeps
  <2> QED
    BY <2>2, <2>3
<1>3. OneAccount
  <2> SUFFICES ASSUME NEW p \in Ops PROVE op[p].acct \in {None, store.addr}
    BY DEF OneAccount
  <2>1. op'[p].acct \in {None, store'.addr}
    BY DEF OneAccount
  <2>2. op[p].stage = "new" => op[p].acct = None
    BY DEF Fitting, Fits
  <2> QED
    BY <1>1, <2>1, <2>2 DEF Keeps
<1>4. Live /\ store.addr \in Accounts /\ ~store.flag /\ store.nonce \in Nat
  BY DEF Live, Typed, StoreType
<1>5. store.nonce <= ledger[store.addr].nonce
  BY <1>2, <1>3, <1>4 DEF NonceNotAhead
<1>6. PICK a \in Accounts : a = store.addr
  BY <1>4
<1>7. ledger'[a].nonce >= ledger[a].nonce /\ ledger[a].nonce \in Nat /\ ledger'[a].nonce \in Nat
  BY <1>1, LedgerGrows, NextIsTyped DEF Typed, AccountType
<1> QED
  BY <1>4, <1>5, <1>6, <1>7

LEMMA NotAheadStep ==
  ASSUME Typed, Fitting, NotNewer, NonceNotAhead, NEW o \in Ops, StepOf(o)
  PROVE  NonceNotAhead'
<1>1. Keeps(o) /\ Typed' /\ Next /\ Fits(o)
  BY StepOfIsTyped, NextCases DEF Fitting
<1>2. kind'[o] = kind[o] /\ (kind[o] \in Mutations <=> kind'[o] \in Mutations)
  BY <1>1 DEF Keeps
<1>3. ASSUME ~Quiet(o)' PROVE NonceNotAhead'
  BY <1>3 DEF NonceNotAhead
<1> USE DEF Quiet, Mutating, Refreshing, Same
<1>4. CASE Connect(o)
  <2>1. PICK a \in Accounts : store' = Connected(a)
    BY <1>4, ConnectDoes
  <2>2. store'.nonce = 0 /\ store'.addr = a
    BY <2>1 DEF Connected, Store
  <2>3. ledger'[a].nonce \in Nat
    BY <1>1 DEF Typed, AccountType
  <2> QED
    BY <2>2, <2>3 DEF NonceNotAhead
<1>5. CASE InvokeSerialized(o)
  <2>1. /\ op[o].stage = "new" /\ op'[o].creates = op[o].creates /\ store' = store
        /\ op'[o].stage # "done"
    BY <1>5, InvokeSerializedDoes
  <2> QED
    BY <1>1, <1>2, <2>1, NotAheadKept
<1>6. CASE InvokeDeposit(o)
  <2>1. /\ op[o].stage = "new" /\ op'[o].creates = op[o].creates /\ store' = store
        /\ op'[o].stage # "done"
    BY <1>6, InvokeDepositDoes
  <2> QED
    BY <1>1, <1>2, <2>1, NotAheadKept
<1>7. CASE InvokeRefresh(o) \/ ReconcileOnLoad(o)
  <2>1. /\ op[o].stage = "new" /\ op'[o].creates = op[o].creates /\ store' = store
        /\ op'[o].stage # "done"
    BY <1>7, InvokeRefreshDoes
  <2> QED
    BY <1>1, <1>2, <2>1, NotAheadKept
<1>8. CASE StartNext(o) \/ Post(o)
  <2>1. /\ op[o].stage \in {"queued", "prompt"} /\ op'[o].creates = op[o].creates
        /\ op'[o].stage # "done" /\ op'[o].acct = op[o].acct /\ store' = store
    BY <1>8, StartNextDoes, PostDoes
  <2> QED
    BY <1>1, <1>2, <2>1, NotAheadKept
<1>9. CASE Apply(o)
  <2>1. op' = op /\ store' = store /\ kind' = kind
    BY <1>9, ApplyDoes
  <2> QED
    BY <2>1, NotAheadKept
<1>10. CASE Settled(o)
  <2>1. /\ op[o].stage = "job" /\ op'[o].stage = "query" /\ op'[o].creates = op[o].creates
        /\ ~op[o].creates => op'[o].purpose = "settled"
    BY <1>10, SettledDoes
  <2>2. kind[o] \in Mutations \/ op[o].creates
    BY <1>1, <2>1 DEF Fits
  <2> QED
    BY <1>2, <1>3, <2>1, <2>2
<1>11. CASE JobFailed(o)
  <2>1. /\ op[o].stage = "job" /\ op'[o].stage \in {"query", "failed"}
        /\ op'[o].creates = op[o].creates /\ op'[o].acct = op[o].acct /\ store' = store
    BY <1>11, JobFailedDoes
  <2> QED
    BY <1>1, <1>2, <2>1, NotAheadKept
<1>12. CASE Answer(o)
  <2>1. op[o].stage = "query" /\ op[o].acct \in Accounts
    BY <1>1, <1>12 DEF Answer, Fits
  <2>2. /\ op'[o].stage = "answered" /\ op'[o].purpose = op[o].purpose
        /\ op'[o].creates = op[o].creates /\ op'[o].acct = op[o].acct /\ store' = store
    BY <1>12, <2>1, AnswerDoes
  <2> QED
    BY <1>1, <1>2, <2>1, <2>2, NotAheadKept
<1>13. CASE OpenAccount(o)
  <2>1. op'[o].creates /\ op'[o].stage = "prompt"
    BY <1>13, OpenAccountDoes
  <2> QED
    BY <1>3, <2>1
<1>14. CASE Hydrate(o)
  <2>1. PICK w \in AnswerType : /\ w = op[o].answer /\ w.owner = op[o].acct
                                /\ store' = Hydrated(store, w)
    BY <1>14, HydrateDoes
  <2>2. op'[o].acct = op[o].acct /\ op[o].stage = "answered" /\ ledger' = ledger
    BY <1>14, HydrateDoes
  <2>3. op[o].acct \in Accounts /\ w.nonce <= ledger[op[o].acct].nonce
    BY <1>1, <2>1, <2>2 DEF Fits, NotNewer
  <2>4. store'.nonce = w.nonce /\ store'.addr = store.addr
    BY <2>1 DEF Hydrated, Typed, StoreType
  <2>5. OneAccount' => op'[o].acct = store'.addr
    BY <2>2, <2>3, ConstantsAssumption DEF OneAccount
  <2> QED
    BY <2>2, <2>3, <2>4, <2>5 DEF NonceNotAhead
<1>15. CASE Fails(o) \/ Rejected(o)
  <2>1. op'[o].creates = op[o].creates /\ op'[o].acct = op[o].acct
    BY <1>15, ThrowsDoes
  <2>2. CASE store' = MarkSettlementRefreshPending(store)
    <3>1. store'.flag = TRUE
      BY <2>2 DEF MarkSettlementRefreshPending, Typed, StoreType
    <3> QED
      BY <3>1 DEF NonceNotAhead
  <2>3. CASE store' = store /\ op'[o].stage = "failed" /\ op[o].stage # "gone"
             /\ ~(op[o].stage \in {"query", "answered"} /\ op[o].purpose = "settled")
    BY <1>1, <1>2, <2>1, <2>3, NotAheadKept
  <2>4. ASSUME op[o].stage \in {"query", "answered"}, op[o].purpose = "settled"
        PROVE  store' = MarkSettlementRefreshPending(store)
    BY <1>15, <2>4 DEF Fails, Rejected, Throws
  <2> QED
    BY <1>15, <2>2, <2>3, <2>4, ThrowsDoes
<1> QED
  BY <1>4, <1>5, <1>6, <1>7, <1>8, <1>9, <1>10, <1>11, <1>12, <1>13, <1>14, <1>15
  DEF StepOf, Progress

LEMMA NextNotAhead ==
  ASSUME Typed, Fitting, NotNewer, NonceNotAhead, Next
  PROVE  NonceNotAhead'
<1>1. CASE StepBeside
  <2>1. op' = op /\ job' = job /\ ledger' = ledger /\ kind' = kind
    BY <1>1, BesideDoes
  <2>2. CASE store' = store
    BY <2>1, <2>2 DEF NonceNotAhead, Live, OneAccount, Quiet, Mutating, Refreshing
  <2>3. CASE store' = Locked \/ store' = Disconnected
    BY <2>3 DEF Locked, Disconnected, Store, NonceNotAhead, Live
  <2> QED
    BY <1>1, <2>2, <2>3, BesideDoes
<1>2. CASE Reload
  <2> SUFFICES ASSUME Live', OneAccount', ~store'.flag, \A p \in Ops : Quiet(p)'
               PROVE  store'.nonce <= ledger'[store'.addr].nonce
    BY DEF NonceNotAhead
  <2>1. /\ UNCHANGED <<store, job, ledger, kind>>
        /\ \A p \in Ops : /\ op'[p].acct = op[p].acct /\ op'[p].creates = op[p].creates
                          /\ op'[p].purpose = op[p].purpose
                          /\ Started(p) => op'[p].stage = "gone"
                          /\ ~Started(p) => op'[p].stage = op[p].stage
    BY <1>2, ReloadDoes
  <2>2. ASSUME NEW p \in Ops PROVE Quiet(p)
    <3>1. Quiet(p)'
      OBVIOUS
    <3>2. CASE Started(p)
      <4>1. op'[p].stage = "gone" /\ op'[p].creates = op[p].creates /\ kind' = kind
        BY <2>1, <3>2
      <4>2. kind[p] \notin Mutations /\ ~op[p].creates
        BY <3>1, <4>1 DEF Quiet, Mutating
      <4> QED
        BY <4>2 DEF Quiet, Mutating
    <3>3. CASE ~Started(p)
      <4>1. /\ op'[p].stage = op[p].stage /\ op'[p].creates = op[p].creates /\ kind' = kind
            /\ op'[p].purpose = op[p].purpose
        BY <2>1, <3>3
      <4> QED
        BY <3>1, <4>1 DEF Quiet, Mutating, Refreshing
    <3> QED
      BY <3>2, <3>3
  <2>3. OneAccount /\ Live /\ ~store.flag
    BY <2>1 DEF OneAccount, Live
  <2> QED
    BY <2>1, <2>2, <2>3 DEF NonceNotAhead
<1> QED
  BY <1>1, <1>2, NotAheadStep, NextCases

-----------------------------------------------------------------------------
(***************************************************************************)
(* A visit with one connection                                             *)
(***************************************************************************)
\* An operation that has ended has ended, and one that has begun has begun.
LEMMA StagesGo ==
  ASSUME Typed, NEW o \in Ops, StepOf(o), Fitting, NEW p \in Ops
  PROVE  /\ op'[p].stage = "new" => op[p].stage = "new"
         /\ op[p].stage \in Ended => op'[p].stage = op[p].stage
         /\ op[p].stage # "new" => op'[p].acct = op[p].acct
<1>1. CASE p # o
  BY <1>1, StepOfIsTyped DEF Keeps
<1>2. CASE p = o /\ ~Answer(o)
  BY <1>2, ConnectDoes, InvokeSerializedDoes, InvokeDepositDoes, InvokeRefreshDoes, StartNextDoes,
     PostDoes, ApplyDoes, SettledDoes, JobFailedDoes, OpenAccountDoes, HydrateDoes, ThrowsDoes
  DEF StepOf, Progress, Ended, Same
<1>3. CASE p = o /\ Answer(o)
  <2>1. op[o].acct \in Accounts /\ op[o].stage = "query"
    BY <1>3 DEF Answer, Fitting, Fits
  <2> QED
    BY <1>3, <2>1, AnswerDoes DEF Ended, Same
<1> QED
  BY <1>1, <1>2, <1>3

\* With one connection, one operation at a time is beyond the queue.
Beyond(o) == op[o].stage \in {"prompt", "job", "query", "answered"}

LEMMA BeyondAlone ==
  ASSUME Fitting, QueueOrder, ConnectsFirst, NEW c \in Ops, Visit(c),
         NEW o \in Ops, NEW p \in Ops, Beyond(o), Beyond(p)
  PROVE  o = p
<1>1. Beyond(c) => o = c /\ p = c
  BY DEF ConnectsFirst, Beyond
<1>2. ASSUME NEW q \in Ops \ {c}, Beyond(q) PROVE Runs(q)
  BY <1>2 DEF Visit, Fitting, Fits, Beyond, Runs, Started, Ended
<1>3. CASE ~Beyond(c)
  <2>1. Runs(o) /\ Runs(p)
    BY <1>2, <1>3
  <2> QED
    BY <2>1, RunsAlone
<1> QED
  BY <1>1, <1>3

\* Before the connection is through, nothing else runs, and nothing is shown.
LEMMA OnlyConnects ==
  ASSUME Typed, Fitting, ConnectsFirst, NEW c \in Ops, Visit(c), op[c].stage # "done",
         NEW o \in Ops, StepOf(o)
  PROVE  o = c /\ (op[c].stage = "new" => Connect(c))
<1>1. /\ store.view = None /\ \A p \in Ops \ {c} : op[p].stage = "new" /\ Fits(p)
      /\ op[c].stage = "new" => ~Live
  BY DEF ConnectsFirst, Fitting
<1>2. kind[c] \notin Serialized \cup {"NONE"} /\ \A p \in Ops \ {c} : kind[p] \in Serialized \cup {"NONE"}
  BY DEF Visit
<1>3. ASSUME op[o].stage = "new" PROVE Connect(o) \/ (kind[o] \in Serialized /\ store.view # None) \/ Live
  <2>1. job[o].status = "none"
    BY <1>3 DEF Fitting, Fits
  <2>2. ~Apply(o)
    BY <2>1 DEF Apply
  <2>3. ~StartNext(o) /\ ~Post(o) /\ ~Settled(o) /\ ~JobFailed(o) /\ ~Answer(o) /\ ~OpenAccount(o)
        /\ ~Hydrate(o) /\ ~Fails(o) /\ ~Rejected(o)
    BY <1>3 DEF StartNext, MayRun, Post, Settled, JobFailed, Answer, OpenAccount, Hydrate, Fails,
                Rejected
  <2> QED
    BY <2>2, <2>3, InvokeSerializedDoes, InvokeDepositDoes, InvokeRefreshDoes
    DEF StepOf, Progress
<1>4. ASSUME o # c PROVE FALSE
  <2>1. op[o].stage = "new" /\ kind[o] \in Serialized \cup {"NONE"} /\ store.view = None
    BY <1>1, <1>2, <1>4
  <2>2. ~InvokeSerialized(o)
    BY <2>1, InvokeSerializedDoes
  <2>3. ~Connect(o) /\ ~InvokeDeposit(o) /\ ~InvokeRefresh(o) /\ ~ReconcileOnLoad(o)
    BY <2>1, KindFacts DEF Connect, InvokeDeposit, InvokeRefresh, ReconcileOnLoad
  <2>4. ~Progress(o) /\ ~Fails(o)
    BY <1>1, <1>4, <2>1 DEF Fits, Progress, StartNext, MayRun, Post, Apply, Settled, JobFailed,
                           Answer, OpenAccount, Hydrate, Rejected, Fails
  <2> QED
    BY <2>2, <2>3, <2>4 DEF StepOf
<1>5. ASSUME op[c].stage = "new", o = c PROVE Connect(c)
  <2>1. kind[c] \notin Serialized /\ ~Live
    BY <1>1, <1>2, <1>5
  <2> QED
    BY <1>3, <1>5, <2>1
<1> QED
  BY <1>4, <1>5

\* What the store shows after a step.
LEMMA ShownStep ==
  ASSUME Typed, Fitting, NEW o \in Ops, StepOf(o)
  PROVE  /\ Live' /\ ~Live => Connect(o)
         /\ ~Connect(o) => store'.addr = store.addr
         /\ \/ store'.view = None
            \/ store'.view = store.view /\ store'.flag = store.flag
            \/ store'.flag = TRUE
            \/ Hydrate(o) /\ store'.view = op[o].answer
<1>1. store \in StoreType
  BY DEF Typed
<1> USE DEF StoreType, Live
<1>2. CASE Connect(o)
  BY <1>2, ConnectDoes DEF Connected, Store
<1>3. CASE Hydrate(o)
  <2>1. store' = Hydrated(store, op[o].answer)
    BY <1>3, HydrateDoes
  <2> QED
    BY <1>1, <1>3, <2>1 DEF Hydrated
<1>4. CASE Fails(o) \/ Rejected(o)
  <2>1. store' = store \/ store' = MarkSettlementRefreshPending(store)
    BY <1>4, ThrowsDoes
  <2> QED
    BY <1>1, <2>1 DEF MarkSettlementRefreshPending
<1>5. CASE Settled(o)
  <2>1. store' = store \/ store' = IncrementNonce(store)
    BY <1>5, SettledDoes
  <2> QED
    BY <1>1, <2>1 DEF IncrementNonce
<1>6. CASE ~Connect(o) /\ ~Hydrate(o) /\ ~Settled(o) /\ ~Fails(o) /\ ~Rejected(o)
  <2>1. store' = store
    BY <1>6 DEF StepOf, Progress, InvokeSerialized, InvokeDeposit, InvokeRefresh, ReconcileOnLoad,
                StartNext, Post, JobFailed, Answer, OpenAccount, Apply
  <2> QED
    BY <2>1
<1> QED
  BY <1>2, <1>3, <1>4, <1>5, <1>6

\* Beside the operations the store is only emptied.
LEMMA ShownBeside ==
  ASSUME Typed, StepBeside
  PROVE  store' = store \/ (~Live' /\ store'.view = None)
BY BesideDoes DEF Locked, Disconnected, Store, Live

LEMMA NewOpAcct ==
  ASSUME Typed, Fitting, NEW o \in Ops, StepOf(o), op[o].stage = "new", ~Connect(o)
  PROVE  Live /\ op'[o].acct = store.addr /\ store' = store
<1>1. job[o].status = "none"
  BY DEF Fitting, Fits
<1>2. ~Progress(o) /\ ~Fails(o)
  BY <1>1 DEF Progress, StartNext, MayRun, Post, Apply, Settled, JobFailed, Answer, OpenAccount,
              Hydrate, Rejected, Fails
<1> QED
  BY <1>2, InvokeSerializedDoes, InvokeDepositDoes, InvokeRefreshDoes DEF StepOf

LEMMA ConnectsFirstStep ==
  ASSUME Typed, Fitting, QueueOrder, ConnectsFirst, NEW o \in Ops, StepOf(o)
  PROVE  ConnectsFirst'
<1> SUFFICES ASSUME NEW c \in Ops, Visit(c)'
             PROVE  /\ op'[c].stage = "new" => ~Live'
                    /\ op'[c].stage # "new" => kind'[c] = "CONNECT"
                    /\ op'[c].stage # "done" => /\ store'.view = None
                                                /\ \A p \in Ops \ {c} : op'[p].stage = "new"
                    /\ Live' => OneAccount'
  BY DEF ConnectsFirst
<1>1. Keeps(o) /\ kind' = kind /\ Visit(c)
  BY StepOfIsTyped DEF Keeps, Visit
<1>2. /\ op[c].stage = "new" => ~Live
      /\ op[c].stage # "new" => kind[c] = "CONNECT"
      /\ op[c].stage # "done" => store.view = None /\ \A p \in Ops \ {c} : op[p].stage = "new"
      /\ Live => OneAccount
  BY <1>1 DEF ConnectsFirst
<1>3. ASSUME Connect(o) PROVE o = c
  BY <1>1, <1>3, ConnectDoes, KindFacts DEF Visit
<1>4. op'[c].stage = "new" => ~Live'
  <2> SUFFICES ASSUME op'[c].stage = "new", Live' PROVE FALSE
    OBVIOUS
  <2>1. op[c].stage = "new" /\ ~Live
    BY <1>2, StagesGo
  <2>2. Connect(o) /\ o = c
    BY <1>3, <2>1, ShownStep
  <2> QED
    BY <2>2, ConnectDoes
<1>5. op'[c].stage # "new" => kind[c] = "CONNECT"
  <2> SUFFICES ASSUME op'[c].stage # "new", op[c].stage = "new" PROVE kind[c] = "CONNECT"
    BY <1>2
  <2>1. Connect(c)
    BY <1>1, OnlyConnects
  <2> QED
    BY <2>1, ConnectDoes
<1>6. ASSUME op'[c].stage # "done"
      PROVE  store'.view = None /\ \A p \in Ops \ {c} : op'[p].stage = "new"
  <2>1. op[c].stage # "done"
    BY <1>6, StagesGo DEF Ended
  <2>2. o = c
    BY <1>1, <2>1, OnlyConnects
  <2>3. \A p \in Ops \ {c} : op'[p].stage = "new"
    BY <1>1, <1>2, <2>1, <2>2 DEF Keeps
  <2>4. ASSUME Hydrate(c) PROVE FALSE
    <3>1. op[c].stage = "answered" /\ op'[c].stage \in {"prompt", "failed"}
          /\ op[c].purpose \in {"prior", "processed"}
      BY <1>6, <2>4, HydrateDoes
    <3>2. Asks(c) /\ kind[c] # "BORROW_ACCEPT"
      BY <1>2, <3>1 DEF Fitting, Fits
    <3> QED
      BY <3>1, <3>2 DEF Asks
  <2>5. CASE store' = MarkSettlementRefreshPending(store)
    BY <1>2, <2>1, <2>3, <2>5 DEF MarkSettlementRefreshPending, Typed, StoreType
  <2>6. CASE store' # MarkSettlementRefreshPending(store)
    <3>1. Connect(c) => store'.view = None
      BY ConnectDoes DEF Connected, Store
    <3>2. Settled(c) => store'.view = store.view
      BY SettledDoes DEF IncrementNonce, Typed, StoreType
    <3>3. ~Connect(c) /\ ~Settled(c) => store' = store
      BY <2>2, <2>4, <2>6, ThrowsDoes
      DEF StepOf, Progress, InvokeSerialized, InvokeDeposit, InvokeRefresh, ReconcileOnLoad,
          StartNext, Post, JobFailed, Answer, OpenAccount, Apply
    <3> QED
      BY <1>2, <2>1, <2>2, <2>3, <3>1, <3>2, <3>3
  <2> QED
    BY <2>3, <2>5, <2>6
<1>7. ASSUME Live' PROVE OneAccount'
  <2> SUFFICES ASSUME NEW p \in Ops PROVE op'[p].acct \in {None, store'.addr}
    BY DEF OneAccount
  <2>1. CASE Connect(o)
    <3>1. o = c /\ op[c].stage = "new" /\ op'[c].acct = wallet /\ store'.addr = wallet
      BY <1>3, <2>1, ConnectDoes DEF Connected, Store
    <3>2. p # c => op[p].stage = "new" /\ op'[p] = op[p]
      BY <1>1, <1>2, <3>1 DEF Keeps
    <3> QED
      BY <3>1, <3>2 DEF Fitting, Fits
  <2>2. CASE ~Connect(o)
    <3>1. Live /\ store'.addr = store.addr /\ op[p].acct \in {None, store.addr}
      BY <1>2, <1>7, <2>2, ShownStep DEF OneAccount
    <3>2. op[p].stage # "new" => op'[p].acct = op[p].acct
      BY StagesGo
    <3>3. op[p].stage = "new" /\ p # o => op'[p].acct = op[p].acct
      BY <1>1 DEF Keeps
    <3>4. op[p].stage = "new" /\ p = o => op'[p].acct = store.addr
      BY <2>2, NewOpAcct
    <3> QED
      BY <3>1, <3>2, <3>3, <3>4
  <2> QED
    BY <2>1, <2>2
<1> QED
  BY <1>1, <1>4, <1>5, <1>6, <1>7

LEMMA NextConnectsFirst ==
  ASSUME Typed, Fitting, QueueOrder, ConnectsFirst, Next
  PROVE  ConnectsFirst'
<1>1. ASSUME NEW o \in Ops, StepOf(o) PROVE ConnectsFirst'
  BY <1>1, ConnectsFirstStep
<1>2. CASE StepBeside
  <2>1. op' = op /\ kind' = kind
    BY <1>2, BesideDoes
  <2>2. store' = store \/ (~Live' /\ store'.view = None)
    BY <1>2, ShownBeside
  <2>3. CASE store' = store
    BY <2>1, <2>3 DEF ConnectsFirst, Visit, Live, OneAccount
  <2>4. CASE ~Live' /\ store'.view = None
    BY <2>1, <2>4 DEF ConnectsFirst, Visit
  <2> QED
    BY <2>2, <2>3, <2>4
<1>3. CASE Reload
  <2>1. store' = store /\ kind' = kind
    BY <1>3, ReloadDoes
  <2>2. ASSUME NEW o \in Ops
        PROVE  /\ op'[o].acct = op[o].acct
               /\ op'[o].stage = "new" <=> op[o].stage = "new"
               /\ op[o].stage = "done" => op'[o].stage = "done"
    BY <1>3, ReloadDoes DEF Started, Ended
  <2>3. OneAccount => OneAccount'
    BY <2>1, <2>2 DEF OneAccount
  <2> QED
    BY <2>1, <2>2, <2>3 DEF ConnectsFirst, Visit, Live
<1> QED
  BY <1>1, <1>2, <1>3, NextCases

\* An operation is done when its answer is shown, or when the flag is raised for it.
LEMMA BecomesDone ==
  ASSUME Typed, Fitting, NEW o \in Ops, StepOf(o), NEW p \in Ops,
         op'[p].stage = "done", op[p].stage # "done"
  PROVE  p = o /\ (Hydrate(o) \/ ((Fails(o) \/ Rejected(o)) /\ store'.flag = TRUE))
<1>1. Keeps(o) /\ p = o
  BY StepOfIsTyped DEF Keeps
<1>2. CASE Fails(o) \/ Rejected(o)
  BY <1>1, <1>2, ThrowsDoes DEF MarkSettlementRefreshPending, Typed, StoreType
<1>3. ~Connect(o) /\ ~InvokeSerialized(o) /\ ~InvokeDeposit(o)
  BY <1>1, ConnectDoes, InvokeSerializedDoes, InvokeDepositDoes
<1>4. ~InvokeRefresh(o) /\ ~ReconcileOnLoad(o) /\ ~StartNext(o)
  BY <1>1, InvokeRefreshDoes, StartNextDoes
<1>5. ~Post(o) /\ ~Settled(o) /\ ~JobFailed(o) /\ ~OpenAccount(o)
  BY <1>1, PostDoes, SettledDoes, JobFailedDoes, OpenAccountDoes
<1>6. ~Apply(o)
  BY <1>1 DEF Apply
<1>7. ~Answer(o)
  BY <1>1, AnswerDoes DEF Fitting, Fits, Answer
<1> QED
  BY <1>1, <1>2, <1>3, <1>4, <1>5, <1>6, <1>7 DEF StepOf, Progress

\* What is read after a job was applied is not older than what the job left.
LEMMA AnswersStayNewer ==
  ASSUME Typed, Fitting, QueueOrder, NotNewer, ConnectsFirst, NewerThanDone,
         NEW q \in Ops, StepOf(q), NEW c \in Ops, Visit(c),
         NEW o \in Ops, Mutating(o), job'[o].status = "applied",
         NEW p \in Ops, op'[p].stage = "answered", op'[p].acct = op'[o].acct,
         p = o \/ op'[o].stage = "done"
  PROVE  op'[p].answer.version >= job'[o].version
<1>1. op'[o].acct = op[o].acct
  BY AppliedBefore
<1>2. (op[p].stage = "answered" /\ op'[p] = op[p]) \/ (p = q /\ Answer(q))
  BY AnsweredBefore
<1>3. CASE p = q /\ Answer(q)
  <2>1. op[q].acct \in Accounts
    BY <1>3 DEF Fitting, Fits, Answer
  <2>2. /\ op'[p].answer.version = ledger[op[p].acct].version
        /\ op'[p].acct = op[p].acct /\ job' = job
    BY <1>3, <2>1, AnswerDoes DEF Same
  <2> QED
    BY <1>1, <2>2 DEF NotNewer
<1>4. CASE op[p].stage = "answered" /\ op'[p] = op[p]
  <2>1. op[o].stage = "done" \/ p = o
    <3> SUFFICES ASSUME op'[o].stage = "done", op[o].stage # "done", p # o PROVE FALSE
      OBVIOUS
    <3>1. o = q /\ (Hydrate(q) \/ Fails(q) \/ Rejected(q))
      BY BecomesDone
    <3>2. Beyond(o)
      BY <3>1, HydrateDoes, ThrowsDoes DEF Beyond
    <3> QED
      BY <1>4, <3>2, BeyondAlone DEF Beyond
  <2>2. ~(o = q /\ Apply(q))
    <3> SUFFICES ASSUME o = q, Apply(q) PROVE FALSE
      OBVIOUS
    <3>1. job[o].status = "posted"
      BY DEF Apply
    <3>2. op[o].stage \in {"job", "failed", "gone"}
      BY <3>1 DEF Fitting, Fits
    <3> QED
      BY <1>4, <2>1, <3>2
  <2>3. job[o].status = "applied" /\ job'[o] = job[o]
    BY <2>2, AppliedBefore
  <2> QED
    BY <1>1, <1>4, <2>1, <2>3 DEF NewerThanDone
<1> QED
  BY <1>2, <1>3, <1>4

\* Nor is what is shown, unless the flag is raised.
LEMMA ViewStaysNewer ==
  ASSUME Typed, Fitting, NewerThanDone,
         NEW q \in Ops, StepOf(q), NEW c \in Ops, Visit(c),
         NEW o \in Ops, Mutating(o), job'[o].status = "applied", op'[o].stage = "done",
         store'.view # None, store'.view.owner = op'[o].acct, store'.flag # TRUE
  PROVE  store'.view.version >= job'[o].version
<1>1. op'[o].acct = op[o].acct
  BY AppliedBefore
<1>2. op[o].stage = "done" \/ (o = q /\ Hydrate(q))
  BY BecomesDone
<1>3. CASE Hydrate(q)
  <2>1. /\ op[q].stage = "answered" /\ op[q].answer.owner = op[q].acct
        /\ store' = Hydrated(store, op[q].answer) /\ job' = job
    BY <1>3, HydrateDoes
  <2>2. store'.view = op[q].answer
    BY <2>1 DEF Hydrated, Typed, StoreType
  <2>3. op[q].acct = op[o].acct /\ (q = o \/ op[o].stage = "done")
    BY <1>1, <1>2, <2>1, <2>2
  <2>4. op[q].answer.version >= job[o].version
    BY <2>1, <2>3 DEF NewerThanDone
  <2> QED
    BY <2>1, <2>2, <2>4
<1>4. CASE ~Hydrate(q)
  <2>1. op[o].stage = "done"
    BY <1>2, <1>4
  <2>2. job[o].status # "posted"
    BY <2>1 DEF Fitting, Fits
  <2>3. job[o].status = "applied" /\ job'[o] = job[o]
    BY <2>2, AppliedBefore DEF Apply
  <2>4. store'.view = store.view /\ store'.flag = store.flag
    BY <1>4, ShownStep
  <2> QED
    BY <1>1, <2>1, <2>3, <2>4 DEF NewerThanDone
<1> QED
  BY <1>3, <1>4

LEMMA NewerStep ==
  ASSUME Typed, Fitting, QueueOrder, NotNewer, ConnectsFirst, NewerThanDone,
         NEW q \in Ops, StepOf(q)
  PROVE  NewerThanDone'
<1>1. kind' = kind /\ Typed'
  BY StepOfIsTyped DEF Keeps
<1> SUFFICES ASSUME NEW c \in Ops, Visit(c)', NEW o \in Ops, Mutating(o)', job'[o].status = "applied"
             PROVE  /\ \A p \in Ops : /\ op'[p].stage = "answered" /\ op'[p].acct = op'[o].acct
                                      /\ p = o \/ op'[o].stage = "done"
                                      => op'[p].answer.version >= job'[o].version
                    /\ op'[o].stage = "done" /\ store'.view # None
                         /\ store'.view.owner = op'[o].acct
                       => store'.flag \/ store'.view.version >= job'[o].version
  BY DEF NewerThanDone
<1>2. Visit(c) /\ Mutating(o)
  BY <1>1 DEF Visit, Mutating
<1>3. ASSUME NEW p \in Ops, op'[p].stage = "answered", op'[p].acct = op'[o].acct,
             p = o \/ op'[o].stage = "done"
      PROVE  op'[p].answer.version >= job'[o].version
  BY <1>2, <1>3, AnswersStayNewer
<1>4. ASSUME op'[o].stage = "done", store'.view # None, store'.view.owner = op'[o].acct,
             store'.flag # TRUE
      PROVE  store'.view.version >= job'[o].version
  BY <1>2, <1>4, ViewStaysNewer
<1>5. store'.flag \in BOOLEAN
  BY <1>1 DEF Typed, StoreType
<1> QED
  BY <1>3, <1>4, <1>5

LEMMA NextNewer ==
  ASSUME Typed, Fitting, QueueOrder, NotNewer, ConnectsFirst, NewerThanDone, Next
  PROVE  NewerThanDone'
<1>1. ASSUME NEW o \in Ops, StepOf(o) PROVE NewerThanDone'
  BY <1>1, NewerStep
<1>2. CASE StepBeside
  <2>1. op' = op /\ kind' = kind /\ job' = job
    BY <1>2, BesideDoes
  <2>2. store'.view = None \/ store' = store
    BY <1>2, ShownBeside
  <2> QED
    BY <2>1, <2>2 DEF NewerThanDone, Visit, Mutating
<1>3. CASE Reload
  <2>1. store' = store /\ kind' = kind /\ job' = job
    BY <1>3, ReloadDoes
  <2>2. ASSUME NEW o \in Ops
        PROVE  /\ op'[o].acct = op[o].acct /\ op'[o].stage # "answered"
               /\ op'[o].stage = "done" => op[o].stage = "done"
    BY <1>3, ReloadDoes DEF Started, Ended
  <2> QED
    BY <2>1, <2>2 DEF NewerThanDone, Visit, Mutating
<1> QED
  BY <1>1, <1>2, <1>3, NextCases

\* A step that neither applies nor settles a job nor shows an answer leaves the nonces
\* alone, and what is due, unless the operation is given up.
LEMMA NoncesKept ==
  ASSUME Typed, Fitting, NEW q \in Ops, StepOf(q), ~Connect(q), ~Apply(q), ~Settled(q), ~Hydrate(q),
         op'[q].stage # "failed", NEW o \in Ops
  PROVE  store'.nonce = store.nonce /\ ledger' = ledger /\ (Due(o)' <=> Due(o))
<1>1. Keeps(q) /\ (o # q => op'[o] = op[o] /\ job'[o] = job[o])
  BY StepOfIsTyped DEF Keeps
<1> SUFFICES /\ store'.nonce = store.nonce /\ ledger' = ledger
             /\ ~Due(q) /\ ~Due(q)'
  BY <1>1 DEF Due
<1>2. CASE InvokeSerialized(q)
  BY <1>2, InvokeSerializedDoes DEF Due
<1>3. CASE InvokeDeposit(q)
  BY <1>3, InvokeDepositDoes DEF Due
<1>4. CASE InvokeRefresh(q) \/ ReconcileOnLoad(q)
  BY <1>4, InvokeRefreshDoes DEF Due
<1>5. CASE StartNext(q)
  BY <1>5, StartNextDoes DEF Due
<1>6. CASE Post(q)
  BY <1>6, PostDoes DEF Due
<1>7. CASE JobFailed(q)
  <2>1. op[q].stage = "job" /\ job[q].status # "applied" /\ store' = store /\ ledger' = ledger
        /\ op'[q].stage # "job"
    BY <1>7, JobFailedDoes
  <2> QED
    BY <2>1 DEF Due
<1>8. CASE Answer(q)
  BY <1>8, AnswerDoes DEF Due, Fitting, Fits, Answer
<1>9. CASE OpenAccount(q)
  BY <1>9, OpenAccountDoes DEF Due
<1>10. CASE Fails(q) \/ Rejected(q)
  <2>1. /\ op[q].stage # "job" /\ op'[q].stage # "job" /\ ledger' = ledger
        /\ store' = MarkSettlementRefreshPending(store)
    BY <1>10, ThrowsDoes
  <2>2. store'.nonce = store.nonce
    BY <2>1 DEF MarkSettlementRefreshPending, Typed, StoreType
  <2> QED
    BY <2>1, <2>2 DEF Due
<1> QED
  BY <1>2, <1>3, <1>4, <1>5, <1>6, <1>7, <1>8, <1>9, <1>10 DEF StepOf, Progress

\* Nothing that was given up comes back.
LEMMA GivenUpBefore ==
  ASSUME Typed, Fitting, NEW q \in Ops, StepOf(q), NothingGivenUp'
  PROVE  NothingGivenUp
BY StagesGo DEF NothingGivenUp, Ended

\* The job of an operation that was not given up is with the ledger while the tab waits.
LEMMA WaitedFor ==
  ASSUME Fitting, NothingGivenUp, NEW c \in Ops, Visit(c), op[c].stage = "done",
         NEW q \in Ops, Due(q) \/ job[q].status = "posted"
  PROVE  /\ op[q].stage = "job" /\ Beyond(q) /\ q # c /\ kind[q] \in Serialized
         /\ kind[q] # "DEPOSIT" /\ ~op[q].creates /\ op[q].acct \in Accounts
<1>1. op[q].stage = "job" /\ q # c /\ kind[q] # "CONNECT"
  BY KindFacts DEF Fitting, Fits, NothingGivenUp, Due, Visit
<1>2. kind[q] \in Serialized \cup {"NONE"} /\ kind[q] # "NONE"
  BY <1>1 DEF Visit, Fitting, Fits
<1>3. ~op[q].creates /\ op[q].acct \in Accounts
  BY <1>1 DEF Fitting, Fits
<1> QED
  BY <1>1, <1>2, <1>3, KindFacts DEF Beyond

\* While nothing is given up, an answer holds the nonce of the ledger.
LEMMA AnswersInStep ==
  ASSUME Typed, Fitting, QueueOrder, ConnectsFirst, InStep,
         NEW q \in Ops, StepOf(q), NEW c \in Ops, Visit(c), NothingGivenUp',
         NEW p \in Ops, op'[p].stage = "answered"
  PROVE  op'[p].answer.nonce = ledger'[op'[p].acct].nonce
<1>1. NothingGivenUp
  BY GivenUpBefore
<1>2. CASE p = q /\ Answer(q)
  <2>1. op[q].acct \in Accounts
    BY <1>2 DEF Fitting, Fits, Answer
  <2> QED
    BY <1>2, <2>1, AnswerDoes DEF Same
<1>3. CASE op[p].stage = "answered" /\ op'[p] = op[p]
  <2>1. op[p].answer.nonce = ledger[op[p].acct].nonce
    BY <1>1, <1>3 DEF InStep
  <2>2. ~Apply(q)
    <3> SUFFICES ASSUME Apply(q) PROVE FALSE
      OBVIOUS
    <3>1. job[q].status = "posted" /\ op[q].stage = "job"
      BY <1>1 DEF Apply, Fitting, Fits, NothingGivenUp
    <3> QED
      BY <1>3, <3>1, BeyondAlone DEF Beyond
  <2>3. ledger' = ledger
    BY <2>2 DEF StepOf, Progress, Connect, InvokeSerialized, InvokeDeposit, InvokeRefresh,
                ReconcileOnLoad, StartNext, Post, Settled, JobFailed, Answer, OpenAccount,
                Hydrate, Rejected, Fails
  <2> QED
    BY <1>3, <2>1, <2>3
<1> QED
  BY <1>2, <1>3, AnsweredBefore

\* Once the connection is through, the nonce of the tab follows the ledger's.
LEMMA NoncesInStep ==
  ASSUME Typed, Fitting, QueueOrder, ConnectsFirst, InStep,
         NEW q \in Ops, StepOf(q), NEW c \in Ops, Visit(c), NothingGivenUp',
         Live, store'.addr = store.addr, op[c].stage = "done", ~Connect(q)
  PROVE  /\ (\E o \in Ops : Due(o)') => ledger'[store'.addr].nonce = store'.nonce + 1
         /\ (\A o \in Ops : ~Due(o)') => ledger'[store'.addr].nonce = store'.nonce
<1>1. Keeps(q) /\ NothingGivenUp /\ OneAccount
  BY StepOfIsTyped, GivenUpBefore DEF ConnectsFirst
<1>2. /\ (\E o \in Ops : Due(o)) => ledger[store.addr].nonce = store.nonce + 1
      /\ (\A o \in Ops : ~Due(o)) => ledger[store.addr].nonce = store.nonce
  BY <1>1 DEF InStep
<1>3. CASE Apply(q)
  <2>1. /\ UNCHANGED <<store, op, kind>>
        /\ job[q].status = "posted" /\ job'[q].status = Verdict(q)
        /\ Verdict(q) # "applied" => ledger'[op[q].acct] = ledger[op[q].acct]
        /\ Verdict(q) = "applied" /\ kind[q] # "DEPOSIT"
           => ledger'[op[q].acct].nonce = ledger[op[q].acct].nonce + 1
    BY <1>3, ApplyDoes
  <2>2. op[q].stage = "job" /\ Beyond(q) /\ kind[q] # "DEPOSIT" /\ op[q].acct = store.addr
    BY <1>1, <2>1, WaitedFor, ConstantsAssumption DEF OneAccount
  <2>3. ASSUME NEW o \in Ops PROVE ~Due(o)
    BY <2>1, <2>2, BeyondAlone DEF Due, Beyond
  <2>4. ledger[store.addr].nonce = store.nonce
    BY <1>2, <2>3
  <2>5. CASE Verdict(q) = "applied"
    <3>1. Due(q)'
      BY <2>1, <2>2, <2>5 DEF Due
    <3> QED
      BY <2>1, <2>2, <2>4, <2>5, <3>1
  <2>6. CASE Verdict(q) # "applied"
    <3>1. ASSUME NEW o \in Ops PROVE ~Due(o)'
      BY <1>1, <2>1, <2>3, <2>6 DEF Due, Keeps
    <3> QED
      BY <2>1, <2>2, <2>4, <2>6, <3>1
  <2> QED
    BY <2>5, <2>6
<1>4. CASE Settled(q)
  <2>1. /\ op[q].stage = "job" /\ job[q].status = "applied" /\ op'[q].stage = "query"
        /\ kind[q] # "DEPOSIT" => store' = IncrementNonce(store)
        /\ job' = job /\ ledger' = ledger
    BY <1>4, SettledDoes
  <2>2. Due(q) /\ Beyond(q)
    BY <2>1 DEF Due, Beyond
  <2>3. store' = IncrementNonce(store)
    BY <1>1, <2>1, <2>2, WaitedFor
  <2>4. store'.nonce = store.nonce + 1
    BY <2>3 DEF IncrementNonce, Typed, StoreType
  <2>5. ASSUME NEW o \in Ops PROVE ~Due(o)'
    BY <1>1, <2>1, <2>2, BeyondAlone DEF Due, Keeps, Beyond
  <2> QED
    BY <1>2, <2>1, <2>2, <2>4, <2>5
<1>5. CASE Hydrate(q)
  <2>1. /\ op[q].stage = "answered" /\ op'[q].stage \in {"prompt", "failed", "done"}
        /\ store' = Hydrated(store, op[q].answer) /\ job' = job /\ ledger' = ledger
    BY <1>5, HydrateDoes
  <2>2. op[q].acct = store.addr
    BY <1>1, <2>1, ConstantsAssumption DEF Fitting, Fits, OneAccount
  <2>3. store'.nonce = op[q].answer.nonce
    BY <2>1 DEF Hydrated, Typed, StoreType
  <2>4. op[q].answer.nonce = ledger[store.addr].nonce
    BY <1>1, <2>1, <2>2 DEF InStep
  <2>5. ASSUME NEW o \in Ops PROVE ~Due(o)'
    BY <1>1, <2>1, BeyondAlone DEF Due, Keeps, Beyond
  <2> QED
    BY <2>1, <2>3, <2>4, <2>5
<1>6. CASE ~Apply(q) /\ ~Settled(q) /\ ~Hydrate(q)
  <2>1. op'[q].stage # "failed"
    BY DEF NothingGivenUp
  <2>2. \A o \in Ops : store'.nonce = store.nonce /\ ledger' = ledger /\ (Due(o)' <=> Due(o))
    BY <1>6, <2>1, NoncesKept
  <2> QED
    BY <1>2, <2>2
<1> QED
  BY <1>3, <1>4, <1>5, <1>6

\* The first answer brings the nonce with it.
LEMMA FirstInStep ==
  ASSUME Typed, Fitting, QueueOrder, ConnectsFirst, InStep,
         NEW q \in Ops, StepOf(q), NEW c \in Ops, Visit(c), NothingGivenUp',
         Live', op[c].stage # "done", op'[c].stage = "done"
  PROVE  /\ \A o \in Ops : ~Due(o)'
         /\ ledger'[store'.addr].nonce = store'.nonce
<1>1. Keeps(q) /\ NothingGivenUp /\ q = c
  BY StepOfIsTyped, GivenUpBefore, OnlyConnects
<1>2. Hydrate(c)
  <2> SUFFICES ASSUME ~Hydrate(c) PROVE FALSE
    OBVIOUS
  <2>1. Fails(c) \/ Rejected(c)
    BY <1>1, BecomesDone
  <2>2. op[c].stage \in {"query", "answered"} /\ op[c].purpose = "settled"
    BY <1>1, <2>1, ThrowsDoes
  <2>3. kind[c] = "CONNECT" /\ kind[c] \in Mutations
    BY <2>2 DEF ConnectsFirst, Fitting, Fits, Asks
  <2> QED
    BY <2>3, KindFacts
<1>3. /\ op[c].stage = "answered" /\ op'[c].stage = "done"
      /\ store' = Hydrated(store, op[c].answer) /\ job' = job /\ ledger' = ledger
  BY <1>2, HydrateDoes
<1>4. store'.nonce = op[c].answer.nonce /\ store'.addr = store.addr /\ Live
  BY <1>3 DEF Hydrated, Typed, StoreType, Live
<1>5. op[c].acct = store.addr
  BY <1>3, <1>4, ConstantsAssumption DEF ConnectsFirst, OneAccount, Fitting, Fits
<1>6. op[c].answer.nonce = ledger[store.addr].nonce
  BY <1>1, <1>3, <1>5 DEF InStep
<1>7. ASSUME NEW o \in Ops PROVE ~Due(o)'
  BY <1>1, <1>3 DEF Due, Keeps, ConnectsFirst
<1> QED
  BY <1>3, <1>4, <1>6, <1>7

LEMMA InStepStep ==
  ASSUME Typed, Fitting, QueueOrder, ConnectsFirst, InStep, NEW q \in Ops, StepOf(q)
  PROVE  InStep'
<1> SUFFICES ASSUME NEW c \in Ops, Visit(c)', NothingGivenUp'
             PROVE  /\ \A o \in Ops : op'[o].stage = "answered"
                                      => op'[o].answer.nonce = ledger'[op'[o].acct].nonce
                    /\ Live' /\ op'[c].stage = "done" =>
                         /\ (\E o \in Ops : Due(o)') => ledger'[store'.addr].nonce = store'.nonce + 1
                         /\ (\A o \in Ops : ~Due(o)') => ledger'[store'.addr].nonce = store'.nonce
  BY DEF InStep
<1>1. Visit(c)
  BY StepOfIsTyped DEF Keeps, Visit
<1>2. \A o \in Ops : op'[o].stage = "answered"
                     => op'[o].answer.nonce = ledger'[op'[o].acct].nonce
  BY <1>1, AnswersInStep
<1>3. CASE op[c].stage # "done" /\ Live' /\ op'[c].stage = "done"
  BY <1>1, <1>2, <1>3, FirstInStep
<1>4. CASE op[c].stage = "done" /\ Live'
  <2>1. ~Connect(q)
    BY <1>1, <1>4, ConnectDoes, KindFacts DEF Visit
  <2>2. Live /\ store'.addr = store.addr
    BY <1>4, <2>1, ShownStep
  <2> QED
    BY <1>1, <1>2, <1>4, <2>1, <2>2, NoncesInStep
<1> QED
  BY <1>2, <1>3, <1>4

LEMMA NextInStep ==
  ASSUME Typed, Fitting, QueueOrder, ConnectsFirst, InStep, Next
  PROVE  InStep'
<1>1. ASSUME NEW o \in Ops, StepOf(o) PROVE InStep'
  BY <1>1, InStepStep
<1>2. CASE StepBeside
  <2>1. op' = op /\ kind' = kind /\ job' = job /\ ledger' = ledger
    BY <1>2, BesideDoes
  <2>2. ~Live' \/ store' = store
    BY <1>2, ShownBeside
  <2> QED
    BY <2>1, <2>2 DEF InStep, Visit, Due, NothingGivenUp, Live
<1>3. CASE Reload
  <2>1. store' = store /\ kind' = kind /\ job' = job /\ ledger' = ledger
    BY <1>3, ReloadDoes
  <2>2. ASSUME NothingGivenUp', NEW o \in Ops
        PROVE  op'[o].stage = op[o].stage /\ op[o].stage \in {"new", "done"}
    <3>1. op'[o].stage \notin {"failed", "gone"}
      BY <2>2 DEF NothingGivenUp
    <3> QED
      BY <1>3, <3>1, ReloadDoes DEF Started, Ended
  <2>3. NothingGivenUp' => NothingGivenUp
    BY <2>2 DEF NothingGivenUp
  <2> QED
    BY <2>1, <2>2, <2>3 DEF InStep, Visit, Due, Live
<1> QED
  BY <1>1, <1>2, <1>3, NextCases

-----------------------------------------------------------------------------
(***************************************************************************)
(* The invariant, and what it says                                         *)
(***************************************************************************)
LEMMA InitIsInv == Init => IInv
<1> SUFFICES ASSUME Init PROVE IInv
  OBVIOUS
<1>1. Typed
  BY InitIsTyped
<1>2. ASSUME NEW o \in Ops
      PROVE  /\ op[o].stage = "new" /\ op[o].acct = None /\ ~op[o].creates
             /\ op[o].purpose = "none" /\ job[o].status = "none"
  BY DEF Init, NewOp, NoJob
<1>3. store.view = None /\ ~Live /\ queue = <<>>
  BY DEF Init, InitialStore, Store, Live
<1>4. Fitting
  BY <1>2 DEF Fitting, Fits
<1>5. QueueOrder
  BY <1>2, <1>3 DEF QueueOrder, Started
<1>6. PaidOnce /\ Settling /\ NotNewer
  BY <1>2 DEF PaidOnce, Settling, NotNewer
<1>7. NonceNotAhead /\ ConnectsFirst
  BY <1>2, <1>3 DEF NonceNotAhead, ConnectsFirst
<1>8. NewerThanDone /\ InStep
  BY <1>2, <1>3 DEF NewerThanDone, InStep
<1> QED
  BY <1>1, <1>4, <1>5, <1>6, <1>7, <1>8 DEF IInv

LEMMA NextKeepsInv ==
  ASSUME IInv, Next
  PROVE  IInv'
<1>1. /\ Typed /\ Fitting /\ QueueOrder /\ PaidOnce /\ Settling /\ NotNewer
      /\ NonceNotAhead /\ ConnectsFirst /\ NewerThanDone /\ InStep
  BY DEF IInv
<1>2. Typed' /\ Fitting' /\ QueueOrder'
  BY <1>1, NextIsTyped, FittingStep, NextKeepsQueue
<1>3. PaidOnce' /\ Settling'
  BY <1>1, NextPaysOnce
<1>4. NotNewer' /\ NonceNotAhead'
  BY <1>1, NotNewerStep, NextNotAhead
<1>5. ConnectsFirst' /\ NewerThanDone'
  BY <1>1, NextConnectsFirst, NextNewer
<1>6. InStep'
  BY <1>1, NextInStep
<1> QED
  BY <1>2, <1>3, <1>4, <1>5, <1>6 DEF IInv

LEMMA StutterKeepsInv ==
  ASSUME IInv, UNCHANGED vars
  PROVE  IInv'
<1> USE DEF vars
<1>1. Typed' /\ Fitting' /\ QueueOrder'
  BY DEF IInv, Typed, Live, Fitting, Fits, Asks, QueueOrder, Started
<1>2. PaidOnce' /\ Settling' /\ NotNewer'
  BY DEF IInv, PaidOnce, Settling, ConfirmedBorrow, NotNewer
<1>3. NonceNotAhead'
  BY DEF IInv, NonceNotAhead, Live, OneAccount, Quiet, Mutating, Refreshing
<1>4. ConnectsFirst' /\ NewerThanDone'
  BY DEF IInv, ConnectsFirst, NewerThanDone, Visit, Live, OneAccount, Mutating
<1>5. InStep'
  BY DEF IInv, InStep, Visit, NothingGivenUp, Live, Due
<1> QED
  BY <1>1, <1>2, <1>3, <1>4, <1>5 DEF IInv

LEMMA Invariance == Spec => []IInv
<1>1. IInv /\ [Next]_vars => IInv'
  BY NextKeepsInv, StutterKeepsInv
<1> QED
  BY <1>1, InitIsInv, PTL DEF Spec

LEMMA InvIsTypeOK == IInv => TypeOK
<1> SUFFICES ASSUME IInv PROVE TypeOK
  OBVIOUS
<1>1. Typed /\ QueueOrder
  BY DEF IInv
<1>2. \A i \in DOMAIN queue : op[queue[i]].stage \notin {"new"} \cup Ended
  BY <1>1 DEF QueueOrder, Started
<1>3. ASSUME NEW o \in Ops
      PROVE  /\ op[o].stage \in Stages /\ op[o].purpose \in Purposes
             /\ op[o].answer \in AnswerType \cup {None} /\ job[o].status \in Statuses
  BY <1>1, OpFields
<1>4. ASSUME NEW a \in Accounts PROVE ledger[a].usdt0 \in Nat /\ ledger[a].mandate \in Nat
  BY <1>1 DEF Typed, AccountType
<1> QED
  BY <1>1, <1>2, <1>3, <1>4 DEF TypeOK, Typed, StoreType

\* At most one element, at most one.
LEMMA AtMostOne ==
  ASSUME NEW S, \A x \in S : \A y \in S : x = y
  PROVE  Cardinality(S) \in {0, 1} /\ (S # {} => Cardinality(S) = 1)
<1>1. CASE S = {}
  BY <1>1, FS_EmptySet
<1>2. CASE S # {}
  <2>1. PICK x : x \in S
    BY <1>2
  <2>2. S = {x}
    BY <2>1
  <2> QED
    BY <2>2, FS_Singleton
<1> QED
  BY <1>1, <1>2

\* The queue keeps the mutations of a tab apart, and nothing leaves its type
\* (serializeMutation).
THEOREM OneAtATime == Spec => []QueueInvariant
<1>1. IInv => OneMutationAtATime
  <2> SUFFICES ASSUME IInv PROVE OneMutationAtATime
    OBVIOUS
  <2> DEFINE S == {o \in Ops : kind[o] \in Serialized /\ Started(o) /\ op[o].stage # "queued"}
  <2>1. \A o \in S : \A p \in S : o = p
    BY RunsAlone DEF IInv, Runs
  <2> HIDE DEF S
  <2>2. Cardinality(S) \in {0, 1}
    BY <2>1, AtMostOne
  <2> QED
    BY <2>2 DEF OneMutationAtATime, S
<1> QED
  BY <1>1, InvIsTypeOK, Invariance, PTL DEF QueueInvariant

\* With one connection and nothing beside the queue, a mutation the tab reported as
\* done is in the view it shows, or the recovery flag is raised: the refresh after a
\* settlement, its failure and the refreshes of later mutations keep to that
\* (refreshSettlementView, hydratePrivateAccount).
THEOREM DoneIsShown == Spec => []SettlementShown
<1>1. IInv => SettlementShown
  <2> SUFFICES ASSUME IInv, Sequential, NEW o \in Ops, Mutating(o), op[o].stage = "done",
                      job[o].status = "applied", Shown, store.view.owner = op[o].acct
               PROVE  store.flag \/ store.view.version >= job[o].version
    BY DEF SettlementShown
  <2>1. PICK c \in Ops : Visit(c)
    BY DEF Sequential, Visit
  <2> QED
    BY <2>1 DEF IInv, NewerThanDone, Shown
<1> QED
  BY <1>1, Invariance, PTL

\* In a Sequential visit of one account where nothing was given up the increments of the
\* tab follow those of the enclave: when nothing runs, the nonce the next command will be
\* signed with is the ledger's (incrementAccountNonce, hydratePrivateAccount).  Refreshes
\* of the page, deposits and further connections are not in such a visit.
THEOREM NonceFollowsLedger == Spec => []NonceInSync
<1>1. IInv => NonceInSync
  <2> SUFFICES ASSUME IInv, Sequential, Shown, OneAccount,
                      \A o \in Ops : op[o].stage \in {"new", "done"}
               PROVE  store.nonce = ledger[store.addr].nonce
    BY DEF NonceInSync
  <2>1. PICK c \in Ops : Visit(c)
    BY DEF Sequential, Visit
  <2>2. Live /\ store.view # None
    BY DEF Shown
  <2>3. op[c].stage = "done"
    BY <2>1, <2>2 DEF IInv, ConnectsFirst
  <2>4. NothingGivenUp /\ \A o \in Ops : ~Due(o)
    BY DEF NothingGivenUp, Due
  <2> QED
    BY <2>1, <2>2, <2>3, <2>4 DEF IInv, InStep
<1> QED
  BY <1>1, Invariance, PTL

\* A borrow is reported as settled only if its quote was paid out, and a quote is paid
\* out once, however many times it is accepted (acceptBorrow, refreshProcessedBorrow).
THEOREM QuoteIsPaidOnce == Spec => []AcceptedIsPaidOnce
<1>1. IInv => AcceptedIsPaidOnce
  <2> SUFFICES ASSUME IInv, NEW o \in Ops, kind[o] = "BORROW_ACCEPT", op[o].stage = "done"
               PROVE  Cardinality({p \in Ops : /\ kind[p] = "BORROW_ACCEPT"
                                               /\ op[p].acct = op[o].acct
                                               /\ job[p].status = "applied"}) = 1
    BY DEF AcceptedIsPaidOnce
  <2> DEFINE S == {p \in Ops : /\ kind[p] = "BORROW_ACCEPT" /\ op[p].acct = op[o].acct
                               /\ job[p].status = "applied"}
  <2>1. \A p \in S : \A q \in S : p = q
    BY DEF IInv, PaidOnce
  <2>2. S # {}
    BY DEF IInv, Settling, ConfirmedBorrow
  <2> HIDE DEF S
  <2>3. Cardinality(S) = 1
    BY <2>1, <2>2, AtMostOne
  <2> QED
    BY <2>3 DEF S
<1> QED
  BY <1>1, Invariance, PTL

\* The nonce of the tab runs ahead of the ledger's only while the operation that
\* advanced it still refreshes, or with the flag raised (incrementAccountNonce,
\* markSettlementRefreshPending).
THEOREM AheadOnlyFlagged == Spec => []NonceAheadIsFlagged
<1>1. IInv => NonceAheadIsFlagged
  <2> SUFFICES ASSUME IInv, Shown, OneAccount, ~store.flag,
                      \A o \in Ops :
                        /\ ~(Mutating(o) /\ (Refreshing(o) \/ op[o].stage = "gone"))
                        /\ ~op[o].creates \/ op[o].stage = "done"
               PROVE  store.nonce <= ledger[store.addr].nonce
    BY DEF NonceAheadIsFlagged
  <2>1. \A o \in Ops : Quiet(o)
    BY DEF Quiet
  <2> QED
    BY <2>1 DEF IInv, NonceNotAhead, Shown
<1> QED
  BY <1>1, Invariance, PTL

\* A borrow is reported as settled by its own job, or on the sight of the open loan:
\* never because its quote was used before (refreshProcessedBorrow,
\* accountContainsQuoteLoan).
THEOREM ReportedOnSight == Spec => ReportedBorrowIsOpen
<1>1. ASSUME IInv, Next, NEW o \in Ops, kind[o] = "BORROW_ACCEPT", op[o].stage # "done",
             op'[o].stage = "done"
      PROVE  job[o].status = "applied" \/ store'.view.loan
  <2>1. Typed /\ Fitting
    BY <1>1 DEF IInv
  <2>2. ~StepBeside /\ ~Reload
    BY <1>1, <2>1, BesideDoes, ReloadDoes
  <2>3. PICK q \in Ops : StepOf(q)
    BY <1>1, <2>2, NextCases
  <2>4. q = o /\ (Hydrate(o) \/ Fails(o) \/ Rejected(o))
    BY <1>1, <2>1, <2>3, BecomesDone
  <2>5. kind[o] \in Mutations
    BY <1>1, KindFacts
  <2>6. CASE Fails(o) \/ Rejected(o)
    <3>1. op[o].stage \in {"query", "answered"} /\ op[o].purpose = "settled"
      BY <1>1, <2>1, <2>6, ThrowsDoes
    <3> QED
      BY <2>1, <2>5, <3>1 DEF Fitting, Fits, Asks
  <2>7. CASE Hydrate(o)
    <3>1. /\ op[o].stage = "answered" /\ store' = Hydrated(store, op[o].answer)
          /\ op[o].purpose \in {"prior", "processed"} => op[o].answer.loan
      BY <1>1, <2>1, <2>7, HydrateDoes
    <3>2. op[o].purpose \in {"prior", "processed"} \/ job[o].status = "applied"
      BY <2>1, <2>5, <3>1 DEF Fitting, Fits, Asks
    <3>3. store'.view = op[o].answer
      BY <2>1, <3>1 DEF Hydrated, Typed, StoreType
    <3> QED
      BY <3>1, <3>2, <3>3
  <2> QED
    BY <2>4, <2>6, <2>7
<1>2. ASSUME UNCHANGED vars, NEW o \in Ops, op[o].stage # "done" PROVE op'[o].stage # "done"
  BY <1>2 DEF vars
<1>3. IInv /\ [Next]_vars =>
        [\A o \in Ops :
           kind[o] = "BORROW_ACCEPT" /\ op[o].stage # "done" /\ op'[o].stage = "done"
           => job[o].status = "applied" \/ store'.view.loan]_vars
  BY <1>1, <1>2
<1> QED
  BY <1>3, Invariance, PTL DEF Spec, ReportedBorrowIsOpen
=============================================================================
